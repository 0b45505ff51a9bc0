----------------------------- MODULE Lifecycle -----------------------------
(***************************************************************************)
(* What the container manager promises its user about one session: the     *)
(* states a container goes through, as one step per call.  How long a call *)
(* takes, and what processes, cgroups and files it works on, is left out.  *)
(***************************************************************************)
CONSTANT Ids

VARIABLE life   \* id -> "absent", "CREATED", "RUNNING" or "STOPPED"

Init == life = [id \in Ids |-> "absent"]

Create(id) == life[id] = "absent" /\ life' = [life EXCEPT ![id] = "CREATED"]

Start(id) ==
    /\ life[id] \in {"CREATED", "STOPPED"}
    /\ life' = [life EXCEPT ![id] = "RUNNING"]

Stop(id) == life[id] = "RUNNING" /\ life' = [life EXCEPT ![id] = "STOPPED"]

\* Only a container that does not run can go.
Destroy(id) ==
    /\ life[id] \in {"CREATED", "STOPPED"}
    /\ life' = [life EXCEPT ![id] = "absent"]

\* A shutdown by signal retires the containers that never ran, and does so
\* after everything that ran has been stopped.
Retire ==
    /\ \A id \in Ids : life[id] # "RUNNING"
    /\ life' = [id \in Ids |-> IF life[id] = "CREATED" THEN "STOPPED" ELSE life[id]]

\* The manager process ends, by exit or by a crash.
End == life' = [id \in Ids |-> "absent"]

Next ==
    \/ \E id \in Ids : Create(id) \/ Start(id) \/ Stop(id) \/ Destroy(id)
    \/ Retire
    \/ End

Spec == Init /\ [][Next]_life
=============================================================================
