----------------------------- MODULE CgroupSpec -----------------------------
(***************************************************************************)
(* What the container manager expects of cgroups, whatever the version:    *)
(* one group per container that exists or does not, and for each process   *)
(* the one group it is in.  The module Kernel uses the same abstraction.   *)
(***************************************************************************)
CONSTANTS Ids, Pids, NoGroup

VARIABLES groups, \* the containers that have a complete group
          in      \* process -> the container whose group confines it

Init == groups = {} /\ in = [p \in Pids |-> NoGroup]

Make(id) == groups' = groups \cup {id} /\ UNCHANGED in

\* A group that confines a process stays.
Remove(id) ==
    /\ \A p \in Pids : in[p] # id
    /\ groups' = groups \ {id}
    /\ UNCHANGED in

Attach(p, id) == id \in groups /\ in' = [in EXCEPT ![p] = id] /\ UNCHANGED groups

Leave(p) == in' = [in EXCEPT ![p] = NoGroup] /\ UNCHANGED groups

Next ==
    \/ \E id \in Ids : Make(id) \/ Remove(id) \/ \E p \in Pids : Attach(p, id)
    \/ \E p \in Pids : Leave(p)

Spec == Init /\ [][Next]_<<groups, in>>
=============================================================================
