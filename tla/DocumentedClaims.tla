-------------------------- MODULE DocumentedClaims --------------------------
(***************************************************************************)
(* Sentences of the repository's documents and messages about the          *)
(* container manager that the code does not live up to, one property each. *)
(* TLC refutes every one; the counterexamples are in README.md.            *)
(***************************************************************************)
EXTENDS MCContainerManager

\* "RUNNING: Container process is active." (docs/technical_report.md)
\* Nothing tells the manager that a container's process has ended.
RunningIsActive ==
    \A i \in DOMAIN containers :
        Running(i) => procs[containers[i].pid] = "alive"

\* "Stopped containers can be relaunched with their original configuration."
\* (docs/technical_report.md)  load_state restores no configuration.
StoppedRestartable ==
    pc = "idle" =>
        \A i \in DOMAIN containers :
            containers[i].state = "STOPPED" => containers[i].saved_config # "null"

\* "Each container gets a dedicated Cgroup" (README.md).  start names the
\* cgroup after what the user typed, which may be the pid that the stopped
\* container once had and a later container has as its id.
DedicatedCgroup ==
    \A i, j \in DOMAIN containers :
        /\ Running(i) /\ procs[containers[i].pid] = "alive"
        /\ Running(j) /\ procs[containers[j].pid] = "alive"
        /\ cgOf[containers[i].pid] = cgOf[containers[j].pid]
        => i = j

\* "All containers stopped. Exiting..." (the signal handler, main.cpp)  A
\* process that is cloned and not yet recorded is not among them.
AllStoppedAtExit ==
    [][stop_all_done => \A p \in children : procs'[p] # "alive"]_vars

\* "Stop: Gracefully terminates the container process."
\* (docs/technical_report.md)  stop and the handler kill whatever has the
\* recorded pid by then.
StopKillsContainersOnly ==
    [][\A p \in Pids :
          procs[p] = "host" => procs'[p] = "host" \/ (HostExit(p) /\ UNCHANGED cmVars)]_vars
=============================================================================
