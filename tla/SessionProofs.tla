--------------------------- MODULE SessionProofs ---------------------------
(***************************************************************************)
(* Proofs about ContainerManager within the life of one manager process:   *)
(* recorded pids, cgroups and what a stop or a destroy touches.            *)
(***************************************************************************)
EXTENDS RecoveryProofs

(***************************************************************************)
(* The inductive invariants.                                               *)
(***************************************************************************)

\* A child that has not been waited for is there.
ChildrenExist == \A p \in children : procs[p] \in {"alive", "zombie"}

\* Only live container processes are in container cgroups.
CgroupsOfLive == \A p \in Pids : cgOf[p] # NoCgroup => procs[p] = "alive"

\* The entry a stop works on is still RUNNING.
ReapTarget == pc = "reap" => containers[job.idx].state = "RUNNING"

\* The table is empty while the first manager loads, and when there is no manager.
EmptyTable == pc = "down" \/ (sessions <= 1 /\ pc = "load") => containers = <<>>

\* A RUNNING entry has a pid, its own.
OwnPid ==
    \A i \in DOMAIN containers : Running(i) =>
        /\ containers[i].pid \in Pids
        /\ \A k \in DOMAIN containers :
              Running(k) /\ containers[k].pid = containers[i].pid => k = i

\* A process that is being launched or that exec waits for is no RUNNING entry's.
HeldPid ==
    pc \in {"attach", "commit", "exec"} =>
        /\ job.pid \in children
        /\ \A i \in DOMAIN containers : Running(i) => containers[i].pid # job.pid

\* The process of a RUNNING entry has not been waited for, but for the held one.
NotCollected ==
    \A i \in DOMAIN containers :
        Running(i) => containers[i].pid \in children \cup {job.pid}

PinInv ==
    /\ ChildrenExist /\ CgroupsOfLive /\ ReapTarget /\ EmptyTable
    /\ sessions <= 1 => OwnPid /\ HeldPid /\ NotCollected

\* The entry a call works on has the id the call was given.
TargetNamed ==
    pc \in {"clone", "attach", "commit", "remove"} \/ (pc = "reap" /\ job.op = "destroy") =>
        containers[job.idx].id = job.arg

\* A process in a cgroup is the one of the RUNNING entry with the cgroup's id, or
\* it is being launched.
CgroupOwned ==
    \A p \in Pids : cgOf[p] # NoCgroup =>
        \/ \E i \in DOMAIN containers :
              Running(i) /\ containers[i].pid = p /\ containers[i].id = cgOf[p]
        \/ p = job.pid

\* In the cgroup of a RUNNING entry there is no process but its own.
CgroupExclusive ==
    \A p \in Pids, i \in DOMAIN containers :
        Running(i) /\ cgOf[p] = containers[i].id => containers[i].pid = p

\* The cgroup of a launch.
LaunchCgroup ==
    /\ pc \in {"root", "add", "clone", "attach"} => job.arg \in dirs
    /\ pc \in {"attach", "exec"} => cgOf[job.pid] = NoCgroup
    /\ pc = "commit" => cgOf[job.pid] \in {NoCgroup, job.arg}

\* Attached before its pid is recorded.
Attached == pc = "commit" /\ procs[job.pid] = "alive" => cgOf[job.pid] = job.arg

\* There are no cgroups before the first call of the first manager.
NoCgroupsYet ==
    sessions = 0 \/ (sessions = 1 /\ pc = "load") =>
        dirs = {} /\ \A p \in Pids : cgOf[p] = NoCgroup

\* The handler's loop is the only call that a signal begins.
SignalJob == job.op = "signal" => pc \in {"stopping", "reap"}

\* The id for which create has made a cgroup and no entry: in create itself, and
\* after a signal has ended it.
Pending ==
    IF pc \in {"root", "add", "closing", "exit"} \/ job.op = "signal" THEN {job.arg} ELSE {}

\* A cgroup belongs to an entry or to such an id, unless resource_manager_create_cgroup
\* has failed and left one.
DirsKnown == "cgroup" \notin Faults => dirs \subseteq TableIds \cup Pending

\* The cgroups, within the first session.
CgroupNow == CgroupOwned /\ CgroupExclusive /\ LaunchCgroup /\ DirsKnown

CgroupInv ==
    /\ TargetNamed /\ NoCgroupsYet /\ SignalJob
    /\ sessions <= 1 => UniqueIds
    /\ sessions <= 1 /\ pc # "down" => CgroupNow

ConfinedInv == sessions <= 1 => Confined /\ Attached

(***************************************************************************)
(* What a step does to the kernel's processes.                             *)
(***************************************************************************)

\* Every way in which a step can change the process table and the cgroups.
LEMMA KernelSteps ==
    ASSUME [Next]_vars
    PROVE  \/ UNCHANGED <<procs, children, cgOf>>
           \/ \E V, W : Kill(V, W)
           \/ ManagerDies
           \/ \E p \in Pids : Spawn(p) /\ pc \in {"idle", "clone"}
           \/ add_to_cgroup
           \/ KernelNext
<1>1. CASE Session
  BY <1>1 DEF Session, container_manager_init, load_record, load_done, command_done,
     container_manager_cleanup, exit_process, Exit, kernelVars
<1>2. CASE Create
  BY <1>2 DEF Create, container_manager_create, create_cgroup_fails,
     fs_create_minimal_root, create_fails, create_entry, kernelVars
<1>3. CASE Launch
  BY <1>3 DEF Launch, container_manager_start, start_cgroup_fails, clone_process,
     clone_fails, record_running, foreground_wait, kernelVars
<1>4. CASE Exec
  BY <1>4 DEF Exec, container_manager_exec, exec_return
<1>5. CASE \E arg \in Args : container_manager_stop(arg) \/ container_manager_destroy(arg)
  BY <1>5 DEF container_manager_stop, container_manager_destroy, BeginStop, kernelVars
<1>6. CASE reap_and_record \/ finish_destroy
  BY <1>6 DEF reap_and_record, finish_destroy
<1>7. CASE menu_exit \/ signal_handler \/ stop_next \/ stop_all_done
  BY <1>7 DEF menu_exit, signal_handler, BeginStopAll, stop_next, BeginStop, stop_all_done,
     kernelVars
<1>8. CASE Environment \/ UNCHANGED vars
  BY <1>8 DEF Environment, vars, kernelVars
<1>9. CASE save_state \/ crash
  BY <1>9 DEF save_state, crash, Exit, kernelVars
<1>. QED
  BY <1>1, <1>2, <1>3, <1>4, <1>5, <1>6, <1>7, <1>8, <1>9 DEF Next, MainThread, Halt

\* A child that has not been waited for exists, and cgroups hold live processes.
LEMMA KernelInvStep ==
    ASSUME TypeInv, ChildrenExist, CgroupsOfLive, [Next]_vars
    PROVE  ChildrenExist' /\ CgroupsOfLive'
<1>. USE DEF TypeInv, TypeOK, KernelTypeOK, ChildrenExist, CgroupsOfLive
<1>1. CASE UNCHANGED <<procs, children, cgOf>>
  BY <1>1
<1>2. ASSUME NEW V, NEW W, Kill(V, W)
      PROVE  ChildrenExist' /\ CgroupsOfLive'
  BY <1>2 DEF Kill, ProcStatus
<1>3. CASE ManagerDies
  BY <1>3 DEF ManagerDies
<1>4. ASSUME NEW p \in Pids, Spawn(p)
      PROVE  ChildrenExist' /\ CgroupsOfLive'
  BY <1>4 DEF Spawn
<1>5. CASE add_to_cgroup
  <2>1. job.pid \in Pids
    BY <1>5 DEF add_to_cgroup, JobOK
  <2>. QED
    BY <1>5, <2>1 DEF add_to_cgroup
<1>6. ASSUME NEW p \in Pids, ProcExit(p) \/ HostFork(p) \/ HostExit(p)
      PROVE  ChildrenExist' /\ CgroupsOfLive'
  BY <1>6 DEF ProcExit, HostFork, HostExit
<1>. QED
  BY <1>1, <1>2, <1>3, <1>4, <1>5, <1>6, KernelSteps DEF KernelNext

\* A stop works on an entry that is RUNNING until the stop itself changes it.
LEMMA ReapTargetStep ==
    ASSUME TypeInv, ReapTarget, [Next]_vars
    PROVE  ReapTarget'
<1>1. CASE UNCHANGED <<containers, pc, job>>
  BY <1>1 DEF ReapTarget
<1>2. CASE \/ Session \/ Create \/ Launch \/ Exec \/ finish_destroy \/ stop_all_done
           \/ save_state \/ crash
  BY <1>1, <1>2, OutsideLoop DEF ReapTarget
<1>3. ASSUME NEW op, NEW i, NEW arg, BeginStop(op, i, arg)
      PROVE  ReapTarget'
  BY <1>3 DEF BeginStop, Job, ReapTarget
<1>4. CASE \E arg \in Args : container_manager_stop(arg) \/ container_manager_destroy(arg)
  BY <1>3, <1>4 DEF container_manager_stop, container_manager_destroy, ReapTarget
<1>5. CASE menu_exit \/ signal_handler
  BY <1>5 DEF menu_exit, signal_handler, BeginStopAll, ReapTarget
<1>6. CASE stop_next
  BY <1>3, <1>6 DEF stop_next, ReapTarget
<1>7. CASE reap_and_record
  BY <1>7 DEF reap_and_record, AfterReap, Returned, ReapTarget
<1>. QED
  BY <1>1, <1>2, <1>4, <1>5, <1>6, <1>7 DEF Next, MainThread, Halt, Environment,
     vars, cmVars

\* The first manager loads nothing.
LEMMA NothingToLoad ==
    ASSUME TypeInv, FirstFile, sessions <= 1
    PROVE  ~load_record
  BY DEF TypeInv, TypeOK, JobOK, FirstFile, load_record, Jobs

\* The table is filled by calls and by load_state only.
LEMMA EmptyTableStep ==
    ASSUME TypeInv, FirstFile, EmptyTable, [Next]_vars
    PROVE  EmptyTable'
<1>1. CASE container_manager_init
  BY <1>1 DEF container_manager_init, EmptyTable
<1>2. CASE UNCHANGED cmVars
  BY <1>2 DEF cmVars, sessionVars, EmptyTable
<1>3. ASSUME pc' = "down", ~UNCHANGED cmVars
      PROVE  containers' = <<>>
  <2>1. CASE save_state
    BY <1>3, <2>1 DEF save_state, FirstFile, SavesInCalls
  <2>2. CASE signal_handler \/ container_manager_init
    BY <1>3, <2>2 DEF signal_handler, BeginStopAll, container_manager_init
  <2>3. CASE crash \/ exit_process
    BY <2>3 DEF crash, exit_process, Exit
  <2>. QED
    BY <1>3, <2>1, <2>2, <2>3, QuietSteps, StepClasses
<1>. QED
  BY <1>1, <1>2, <1>3, SessionSteps, NothingToLoad DEF EmptyTable, FirstFile

(***************************************************************************)
(* Recorded pids cannot be reused while their manager lives.               *)
(***************************************************************************)

\* What the invariant says within the first session.
PinNow == OwnPid /\ HeldPid /\ NotCollected

\* Steps that leave the table alone and collect no child.
LEMMA SameTablePinned ==
    ASSUME OwnPid, NotCollected, UNCHANGED containers, children \subseteq children',
           job'.pid = job.pid \/ job.pid \notin Pids,
           pc' \notin {"attach", "commit", "exec"}
    PROVE  PinNow'
  BY DEF PinNow, OwnPid, HeldPid, NotCollected, Running

\* Steps after which every RUNNING entry is one that was RUNNING before, with its
\* pid, and no two entries come from one.
LEMMA FewerEntriesPinned ==
    ASSUME OwnPid, NotCollected,
           \A k \in DOMAIN containers' : Running(k)' =>
              \E i \in DOMAIN containers :
                  Running(i) /\ containers[i].pid = containers'[k].pid,
           \A k, j \in DOMAIN containers' : Running(k)' /\ Running(j)' /\ k # j =>
              \E a, b \in DOMAIN containers :
                  /\ a # b /\ Running(a) /\ Running(b)
                  /\ containers[a].pid = containers'[k].pid
                  /\ containers[b].pid = containers'[j].pid,
           \A k \in DOMAIN containers' :
              Running(k)' => containers'[k].pid \notin children \ children',
           job'.pid = job.pid \/ job.pid \notin Pids,
           pc' \notin {"attach", "commit", "exec"}
    PROVE  PinNow'
<1>1. OwnPid'
  BY DEF OwnPid
<1>2. HeldPid'
  BY DEF HeldPid
<1>3. NotCollected'
  BY DEF NotCollected, OwnPid
<1>. QED
  BY <1>1, <1>2, <1>3 DEF PinNow

\* A new process has a pid that no RUNNING entry has.
LEMMA SpawnPinned ==
    ASSUME TypeInv, ChildrenExist, OwnPid, NotCollected, NEW p \in Pids, Spawn(p),
           UNCHANGED containers, job.pid = NoPid, job'.pid = p
    PROVE  PinNow'
<1>. USE DEF TypeInv, TypeOK, KernelTypeOK
<1>1. \A i \in DOMAIN containers : Running(i) => containers[i].pid \in children
  BY PidsAssumption DEF OwnPid, NotCollected, NoPid
<1>2. p \notin children /\ children' = children \cup {p}
  BY DEF Spawn, ChildrenExist
<1>. QED
  BY <1>1, <1>2 DEF PinNow, OwnPid, HeldPid, NotCollected, Running

\* The end of the loop leaves ids, pids and RUNNING entries as they are.
LEMMA StopAllTable ==
    ASSUME TypeInv, stop_all_done
    PROVE  /\ DOMAIN containers' = DOMAIN containers
           /\ \A i \in DOMAIN containers :
                /\ containers'[i].pid = containers[i].pid
                /\ containers'[i].id = containers[i].id
                /\ containers'[i].state = "RUNNING" <=> containers[i].state = "RUNNING"
<1>. USE DEF TypeInv, TypeOK
<1>. DEFINE created == {i \in DOMAIN containers : containers[i].state = "CREATED"}
<1>1. \A i \in created : containers[i].state = "CREATED"
  OBVIOUS
<1>2. UNCHANGED containers \/ containers' = MarkStopped(containers, created)
  BY DEF stop_all_done
<1>. HIDE DEF created
<1>3. CASE containers' = MarkStopped(containers, created)
  <2>1. /\ DOMAIN containers' = DOMAIN containers
        /\ \A i \in DOMAIN containers :
             /\ containers'[i].pid = containers[i].pid
             /\ containers'[i].id = containers[i].id
             /\ containers'[i].state = IF i \in created THEN "STOPPED" ELSE containers[i].state
    BY <1>3, MarkStoppedTable
  <2>. QED
    BY <1>1, <2>1
<1>. QED
  BY <1>2, <1>3

\* Every step of the first session keeps recorded pids pinned.
LEMMA PinNowStep ==
    ASSUME TypeInv, TypeInv', TrackingInv, FirstFile, PinInv, [Next]_vars, sessions' <= 1
    PROVE  PinNow'
<1>. USE DEF TypeInv, TypeOK
<1>0. NoPid \notin Pids
  BY PidsAssumption DEF NoPid
<1>1. CASE containers' = <<>> /\ pc' \notin {"attach", "commit", "exec"}
  BY <1>1 DEF PinNow, OwnPid, HeldPid, NotCollected
<1>2. CASE container_manager_init \/ exit_process \/ crash
  BY <1>1, <1>2 DEF container_manager_init, exit_process, crash, Exit
<1>. SUFFICES ASSUME ~container_manager_init PROVE PinNow'
  BY <1>2
<1>3. sessions <= 1 /\ OwnPid /\ HeldPid /\ NotCollected
  BY SessionSteps DEF PinInv, FirstFile
<1>4. CASE load_record
  BY <1>3, <1>4, NothingToLoad
<1>5. CASE load_done
  BY <1>1, <1>3, <1>5 DEF load_done, PinInv, EmptyTable
<1>6. CASE save_state \/ Environment \/ UNCHANGED vars
  <2>1. UNCHANGED <<containers, children, pc, job>>
    BY <1>6 DEF Environment, KernelNext, ProcExit, HostFork, HostExit, vars, cmVars,
       kernelVars, save_state
  <2>. QED
    BY <1>3, <2>1 DEF PinNow, OwnPid, HeldPid, NotCollected, Running
<1>7. CASE command_done \/ container_manager_cleanup
  BY <1>3, <1>7, SameTablePinned DEF command_done, container_manager_cleanup, kernelVars
<1>8. CASE Create
  <2>1. job.pid = NoPid /\ UNCHANGED children /\ pc' \notin {"attach", "commit", "exec"}
    BY <1>8 DEF Create, container_manager_create, create_cgroup_fails, Creatable,
       fs_create_minimal_root, create_fails, CreateFails, create_entry,
       container_manager_run, AfterFailure, kernelVars, TrackingInv, NoPidHeld
  <2>2. CASE UNCHANGED containers
    BY <1>0, <1>3, <2>1, <2>2, SameTablePinned
  <2>3. ASSUME NEW config, containers' = Append(containers, NewInfo(job.arg, config))
        PROVE  PinNow'
    <3>1. \A k \in DOMAIN containers' : Running(k)' =>
            k \in DOMAIN containers /\ containers'[k] = containers[k]
      BY <2>3 DEF Running, NewInfo
    <3>2. \A k \in DOMAIN containers' : Running(k)' =>
            Running(k) /\ containers[k].pid = containers'[k].pid
      BY <3>1 DEF Running
    <3>. QED
      BY <1>0, <1>3, <2>1, <3>1, <3>2, FewerEntriesPinned
  <2>. QED
    BY <1>8, <2>2, <2>3, CreateTable DEF NewEntry
<1>9. ASSUME NEW arg \in Args, container_manager_start(arg)
      PROVE  PinNow'
  BY <1>0, <1>3, <1>9, SameTablePinned DEF container_manager_start, TrackingInv, NoPidHeld
<1>24. ASSUME NEW arg \in Args, start_cgroup_fails(arg)
       PROVE  PinNow'
  BY <1>0, <1>3, <1>24, SameTablePinned DEF start_cgroup_fails, TrackingInv, NoPidHeld,
     Returned
<1>10. ASSUME NEW p \in Pids, clone_process(p)
       PROVE  PinNow'
  <2>1. job.pid = NoPid /\ job'.pid = p
    BY <1>10 DEF clone_process, TrackingInv, NoPidHeld, Jobs
  <2>. QED
    BY <1>3, <1>10, <2>1, SpawnPinned DEF clone_process, PinInv
<1>11. CASE clone_fails
  BY <1>0, <1>3, <1>11, SameTablePinned DEF clone_fails, kernelVars, TrackingInv, NoPidHeld,
     Returned
<1>12. CASE add_to_cgroup
  BY <1>3, <1>12 DEF add_to_cgroup, PinNow, OwnPid, HeldPid, NotCollected, Running
<1>13. CASE record_running
  <2>1. /\ job.idx \in DOMAIN containers /\ job.pid \in Pids /\ job.pid \in children
        /\ containers[job.idx].state # "RUNNING" /\ UNCHANGED children
        /\ \A i \in DOMAIN containers : Running(i) => containers[i].pid # job.pid
    BY <1>3, <1>13 DEF record_running, JobOK, TrackingInv, LaunchTarget, HeldPid, kernelVars
  <2>2. /\ DOMAIN containers' = DOMAIN containers
        /\ containers'[job.idx].pid = job.pid /\ containers'[job.idx].state = "RUNNING"
        /\ \A k \in DOMAIN containers \ {job.idx} : containers'[k] = containers[k]
    BY <1>13, <2>1, MarkRunningTable DEF record_running
  <2>3. \A k \in DOMAIN containers' : Running(k)' =>
          \/ k = job.idx /\ containers'[k].pid = job.pid
          \/ Running(k) /\ k # job.idx /\ containers'[k].pid = containers[k].pid
             /\ containers'[k].pid # job.pid
    BY <2>1, <2>2 DEF Running
  <2>4. OwnPid'
    <3>1. \A k \in DOMAIN containers' : Running(k)' => containers'[k].pid \in Pids
      BY <1>3, <2>1, <2>2, <2>3 DEF OwnPid
    <3>2. ASSUME NEW i \in DOMAIN containers', NEW k \in DOMAIN containers',
                 Running(i)', Running(k)', containers'[k].pid = containers'[i].pid
          PROVE  k = i
      <4>1. CASE i = job.idx \/ k = job.idx
        BY <2>2, <2>3, <3>2, <4>1
      <4>2. CASE i # job.idx /\ k # job.idx
        BY <1>3, <2>2, <2>3, <3>2, <4>2 DEF OwnPid
      <4>. QED
        BY <4>1, <4>2
    <3>. QED
      BY <3>1, <3>2 DEF OwnPid
  <2>5. NotCollected'
    BY <1>0, <1>3, <2>1, <2>2, <2>3 DEF NotCollected
  <2>6. HeldPid'
    BY <1>13 DEF record_running, Returned, HeldPid
  <2>. QED
    BY <2>4, <2>5, <2>6 DEF PinNow
<1>14. CASE foreground_wait
  <2>1. children' = children \ {job.pid} /\ UNCHANGED <<containers, job, pc>> /\ pc = "wait"
    BY <1>14 DEF foreground_wait, Kill, cmVars
  <2>. QED
    BY <1>3, <2>1 DEF PinNow, OwnPid, HeldPid, NotCollected, Running
<1>15. ASSUME NEW arg \in Args, NEW p \in Pids, container_manager_exec(arg, p)
       PROVE  PinNow'
  <2>1. job.pid = NoPid /\ job'.pid = p
    BY <1>15 DEF container_manager_exec, TrackingInv, NoPidHeld, Job
  <2>. QED
    BY <1>3, <1>15, <2>1, SpawnPinned DEF container_manager_exec, PinInv
<1>16. CASE exec_return
  <2>1. children' = children \ {job.pid} /\ UNCHANGED containers
        /\ pc' \notin {"attach", "commit", "exec"}
        /\ \A i \in DOMAIN containers : Running(i) => containers[i].pid # job.pid
    BY <1>3, <1>16 DEF exec_return, Kill, Returned, HeldPid
  <2>. QED
    BY <1>3, <2>1 DEF PinNow, OwnPid, HeldPid, NotCollected, Running
<1>17. ASSUME NEW op, NEW i, NEW arg, BeginStop(op, i, arg)
       PROVE  PinNow'
  <2>1. job'.pid = job.pid /\ children' = children /\ pc' = "reap" /\ UNCHANGED containers
    BY <1>17 DEF BeginStop, Job, Kill
  <2>. QED
    BY <1>3, <2>1, SameTablePinned
<1>18. CASE \E arg \in Args : container_manager_stop(arg) \/ container_manager_destroy(arg)
  <2>1. pc = "idle" /\ job.pid = NoPid
    BY <1>18 DEF container_manager_stop, container_manager_destroy, TrackingInv, NoPidHeld
  <2>2. CASE pc' = "remove" /\ UNCHANGED <<kernelVars, containers>>
    BY <1>0, <1>3, <2>1, <2>2, SameTablePinned DEF kernelVars
  <2>. QED
    BY <1>17, <1>18, <2>2 DEF container_manager_stop, container_manager_destroy
<1>19. CASE reap_and_record
  <2>. DEFINE q == containers[job.idx].pid
  <2>1. /\ DOMAIN containers' = DOMAIN containers
        /\ \A i \in DOMAIN containers :
             /\ containers'[i].pid = containers[i].pid
             /\ containers'[i].state = IF i = job.idx THEN "STOPPED" ELSE containers[i].state
    BY <1>19, MarkStoppedTable DEF reap_and_record
  <2>2. job.idx \in DOMAIN containers /\ Running(job.idx)
    BY <1>19 DEF reap_and_record, JobOK, PinInv, ReapTarget, Running
  <2>3. children \ {q} \subseteq children'
    BY <1>19 DEF reap_and_record, Kill
  <2>4. job'.pid = job.pid \/ job.pid = NoPid
    BY <1>19, NextIdx DEF reap_and_record, TrackingInv, NoPidHeld
  <2>5. pc' \notin {"attach", "commit", "exec"}
    BY <1>19 DEF reap_and_record, AfterReap, Returned
  <2>6. \A k \in DOMAIN containers' : Running(k)' =>
          Running(k) /\ k # job.idx /\ containers[k].pid = containers'[k].pid
    BY <2>1 DEF Running
  <2>7. \A k \in DOMAIN containers' : Running(k)' => containers'[k].pid # q
    BY <1>3, <2>1, <2>2, <2>6 DEF OwnPid
  <2>. QED
    BY <1>0, <1>3, <2>1, <2>3, <2>4, <2>5, <2>6, <2>7, FewerEntriesPinned
<1>20. CASE finish_destroy
  <2>1. containers' = remove_container(containers, job.arg) /\ UNCHANGED children
        /\ job.pid = NoPid /\ pc' \notin {"attach", "commit", "exec"}
    BY <1>20 DEF finish_destroy, TrackingInv, NoPidHeld, AfterFailure, Returned
  <2>2. \A k \in DOMAIN containers' : \E i \in DOMAIN containers : containers'[k] = containers[i]
    BY <2>1, RemoveTable
  <2>3. \A k, j \in DOMAIN containers' : k # j =>
          \E a, b \in DOMAIN containers :
              a # b /\ containers'[k] = containers[a] /\ containers'[j] = containers[b]
    BY <2>1, RemoveApart
  <2>4. \A k \in DOMAIN containers' : Running(k)' =>
          \E i \in DOMAIN containers : Running(i) /\ containers[i].pid = containers'[k].pid
    BY <2>2 DEF Running
  <2>5. \A k, j \in DOMAIN containers' : Running(k)' /\ Running(j)' /\ k # j =>
          \E a, b \in DOMAIN containers :
              /\ a # b /\ Running(a) /\ Running(b)
              /\ containers[a].pid = containers'[k].pid
              /\ containers[b].pid = containers'[j].pid
    <3>. SUFFICES ASSUME NEW k \in DOMAIN containers', NEW j \in DOMAIN containers',
                         Running(k)', Running(j)', k # j
                  PROVE  \E a, b \in DOMAIN containers :
                            /\ a # b /\ Running(a) /\ Running(b)
                            /\ containers[a].pid = containers'[k].pid
                            /\ containers[b].pid = containers'[j].pid
      OBVIOUS
    <3>1. PICK a, b \in DOMAIN containers :
              a # b /\ containers'[k] = containers[a] /\ containers'[j] = containers[b]
      BY <2>3
    <3>. QED
      BY <3>1 DEF Running
  <2>. QED
    BY <1>0, <1>3, <2>1, <2>4, <2>5, FewerEntriesPinned
<1>21. CASE menu_exit \/ signal_handler
  <2>1. job'.pid = job.pid /\ UNCHANGED <<children, containers>> /\ pc' = "stopping"
    BY <1>21 DEF menu_exit, signal_handler, BeginStopAll, Job, kernelVars
  <2>. QED
    BY <1>3, <2>1, SameTablePinned
<1>22. CASE stop_next
  <2>1. CASE BeginStop(job.op, job.idx, job.arg)
    BY <1>17, <2>1
  <2>2. CASE ~BeginStop(job.op, job.idx, job.arg)
    <3>1. job' = [job EXCEPT !.idx = @ + 1] /\ UNCHANGED <<containers, children, pc>>
          /\ pc = "stopping"
      BY <1>22, <2>2 DEF stop_next, kernelVars
    <3>2. job'.pid = job.pid
      BY <3>1, NextIdx
    <3>. QED
      BY <1>3, <3>1, <3>2, SameTablePinned
  <2>. QED
    BY <2>1, <2>2
<1>23. CASE stop_all_done
  <2>1. job'.pid = job.pid /\ children' = children /\ pc' = "closing"
    BY <1>23 DEF stop_all_done, NoJob, Job, Kill
  <2>2. /\ DOMAIN containers' = DOMAIN containers
        /\ \A i \in DOMAIN containers :
             /\ containers'[i].pid = containers[i].pid
             /\ containers'[i].state = "RUNNING" <=> containers[i].state = "RUNNING"
    BY <1>23, StopAllTable
  <2>. QED
    BY <1>3, <2>1, <2>2 DEF PinNow, OwnPid, HeldPid, NotCollected, Running
<1>. QED
  BY <1>2, <1>4, <1>5, <1>6, <1>7, <1>8, <1>9, <1>10, <1>11, <1>12, <1>13, <1>14, <1>15,
     <1>16, <1>18, <1>19, <1>20, <1>21, <1>22, <1>23, <1>24
     DEF Next, MainThread, Session, Launch, Exec, Halt

\* Every step preserves the invariant behind PidPinned.
LEMMA PinStep ==
    ASSUME TypeInv, TypeInv', TrackingInv, FirstFile, PinInv, [Next]_vars
    PROVE  PinInv'
<1>1. ChildrenExist' /\ CgroupsOfLive' /\ ReapTarget' /\ EmptyTable'
  BY KernelInvStep, ReapTargetStep, EmptyTableStep DEF PinInv
<1>. QED
  BY <1>1, PinNowStep DEF PinInv, PinNow

\* Nothing runs yet.
LEMMA PinInit ==
    ASSUME Init
    PROVE  FirstFile /\ PinInv
<1>1. FirstFile
  BY ConstantsAssumption DEF Init, FirstFile, SavesInCalls
<1>. QED
  BY <1>1 DEF Init, KernelInit, PinInv, ChildrenExist, CgroupsOfLive, ReapTarget,
     EmptyTable, OwnPid, HeldPid, NotCollected

\* As long as the manager that has launched a container lives, whatever fails or
\* strikes, the recorded pid of a RUNNING entry is not given to another process;
\* only the one that handle_run itself has waited for is.
THEOREM PidsPinned == Spec => []PidPinned
<1>. DEFINE Inv == TypeInv /\ TrackingInv /\ FirstFile /\ PinInv
<1>1. Init => Inv
  BY TypeInit, TrackingInit, PinInit
<1>2. Inv /\ [Next]_vars => Inv'
  BY TypeStep, TrackingStep, FirstFileStep, PinStep
<1>3. Inv => PidPinned
  BY DEF PinInv, NotCollected, PidPinned
<1>. QED
  BY <1>1, <1>2, <1>3, PTL DEF Spec

\* A signal to other processes leaves a process of the host alone.
LEMMA KillSparesHost ==
    ASSUME TypeInv, ChildrenExist, NEW V, NEW W, Kill(V, W), NEW p \in Pids \ V,
           procs[p] = "host"
    PROVE  procs'[p] = "host"
  BY DEF TypeInv, TypeOK, KernelTypeOK, ChildrenExist, Kill

\* No container cgroup holds a process of the host.
LEMMA HostOutsideCgroups ==
    ASSUME TypeInv, CgroupsOfLive, NEW p \in Pids, procs[p] = "host",
           NEW i \in DOMAIN containers
    PROVE  p \notin Members(containers[i].id)
<1>1. containers[i].id \in Ids
  BY TableEntry, EntryType DEF TypeInv, TypeOK
<1>2. NoCgroup \notin Ids
  BY NamesAssumption DEF Ids, NoCgroup
<1>. QED
  BY <1>1, <1>2 DEF CgroupsOfLive, Members

\* A process of the host has no RUNNING entry's pid, but for the held one.
LEMMA HostNotRecorded ==
    ASSUME TypeInv, PinInv, sessions <= 1, NEW p \in Pids, procs[p] = "host", p # job.pid,
           NEW i \in DOMAIN containers, Running(i)
    PROVE  p # containers[i].pid
  BY DEF PinInv, NotCollected, ChildrenExist

\* Within one session no call kills a process of the host: what is found under a
\* recorded pid or in a cgroup when stop, destroy, the menu's exit or the signal
\* handler kills is the container's, also after other containers were stopped,
\* their pids reused and calls interrupted.
THEOREM HostsSpared == Spec => HostUntouched
<1>. DEFINE Inv == TypeInv /\ TrackingInv /\ FirstFile /\ PinInv
            Spared(p) == procs'[p] = "host" \/ (HostExit(p) /\ UNCHANGED cmVars)
<1>1. Init => Inv
  BY TypeInit, TrackingInit, PinInit
<1>2. Inv /\ [Next]_vars => Inv'
  BY TypeStep, TrackingStep, FirstFileStep, PinStep
<1>3. ASSUME Inv, [Next]_vars, NEW p \in Pids, sessions <= 1, p # job.pid, procs[p] = "host"
      PROVE  Spared(p)
  <2>. USE <1>3 DEF TypeInv, TypeOK, KernelTypeOK
  <2>0. ChildrenExist /\ CgroupsOfLive
    BY DEF PinInv
  <2>1. CASE UNCHANGED procs
    BY <2>1
  <2>2. CASE ManagerDies
    BY <2>2 DEF ManagerDies
  <2>3. ASSUME NEW q \in Pids, Spawn(q)
        PROVE  Spared(p)
    BY <2>3 DEF Spawn
  <2>4. CASE Environment
    BY <2>4 DEF Environment, KernelNext, ProcExit, HostFork, HostExit
  <2>5. ASSUME NEW op, NEW i \in DOMAIN containers, NEW arg, BeginStop(op, i, arg)
        PROVE  Spared(p)
    <3>1. Running(i) /\ Kill(StopVictims(i), {})
      BY <2>5 DEF BeginStop, Running
    <3>2. p \notin StopVictims(i)
      BY <2>0, <3>1, HostOutsideCgroups, HostNotRecorded DEF StopVictims
    <3>. QED
      BY <2>0, <3>1, <3>2, KillSparesHost
  <2>6. CASE reap_and_record
    <3>. DEFINE q == containers[job.idx].pid
    <3>1. job.idx \in DOMAIN containers /\ Running(job.idx)
      BY <2>6 DEF reap_and_record, JobOK, PinInv, ReapTarget, Running
    <3>2. p # q
      BY <3>1, HostNotRecorded
    <3>3. \E W : Kill({q}, W)
      BY <2>6 DEF reap_and_record
    <3>. QED
      BY <2>0, <3>2, <3>3, KillSparesHost
  <2>7. CASE stop_all_done
    <3>1. p \notin SweepVictims
      BY <2>0, HostOutsideCgroups DEF SweepVictims
    <3>. QED
      BY <2>0, <2>1, <2>7, <3>1, KillSparesHost DEF stop_all_done
  <2>8. CASE foreground_wait \/ exec_return
    <3>1. Kill({}, {job.pid})
      BY <2>8 DEF foreground_wait, exec_return
    <3>. QED
      BY <2>0, <3>1, KillSparesHost
  <2>9. CASE Session
    BY <2>1, <2>2, <2>9 DEF Session, container_manager_init, load_record, load_done,
       command_done, container_manager_cleanup, exit_process, Exit, kernelVars
  <2>10. CASE Create
    BY <2>1, <2>10 DEF Create, container_manager_create, create_cgroup_fails,
       fs_create_minimal_root, create_fails, create_entry, kernelVars
  <2>11. CASE Launch \/ Exec
    BY <2>1, <2>3, <2>8, <2>11 DEF Launch, Exec, container_manager_start, start_cgroup_fails,
       clone_process, clone_fails, add_to_cgroup, record_running, container_manager_exec,
       kernelVars
  <2>12. ASSUME NEW arg \in Args, container_manager_stop(arg) \/ container_manager_destroy(arg)
         PROVE  Spared(p)
    BY <2>1, <2>5, <2>12, FindInTable
       DEF container_manager_stop, container_manager_destroy, kernelVars
  <2>13. CASE menu_exit \/ signal_handler \/ finish_destroy
    BY <2>1, <2>13 DEF menu_exit, signal_handler, BeginStopAll, finish_destroy, kernelVars
  <2>14. CASE stop_next
    <3>1. job.idx \in DOMAIN containers
      BY <2>14 DEF stop_next, JobOK, Jobs
    <3>. QED
      BY <2>1, <2>5, <2>14, <3>1 DEF stop_next, kernelVars
  <2>15. CASE UNCHANGED vars
    BY <2>1, <2>15 DEF vars, kernelVars
  <2>16. CASE save_state \/ crash
    BY <2>1, <2>2, <2>16 DEF save_state, crash, Exit, kernelVars
  <2>. QED
    BY <2>4, <2>6, <2>7, <2>9, <2>10, <2>11, <2>12, <2>13, <2>14, <2>15, <2>16
       DEF Next, MainThread, Halt
<1>4. Inv /\ [Next]_vars =>
        [\A p \in Pids : sessions <= 1 /\ p # job.pid /\ procs[p] = "host" =>
            procs'[p] = "host" \/ (HostExit(p) /\ UNCHANGED cmVars)]_vars
  BY <1>3
<1>. QED
  BY <1>1, <1>2, <1>4, PTL DEF Spec, HostUntouched

(***************************************************************************)
(* Destroy takes out the entry it was called for, and nothing alive.       *)
(***************************************************************************)

\* What the user types leads to the entry with that id, as no pid is typed.
LEMMA ArgIsId ==
    ASSUME TypeInv, Args \cap Pids = {}, NEW arg \in Args, NEW i \in get_info(containers, arg)
    PROVE  i \in find_container(containers, arg) /\ containers[i].id = arg
<1>. USE DEF TypeInv, TypeOK
<1>1. find_container_by_pid(containers, arg) = {}
  <2>1. \A k \in DOMAIN containers : containers[k].pid \in Pids \cup {NoPid}
    BY TableEntry, EntryType
  <2>2. arg \notin Pids \cup {NoPid}
    BY ConstantsAssumption, NamesAssumption DEF Ids, NoPid
  <2>. QED
    BY <2>1, <2>2 DEF find_container_by_pid
<1>2. i \in find_container(containers, arg)
  BY <1>1 DEF get_info
<1>. QED
  BY <1>2, FindIsUnique

\* A call works on the entry with the id it was given, all along.
LEMMA TargetNamedStep ==
    ASSUME TypeInv, TypeInv', TargetNamed, [Next]_vars, Args \cap Pids = {}
    PROVE  TargetNamed'
<1>. USE DEF TypeInv, TypeOK
<1>. DEFINE Calls == {"clone", "attach", "commit", "remove", "reap"}
<1>1. CASE pc' \notin Calls
  BY <1>1 DEF TargetNamed
<1>2. CASE UNCHANGED <<containers, pc, job>>
  BY <1>2 DEF TargetNamed
<1>3. CASE Session \/ crash
  BY <1>1, <1>3 DEF Session, container_manager_init, load_record, load_done, command_done,
     container_manager_cleanup, exit_process, crash, Exit
<1>4. CASE Create
  <2>1. ASSUME NEW config, create_entry(config)
        PROVE  TargetNamed'
    <3>1. containers' = Append(containers, NewInfo(job.arg, config))
      BY <2>1 DEF create_entry, add_container
    <3>2. containers'[Len(containers) + 1] = NewInfo(job.arg, config)
      BY <3>1
    <3>3. pc' \notin Calls \/ (job'.idx = Len(containers) + 1 /\ job'.arg = job.arg)
      BY <2>1 DEF create_entry, container_manager_run, Job
    <3>. QED
      BY <1>1, <3>2, <3>3 DEF TargetNamed, NewInfo
  <2>2. CASE \/ \E op, id : container_manager_create(op, id) \/ create_cgroup_fails(op, id)
             \/ \E minimal_fs : fs_create_minimal_root(minimal_fs) \/ create_fails(minimal_fs)
    BY <1>1, <2>2 DEF container_manager_create, create_cgroup_fails,
       fs_create_minimal_root, create_fails, AfterFailure
  <2>. QED
    BY <1>4, <2>1, <2>2 DEF Create
<1>5. ASSUME NEW arg \in Args, container_manager_start(arg)
      PROVE  TargetNamed'
  <2>. PICK i \in get_info(containers, arg) : job' = Job("start", i, arg, NoPid)
    BY <1>5 DEF container_manager_start
  <2>1. containers[i].id = arg
    BY ArgIsId
  <2>. QED
    BY <1>5, <2>1 DEF container_manager_start, TargetNamed, Job
<1>6. ASSUME NEW p \in Pids, clone_process(p)
      PROVE  TargetNamed'
  <2>1. job'.idx = job.idx /\ job'.arg = job.arg /\ pc = "clone" /\ pc' = "attach"
        /\ UNCHANGED containers
    BY <1>6 DEF clone_process, Jobs
  <2>. QED
    BY <2>1 DEF TargetNamed
<1>7. CASE clone_fails
  <2>1. CASE pc' = "remove" /\ UNCHANGED <<containers, job>> /\ pc = "clone"
    BY <2>1 DEF TargetNamed
  <2>. QED
    BY <1>1, <1>7, <2>1 DEF clone_fails, Returned
<1>8. CASE add_to_cgroup
  BY <1>8 DEF add_to_cgroup, TargetNamed
<1>9. CASE record_running
  BY <1>1, <1>9 DEF record_running, Returned
<1>10. CASE foreground_wait
  BY <1>2, <1>10 DEF foreground_wait, cmVars
<1>11. CASE Exec
  BY <1>1, <1>11 DEF Exec, container_manager_exec, exec_return, Returned
<1>12. ASSUME NEW op, NEW i, NEW arg, BeginStop(op, i, arg),
              op = "destroy" => containers[i].id = arg
       PROVE  TargetNamed'
  BY <1>12 DEF BeginStop, Job, TargetNamed
<1>13. ASSUME NEW arg \in Args, container_manager_stop(arg)
       PROVE  TargetNamed'
  BY <1>12, <1>13 DEF container_manager_stop
<1>14. ASSUME NEW arg \in Args, container_manager_destroy(arg)
       PROVE  TargetNamed'
  <2>. PICK i \in get_info(containers, arg) :
        \E k \in find_container(containers, containers[i].id) :
          \/ BeginStop("destroy", k, arg)
          \/ pc' = "remove" /\ job' = Job("destroy", i, arg, NoPid) /\ UNCHANGED containers
    BY <1>14 DEF container_manager_destroy
  <2>. PICK k \in find_container(containers, containers[i].id) :
          \/ BeginStop("destroy", k, arg)
          \/ pc' = "remove" /\ job' = Job("destroy", i, arg, NoPid) /\ UNCHANGED containers
    OBVIOUS
  <2>1. containers[i].id = arg /\ containers[k].id = arg
    BY ArgIsId, FindIsUnique
  <2>2. CASE pc' = "remove" /\ job' = Job("destroy", i, arg, NoPid) /\ UNCHANGED containers
    BY <2>1, <2>2 DEF TargetNamed, Job
  <2>. QED
    BY <1>12, <2>1, <2>2
<1>15. CASE reap_and_record
  <2>1. CASE job.op = "destroy"
    <3>1. pc = "reap" /\ job' = job /\ job.idx \in DOMAIN containers
      BY <1>15, <2>1 DEF reap_and_record, JobOK
    <3>2. containers'[job.idx].id = containers[job.idx].id
      BY <1>15, <3>1, MarkStoppedTable DEF reap_and_record
    <3>. QED
      BY <2>1, <3>1, <3>2 DEF TargetNamed
  <2>2. CASE job.op # "destroy"
    BY <1>1, <1>15, <2>2 DEF reap_and_record, AfterReap, Returned
  <2>. QED
    BY <2>1, <2>2
<1>16. CASE finish_destroy \/ menu_exit \/ signal_handler \/ stop_all_done
  BY <1>1, <1>16 DEF finish_destroy, AfterFailure, Returned, menu_exit, signal_handler,
     BeginStopAll, stop_all_done
<1>17. CASE stop_next
  <2>1. job.op # "destroy"
    BY <1>17 DEF stop_next, JobOK
  <2>. QED
    BY <1>1, <1>12, <1>17, <2>1 DEF stop_next
<1>18. CASE save_state \/ Environment \/ UNCHANGED vars
  BY <1>2, <1>18 DEF save_state, Environment, vars, cmVars
<1>19. ASSUME NEW arg \in Args, start_cgroup_fails(arg)
       PROVE  TargetNamed'
  BY <1>1, <1>19 DEF start_cgroup_fails, Returned
<1>. QED
  BY <1>3, <1>4, <1>5, <1>6, <1>7, <1>8, <1>9, <1>10, <1>11, <1>13, <1>14, <1>15, <1>16,
     <1>17, <1>18, <1>19 DEF Next, MainThread, Launch, Halt

\* remove_container makes the table shorter by one if it finds the id.
LEMMA RemoveLength ==
    ASSUME NEW t \in Seq(Info), NEW x, find_container(t, x) # {}
    PROVE  Len(remove_container(t, x)) = Len(t) - 1
<1>1. PICK g \in DOMAIN t : find_container(t, x) = {g}
  BY DEF find_container
<1>2. remove_container(t, x) = [j \in 1..(Len(t) - 1) |-> IF j < g THEN t[j] ELSE t[j + 1]]
  BY <1>1 DEF remove_container
<1>3. remove_container(t, x) \in [1..(Len(t) - 1) -> Info] /\ Len(t) - 1 \in Nat
  BY <1>1, <1>2
<1>. QED
  BY <1>3, FunctionIsSeq

\* Across restarts and failures, destroy removes exactly one entry and loses track
\* of no live child, provided that containers are named by their ids: given a pid,
\* it would stop the container and then find no entry with that id to remove.
THEOREM DestroysCompletely ==
    ASSUME Args \cap Pids = {}
    PROVE  Spec => DestroyComplete
<1>. DEFINE Inv == TypeInv /\ TrackingInv /\ TargetNamed
            Complete ==
                /\ Len(containers') = Len(containers) - 1
                /\ \A p \in children : procs'[p] = "alive" => InTable(p)' \/ p = job.pid
<1>1. Init => Inv
  BY TypeInit, TrackingInit DEF Init, TargetNamed
<1>2. Inv /\ [Next]_vars => Inv'
  BY TypeStep, TrackingStep, TargetNamedStep
<1>3. ASSUME Inv, Inv', finish_destroy
      PROVE  Complete
  <2>. USE <1>3 DEF TypeInv, TypeOK
  <2>1. job.idx \in DOMAIN containers /\ containers[job.idx].id = job.arg
    BY DEF finish_destroy, JobOK, TargetNamed
  <2>2. find_container(containers, job.arg) # {}
    BY <2>1, FindComplete
  <2>3. Len(containers') = Len(containers) - 1
    BY <2>2, RemoveLength DEF finish_destroy
  <2>4. children' = children /\ job'.pid = NoPid
    BY DEF finish_destroy, NoJob, Job
  <2>5. \A p \in children : procs'[p] = "alive" => InTable(p)'
    BY <2>4, PidsAssumption DEF TrackingInv, AliveChildTracked, KernelTypeOK, NoPid
  <2>. QED
    BY <2>3, <2>5
<1>4. Inv /\ Inv' /\ [Next]_vars => [finish_destroy => Complete]_vars
  BY <1>3
<1>. QED
  BY <1>1, <1>2, <1>4, PTL DEF Spec, DestroyComplete

(***************************************************************************)
(* Cgroups and their processes.                                            *)
(***************************************************************************)

\* No id is the mark of a process outside all container cgroups, and an entry's
\* id is an id.
LEMMA EntryIds ==
    ASSUME TypeInv
    PROVE  NoCgroup \notin Ids /\ \A i \in DOMAIN containers : containers[i].id \in Ids
  BY TableEntry, EntryType, NamesAssumption DEF Ids, NoCgroup, TypeInv, TypeOK

\* The same after a step.
LEMMA EntryIdsPrime ==
    ASSUME TypeInv'
    PROVE  \A i \in DOMAIN containers' : containers'[i].id \in Ids
  BY TableEntry, EntryType DEF TypeInv, TypeOK

\* Before and while a manager loads, only it and the environment take steps.
LEMMA BeforeCalls ==
    ASSUME FirstFile, [Next]_vars, pc \in {"down", "load"}
    PROVE  Session \/ crash \/ Environment \/ UNCHANGED vars
<1>1. ~Create
  BY DEF Create, container_manager_create, create_cgroup_fails, Creatable,
     fs_create_minimal_root, create_fails, CreateFails, create_entry
<1>2. ~Launch /\ ~Exec
  BY DEF Launch, Exec, container_manager_start, start_cgroup_fails, clone_process,
     clone_fails, add_to_cgroup, record_running, foreground_wait, container_manager_exec,
     exec_return
<1>3. ~Halt
  BY DEF Halt, container_manager_stop, container_manager_destroy, reap_and_record,
     finish_destroy, menu_exit, stop_next, stop_all_done
<1>4. ~save_state /\ ~signal_handler
  BY DEF save_state, FirstFile, SavesInCalls, signal_handler, HandlerInstalled
<1>. QED
  BY <1>1, <1>2, <1>3, <1>4 DEF Next, MainThread

\* A job of the handler is in its loop.
LEMMA SignalJobStep ==
    ASSUME TypeInv, SignalJob, [Next]_vars
    PROVE  SignalJob'
<1>. USE DEF TypeInv, TypeOK
<1>1. CASE UNCHANGED <<pc, job>>
  BY <1>1 DEF SignalJob
<1>2. CASE pc' \in {"stopping", "reap"} \/ job'.op # "signal"
  BY <1>2 DEF SignalJob
<1>3. CASE Session \/ crash \/ save_state
  <2>1. CASE container_manager_init \/ exit_process \/ crash
    BY <1>2, <2>1 DEF container_manager_init, exit_process, crash, Exit, NoJob, Job
  <2>2. CASE load_done
    BY <1>2, <2>2 DEF load_done, NoJob, Job
  <2>3. CASE load_record
    <3>1. pc = "load" /\ job'.op = job.op
      BY <2>3, NextIdx DEF load_record
    <3>. QED
      BY <3>1, <1>2 DEF SignalJob
  <2>4. CASE command_done \/ container_manager_cleanup \/ save_state
    BY <1>1, <2>4 DEF command_done, container_manager_cleanup, save_state, SignalJob
  <2>. QED
    BY <1>3, <2>1, <2>2, <2>3, <2>4 DEF Session
<1>4. CASE Create
  BY <1>2, <1>4 DEF Create, container_manager_create, create_cgroup_fails,
     fs_create_minimal_root, create_fails, create_entry, container_manager_run, NoJob, Job,
     SignalJob
<1>5. ASSUME NEW p \in Pids, clone_process(p)
      PROVE  SignalJob'
  <2>1. job'.op = job.op /\ pc = "clone"
    BY <1>5 DEF clone_process, Jobs
  <2>. QED
    BY <2>1 DEF SignalJob
<1>6. CASE Launch
  BY <1>1, <1>2, <1>5, <1>6 DEF Launch, container_manager_start, start_cgroup_fails,
     clone_fails, add_to_cgroup, record_running, foreground_wait, cmVars, NoJob, Job,
     SignalJob
<1>7. CASE Exec
  BY <1>2, <1>7 DEF Exec, container_manager_exec, exec_return, NoJob, Job
<1>8. CASE \E arg \in Args : container_manager_stop(arg) \/ container_manager_destroy(arg)
  BY <1>2, <1>8 DEF container_manager_stop, container_manager_destroy, BeginStop, Job
<1>9. CASE reap_and_record
  <2>1. CASE job.op = "stop" \/ job.op = "destroy"
    BY <1>2, <1>9, <2>1 DEF reap_and_record, NoJob, Job
  <2>2. CASE job.op # "stop" /\ job.op # "destroy"
    BY <1>2, <1>9, <2>2 DEF reap_and_record, AfterReap
  <2>. QED
    BY <2>1, <2>2
<1>10. CASE finish_destroy \/ stop_all_done
  BY <1>2, <1>10 DEF finish_destroy, stop_all_done, NoJob, Job
<1>11. CASE menu_exit \/ signal_handler
  BY <1>2, <1>11 DEF menu_exit, signal_handler, BeginStopAll
<1>12. CASE stop_next
  BY <1>2, <1>12 DEF stop_next, BeginStop
<1>13. CASE Environment \/ UNCHANGED vars
  BY <1>1, <1>13 DEF Environment, vars, cmVars
<1>. QED
  BY <1>3, <1>4, <1>6, <1>7, <1>8, <1>9, <1>10, <1>11, <1>12, <1>13
     DEF Next, MainThread, Halt

\* The first manager starts without cgroups.
LEMMA NoCgroupsStep ==
    ASSUME TypeInv, FirstFile, NoCgroupsYet, [Next]_vars
    PROVE  NoCgroupsYet'
<1>. USE DEF TypeInv, TypeOK, KernelTypeOK
<1>1. CASE container_manager_init
  BY <1>1 DEF container_manager_init, kernelVars, NoCgroupsYet
<1>2. CASE Environment \/ UNCHANGED vars
  <2>1. UNCHANGED <<dirs, pc, sessions>> /\ \A p \in Pids : cgOf'[p] \in {cgOf[p], NoCgroup}
    BY <1>2 DEF Environment, KernelNext, ProcExit, HostFork, HostExit, vars, kernelVars,
       cmVars, sessionVars
  <2>. QED
    BY <2>1 DEF NoCgroupsYet
<1>3. CASE load_record
  BY <1>3 DEF load_record, kernelVars, sessionVars, NoCgroupsYet
<1>4. ASSUME ~container_manager_init, ~load_record, sessions' = 0 \/ pc' = "load"
      PROVE  Environment \/ UNCHANGED vars
  <2>1. UNCHANGED cmVars /\ pc \in {"down", "load"}
    BY <1>4, SessionSteps DEF FirstFile, cmVars
  <2>2. ~Session /\ ~crash
    BY <1>4, <2>1 DEF Session, load_done, command_done, container_manager_cleanup,
       exit_process, crash, Exit, cmVars
  <2>. QED
    BY <2>1, <2>2, BeforeCalls
<1>. QED
  BY <1>1, <1>2, <1>3, <1>4 DEF NoCgroupsYet

\* Steps that keep every RUNNING entry, move no process into a cgroup and drop no
\* process that is being launched.
LEMMA CgroupsKept ==
    ASSUME TypeInv, CgroupOwned, CgroupExclusive, DirsKnown,
           DOMAIN containers' = DOMAIN containers,
           \A i \in DOMAIN containers :
              /\ containers'[i].id = containers[i].id
              /\ containers'[i].pid = containers[i].pid
              /\ Running(i)' <=> Running(i),
           \A p \in Pids : cgOf'[p] \in {cgOf[p], NoCgroup},
           job'.pid = job.pid \/ job.pid \notin Pids \/ cgOf'[job.pid] = NoCgroup,
           dirs' \subseteq dirs, Pending \subseteq Pending'
    PROVE  CgroupOwned' /\ CgroupExclusive' /\ DirsKnown'
<1>1. CgroupOwned'
  BY DEF CgroupOwned
<1>2. CgroupExclusive'
  BY EntryIds DEF CgroupExclusive
<1>3. TableIds \subseteq TableIds'
  BY DEF TableIds
<1>4. DirsKnown'
  BY <1>3 DEF DirsKnown
<1>. QED
  BY <1>1, <1>2, <1>4

\* The same with a table that does not change at all.
LEMMA SameTableCgroups ==
    ASSUME TypeInv, CgroupNow, UNCHANGED containers,
           \A p \in Pids : cgOf'[p] \in {cgOf[p], NoCgroup},
           job'.pid = job.pid \/ job.pid \notin Pids \/ cgOf'[job.pid] = NoCgroup,
           dirs' \subseteq dirs, Pending \subseteq Pending'
    PROVE  CgroupOwned' /\ CgroupExclusive' /\ DirsKnown'
  BY CgroupsKept DEF CgroupNow, Running

\* Outside of create and of a shutdown every cgroup is an entry's.
LEMMA NonePending ==
    ASSUME SignalJob, pc \notin {"root", "add", "closing", "exit", "stopping", "reap"}
    PROVE  Pending = {}
  BY DEF SignalJob, Pending

\* What is pending stays so while the handler's loop, or the one of the menu, runs.
LEMMA SamePending ==
    ASSUME job'.arg = job.arg, pc' \in {"closing", "exit"} \/ job'.op = "signal"
    PROVE  Pending \subseteq Pending'
  BY DEF Pending

\* A kill moves nothing into a cgroup.
LEMMA KillCgroups ==
    ASSUME TypeInv, NEW V, NEW W, Kill(V, W)
    PROVE  \A p \in Pids : cgOf'[p] \in {cgOf[p], NoCgroup}
  BY DEF TypeInv, TypeOK, KernelTypeOK, Kill

\* The cgroup of an id that no RUNNING entry has is empty between two launches.
LEMMA CgroupEmpty ==
    ASSUME TypeInv, CgroupOwned, job.pid \notin Pids, NEW d \in Ids,
           \A i \in DOMAIN containers : Running(i) => containers[i].id # d
    PROVE  Members(d) = {}
  BY EntryIds DEF CgroupOwned, Members

\* Launching and exec keep the cgroups in order.
LEMMA CgroupLaunch ==
    ASSUME TypeInv, TypeInv', TrackingInv, PinInv, TargetNamed, UniqueIds, SignalJob,
           CgroupNow, sessions <= 1, Launch \/ Exec, Args \cap Pids = {}
    PROVE  CgroupNow'
<1>. USE DEF TypeInv, TypeOK
<1>0. NoPid \notin Pids /\ HeldPid
  BY PidsAssumption DEF NoPid, PinInv
<1>p. Pending = {}
  <2>1. pc \in {"idle", "clone", "attach", "commit", "wait", "exec"}
    BY DEF Launch, Exec, container_manager_start, start_cgroup_fails, clone_process,
       clone_fails, add_to_cgroup, record_running, foreground_wait, container_manager_exec,
       exec_return
  <2>. QED
    BY <2>1, NonePending
<1>1. ASSUME NEW arg \in Args, container_manager_start(arg)
      PROVE  CgroupNow'
  <2>. PICK i \in get_info(containers, arg) : job' = Job("start", i, arg, NoPid)
    BY <1>1 DEF container_manager_start
  <2>1. i \in DOMAIN containers /\ containers[i].id = arg
    BY ArgIsId, FindInTable
  <2>2. UNCHANGED <<containers, cgOf>> /\ dirs' = dirs \cup {arg} /\ pc' = "clone"
        /\ job'.arg = arg /\ job.pid = NoPid /\ job'.pid = NoPid
    BY <1>1 DEF container_manager_start, Job, TrackingInv, NoPidHeld
  <2>3. DirsKnown'
    BY <1>p, <2>1, <2>2 DEF CgroupNow, DirsKnown, TableIds
  <2>. QED
    BY <2>1, <2>2, <2>3 DEF CgroupNow, CgroupOwned, CgroupExclusive, LaunchCgroup, Running
<1>10. ASSUME NEW arg \in Args, start_cgroup_fails(arg)
       PROVE  CgroupNow'
  <2>1. UNCHANGED <<containers, cgOf>> /\ pc' \notin {"root", "add", "clone", "attach", "commit", "exec"}
        /\ job.pid = NoPid /\ job'.pid = NoPid /\ "cgroup" \in Faults
    BY <1>10 DEF start_cgroup_fails, NoJob, Job, TrackingInv, NoPidHeld, Returned
  <2>. QED
    BY <2>1 DEF CgroupNow, CgroupOwned, CgroupExclusive, LaunchCgroup, DirsKnown, Running
<1>2. ASSUME NEW p \in Pids, Spawn(p), UNCHANGED <<containers, dirs>>, job.pid = NoPid
      PROVE  CgroupOwned' /\ CgroupExclusive' /\ DirsKnown'
             /\ cgOf'[p] = NoCgroup
  <2>1. (\A q \in Pids : cgOf'[q] \in {cgOf[q], NoCgroup}) /\ cgOf'[p] = NoCgroup
    BY <1>2 DEF Spawn, KernelTypeOK
  <2>. QED
    BY <1>0, <1>p, <1>2, <2>1, SameTableCgroups
<1>3. ASSUME NEW p \in Pids, clone_process(p)
      PROVE  CgroupNow'
  <2>1. job.pid = NoPid /\ job'.pid = p /\ job'.arg = job.arg /\ pc = "clone" /\ pc' = "attach"
        /\ UNCHANGED <<containers, dirs>>
    BY <1>3 DEF clone_process, TrackingInv, NoPidHeld, Jobs
  <2>2. Spawn(p)
    BY <1>3 DEF clone_process
  <2>3. LaunchCgroup'
    BY <1>2, <2>1, <2>2 DEF CgroupNow, LaunchCgroup
  <2>. QED
    BY <1>2, <2>1, <2>2, <2>3 DEF CgroupNow
<1>4. CASE clone_fails
  <2>1. UNCHANGED <<containers, dirs, cgOf>> /\ job.pid = NoPid
        /\ pc' \notin {"root", "add", "clone", "attach", "commit", "exec"}
    BY <1>4 DEF clone_fails, kernelVars, TrackingInv, NoPidHeld, Returned
  <2>. QED
    BY <1>0, <1>p, <2>1, SameTableCgroups DEF CgroupNow, LaunchCgroup
<1>5. CASE add_to_cgroup
  <2>1. /\ pc = "attach" /\ pc' = "commit" /\ UNCHANGED <<containers, dirs, job>>
        /\ job.idx \in DOMAIN containers /\ job.pid \in Pids
        /\ containers[job.idx].id = job.arg /\ containers[job.idx].state # "RUNNING"
    BY <1>5 DEF add_to_cgroup, JobOK, TargetNamed, TrackingInv, LaunchTarget
  <2>2. /\ \A p \in Pids \ {job.pid} : cgOf'[p] = cgOf[p]
        /\ cgOf'[job.pid] \in {NoCgroup, job.arg}
    BY <1>5, <2>1 DEF add_to_cgroup, KernelTypeOK, CgroupNow, LaunchCgroup
  <2>3. CgroupOwned'
    <3>. SUFFICES ASSUME NEW p \in Pids, cgOf'[p] # NoCgroup, p # job'.pid
                  PROVE  \E i \in DOMAIN containers' :
                            Running(i)' /\ containers'[i].pid = p /\ containers'[i].id = cgOf'[p]
      BY DEF CgroupOwned
    <3>1. cgOf'[p] = cgOf[p] /\ p # job.pid
      BY <2>1, <2>2
    <3>2. PICK i \in DOMAIN containers :
             Running(i) /\ containers[i].pid = p /\ containers[i].id = cgOf[p]
      BY <3>1 DEF CgroupNow, CgroupOwned
    <3>. QED
      BY <2>1, <3>1, <3>2 DEF Running
  <2>4. \A i \in DOMAIN containers : Running(i) => containers[i].id \notin {NoCgroup, job.arg}
    BY <2>1, EntryIds DEF UniqueIds, Running
  <2>5. CgroupExclusive'
    BY <2>1, <2>2, <2>4 DEF CgroupNow, CgroupExclusive, Running
  <2>. QED
    BY <1>p, <2>1, <2>2, <2>3, <2>5 DEF CgroupNow, LaunchCgroup, DirsKnown, TableIds
<1>6. CASE record_running
  <2>1. /\ pc = "commit" /\ UNCHANGED <<cgOf, dirs>>
        /\ job.idx \in DOMAIN containers /\ job.pid \in Pids
        /\ containers[job.idx].id = job.arg /\ containers[job.idx].state # "RUNNING"
        /\ pc' \notin {"root", "add", "clone", "attach", "commit", "exec"}
    BY <1>6 DEF record_running, JobOK, TargetNamed, TrackingInv, LaunchTarget, kernelVars,
       Returned
  <2>2. /\ DOMAIN containers' = DOMAIN containers
        /\ containers'[job.idx].pid = job.pid /\ containers'[job.idx].state = "RUNNING"
        /\ containers'[job.idx].id = job.arg
        /\ \A k \in DOMAIN containers \ {job.idx} : containers'[k] = containers[k]
    <3>1. containers' = MarkRunning(containers, job.idx, job.pid) /\ containers \in Seq(Info)
      BY <1>6 DEF record_running, TypeInv, TypeOK
    <3>. QED
      BY <2>1, <3>1, MarkRunningTable
  <2>3. \A i \in DOMAIN containers : Running(i) =>
          i # job.idx /\ Running(i)' /\ containers'[i] = containers[i]
    BY <2>1, <2>2 DEF Running
  <2>4. CgroupOwned'
    <3>. SUFFICES ASSUME NEW p \in Pids, cgOf'[p] # NoCgroup
                  PROVE  \E i \in DOMAIN containers' : /\ Running(i)' /\ containers'[i].pid = p
                                                       /\ containers'[i].id = cgOf'[p]
      BY DEF CgroupOwned
    <3>1. CASE p = job.pid
      BY <2>1, <2>2, <3>1 DEF CgroupNow, LaunchCgroup, Running
    <3>2. CASE p # job.pid
      <4>1. PICK i \in DOMAIN containers :
              Running(i) /\ containers[i].pid = p /\ containers[i].id = cgOf[p]
        BY <2>1, <3>2 DEF CgroupNow, CgroupOwned
      <4>. QED
        BY <2>1, <2>2, <2>3, <4>1
    <3>. QED
      BY <3>1, <3>2
  <2>5. CgroupExclusive'
    <3>. SUFFICES ASSUME NEW p \in Pids, NEW i \in DOMAIN containers', Running(i)',
                         cgOf'[p] = containers'[i].id
                  PROVE  containers'[i].pid = p
      BY DEF CgroupExclusive
    <3>1. CASE i # job.idx
      BY <2>1, <2>2, <3>1 DEF CgroupNow, CgroupExclusive, Running
    <3>2. CASE i = job.idx
      <4>1. \A k \in DOMAIN containers : Running(k) => containers[k].id # job.arg
        BY <2>1 DEF UniqueIds, Running
      <4>2. cgOf[p] = job.arg /\ cgOf[p] # NoCgroup
        BY <2>1, <2>2, <3>2, EntryIds
      <4>3. p = job.pid
        BY <4>1, <4>2 DEF CgroupNow, CgroupOwned
      <4>. QED
        BY <2>2, <3>2, <4>3
    <3>. QED
      BY <3>1, <3>2
  <2>6. DirsKnown'
    <3>1. \A i \in DOMAIN containers : containers'[i].id = containers[i].id
      BY <2>1, <2>2
    <3>. QED
      BY <1>p, <2>1, <2>2, <3>1 DEF CgroupNow, DirsKnown, TableIds
  <2>. QED
    BY <2>1, <2>4, <2>5, <2>6 DEF CgroupNow, LaunchCgroup
<1>7. CASE foreground_wait
  <2>1. Kill({}, {job.pid}) /\ UNCHANGED <<containers, dirs, job>> /\ pc = "wait" /\ pc' = "wait"
    BY <1>7 DEF foreground_wait, cmVars
  <2>. QED
    BY <1>p, <2>1, KillCgroups, SameTableCgroups DEF CgroupNow, LaunchCgroup
<1>8. ASSUME NEW arg \in Args, NEW p \in Pids, container_manager_exec(arg, p)
      PROVE  CgroupNow'
  <2>1. job.pid = NoPid /\ job'.pid = p /\ pc' = "exec" /\ UNCHANGED <<containers, dirs>>
        /\ Spawn(p)
    BY <1>8 DEF container_manager_exec, TrackingInv, NoPidHeld, Job
  <2>. QED
    BY <1>2, <2>1 DEF CgroupNow, LaunchCgroup
<1>9. CASE exec_return
  <2>1. Kill({}, {job.pid}) /\ UNCHANGED <<containers, dirs>> /\ pc = "exec"
        /\ pc' \notin {"root", "add", "clone", "attach", "commit", "exec"} /\ job.pid \in Pids
    BY <1>9 DEF exec_return, Returned, JobOK
  <2>2. cgOf'[job.pid] = NoCgroup
    BY <2>1, KillCgroups DEF CgroupNow, LaunchCgroup
  <2>. QED
    BY <1>p, <2>1, <2>2, KillCgroups, SameTableCgroups DEF CgroupNow, LaunchCgroup
<1>. QED
  BY <1>1, <1>3, <1>4, <1>5, <1>6, <1>7, <1>8, <1>9, <1>10 DEF Launch, Exec

\* So do stop, destroy and a shutdown.
LEMMA CgroupHalt ==
    ASSUME TypeInv, TypeInv', TrackingInv, PinInv, TargetNamed, UniqueIds, SignalJob,
           CgroupNow, sessions <= 1, Halt
    PROVE  CgroupNow'
<1>. USE DEF TypeInv, TypeOK
<1>0. NoPid \notin Pids
  BY PidsAssumption DEF NoPid
<1>1. ASSUME NEW op, NEW i, NEW arg, BeginStop(op, i, arg),
             Pending = {} \/ (op = job.op /\ arg = job.arg /\ pc = "stopping")
      PROVE  CgroupNow'
  <2>1. job'.pid = job.pid /\ UNCHANGED <<containers, dirs>> /\ pc' = "reap"
        /\ Kill(StopVictims(i), {})
    BY <1>1 DEF BeginStop, Job
  <2>2. Pending \subseteq Pending'
    BY <1>1 DEF BeginStop, Job, Pending
  <2>. QED
    BY <2>1, <2>2, KillCgroups, SameTableCgroups DEF CgroupNow, LaunchCgroup
<1>2. CASE \E arg \in Args : container_manager_stop(arg) \/ container_manager_destroy(arg)
  <2>1. pc = "idle" /\ job.pid = NoPid /\ Pending = {}
    BY <1>2, NonePending
       DEF container_manager_stop, container_manager_destroy, TrackingInv, NoPidHeld
  <2>2. CASE pc' = "remove" /\ UNCHANGED <<kernelVars, containers>>
    BY <1>0, <2>1, <2>2, SameTableCgroups DEF kernelVars, CgroupNow, LaunchCgroup
  <2>. QED
    BY <1>1, <1>2, <2>1, <2>2 DEF container_manager_stop, container_manager_destroy
<1>3. CASE reap_and_record
  <2>. DEFINE q == containers[job.idx].pid
  <2>1. /\ DOMAIN containers' = DOMAIN containers
        /\ \A i \in DOMAIN containers :
             /\ containers'[i].pid = containers[i].pid
             /\ containers'[i].id = containers[i].id
             /\ containers'[i].state = IF i = job.idx THEN "STOPPED" ELSE containers[i].state
    BY <1>3, MarkStoppedTable DEF reap_and_record
  <2>2. UNCHANGED dirs /\ pc' \notin {"root", "add", "clone", "attach", "commit", "exec"}
    BY <1>3 DEF reap_and_record, AfterReap, Returned
  <2>3. \E W : Kill({q}, W)
    BY <1>3 DEF reap_and_record
  <2>4. \A p \in Pids : cgOf'[p] \in {cgOf[p], NoCgroup} /\ (p = q => cgOf'[p] = NoCgroup)
    BY <2>3 DEF Kill, KernelTypeOK
  <2>5. job'.pid = job.pid \/ job.pid = NoPid
    BY <1>3, NextIdx DEF reap_and_record, TrackingInv, NoPidHeld
  <2>6. CgroupOwned'
    <3>. SUFFICES ASSUME NEW p \in Pids, cgOf'[p] # NoCgroup, p # job'.pid
                  PROVE  \E i \in DOMAIN containers' : /\ Running(i)' /\ containers'[i].pid = p
                                                       /\ containers'[i].id = cgOf'[p]
      BY DEF CgroupOwned
    <3>1. p # q /\ cgOf'[p] = cgOf[p] /\ p # job.pid
      BY <1>0, <2>4, <2>5
    <3>2. PICK i \in DOMAIN containers :
            Running(i) /\ containers[i].pid = p /\ containers[i].id = cgOf[p]
      BY <3>1 DEF CgroupNow, CgroupOwned
    <3>3. i # job.idx
      BY <3>1, <3>2
    <3>. QED
      BY <2>1, <3>1, <3>2, <3>3 DEF Running
  <2>7. \A i \in DOMAIN containers' : Running(i)' => Running(i)
    BY <2>1 DEF Running
  <2>8. CgroupExclusive'
    BY <2>1, <2>4, <2>7, EntryIds, SMTT(20) DEF CgroupNow, CgroupExclusive
  <2>9. DirsKnown'
    <3>1. TableIds \subseteq TableIds'
      BY <2>1 DEF TableIds
    <3>2. CASE job.op = "signal"
      <4>1. job'.op = "signal" /\ job'.arg = job.arg
        BY <1>3, <3>2 DEF reap_and_record, Jobs
      <4>. QED
        BY <2>2, <3>1, <4>1, SamePending DEF CgroupNow, DirsKnown
    <3>3. CASE job.op # "signal"
      <4>1. Pending = {}
        BY <1>3, <3>3 DEF reap_and_record, Pending
      <4>. QED
        BY <2>2, <3>1, <4>1 DEF CgroupNow, DirsKnown
    <3>. QED
      BY <3>2, <3>3
  <2>. QED
    BY <2>2, <2>6, <2>8, <2>9 DEF CgroupNow, LaunchCgroup
<1>4. CASE finish_destroy
  <2>1. /\ UNCHANGED cgOf /\ job.pid = NoPid
        /\ dirs' = Rmdir(dirs, containers[job.idx].id)
        /\ containers' = remove_container(containers, job.arg)
        /\ pc' \notin {"root", "add", "clone", "attach", "commit", "exec"}
        /\ job.idx \in DOMAIN containers /\ containers[job.idx].id = job.arg
        /\ \A i \in find_container(containers, job.arg) : containers[i].state # "RUNNING"
    BY <1>4 DEF finish_destroy, TrackingInv, NoPidHeld, DestroyTarget, AfterFailure, Returned,
       JobOK, TargetNamed
  <2>2. \A i \in DOMAIN containers : containers[i].id = job.arg => i = job.idx
    BY <2>1 DEF UniqueIds
  <2>3. job.idx \in find_container(containers, job.arg)
    <3>1. find_container(containers, containers[job.idx].id) # {}
      BY <2>1, FindComplete
    <3>2. PICK n \in find_container(containers, job.arg) : TRUE
      BY <2>1, <3>1
    <3>3. n \in DOMAIN containers /\ containers[n].id = job.arg
      BY <3>2 DEF find_container
    <3>. QED
      BY <2>2, <3>2, <3>3
  <2>4. find_container(containers, job.arg) = {job.idx}
    BY <2>2, <2>3 DEF find_container
  <2>5. \A i \in DOMAIN containers : Running(i) => i # job.idx /\ containers[i].id # job.arg
    BY <2>1, <2>2, <2>3 DEF Running
  <2>6. Members(job.arg) = {}
    BY <1>0, <2>1, <2>5, CgroupEmpty, EntryIds DEF CgroupNow
  <2>7. dirs' = dirs \ {job.arg}
    BY <2>1, <2>6 DEF Rmdir
  <2>8. /\ \A k \in DOMAIN containers' : \E i \in DOMAIN containers : containers'[k] = containers[i]
        /\ \A i \in DOMAIN containers \ {job.idx} :
              \E k \in DOMAIN containers' : containers'[k] = containers[i]
    <3>1. \A i \in DOMAIN containers \ find_container(containers, job.arg) :
            \E k \in DOMAIN containers' : containers'[k] = containers[i]
      BY <2>1, RemoveTable
    <3>2. \A k \in DOMAIN containers' : \E i \in DOMAIN containers : containers'[k] = containers[i]
      BY <2>1, RemoveTable
    <3>. QED
      BY <2>4, <3>1, <3>2
  <2>9. CgroupOwned'
    <3>. SUFFICES ASSUME NEW p \in Pids, cgOf'[p] # NoCgroup
                  PROVE  \E i \in DOMAIN containers' : /\ Running(i)' /\ containers'[i].pid = p
                                                       /\ containers'[i].id = cgOf'[p]
      BY DEF CgroupOwned
    <3>1. PICK i \in DOMAIN containers :
            Running(i) /\ containers[i].pid = p /\ containers[i].id = cgOf[p]
      BY <1>0, <2>1 DEF CgroupNow, CgroupOwned
    <3>2. PICK k \in DOMAIN containers' : containers'[k] = containers[i]
      BY <2>5, <2>8, <3>1
    <3>. QED
      BY <2>1, <3>1, <3>2 DEF Running
  <2>10. CgroupExclusive'
    <3>. SUFFICES ASSUME NEW p \in Pids, NEW k \in DOMAIN containers', Running(k)',
                         cgOf'[p] = containers'[k].id
                  PROVE  containers'[k].pid = p
      BY DEF CgroupExclusive
    <3>1. PICK i \in DOMAIN containers : containers'[k] = containers[i]
      BY <2>8
    <3>. QED
      BY <2>1, <3>1 DEF CgroupNow, CgroupExclusive, Running
  <2>11. DirsKnown'
    <3>. SUFFICES ASSUME NEW d \in dirs, d # job.arg, "cgroup" \notin Faults
                  PROVE  \E k \in DOMAIN containers' : containers'[k].id = d
      BY <2>7 DEF DirsKnown, TableIds
    <3>0. Pending = {}
      BY <1>4, NonePending DEF finish_destroy
    <3>1. PICK i \in DOMAIN containers : containers[i].id = d
      BY <3>0 DEF CgroupNow, DirsKnown, TableIds
    <3>. QED
      BY <2>1, <2>8, <3>1
  <2>. QED
    BY <2>1, <2>9, <2>10, <2>11 DEF CgroupNow, LaunchCgroup
<1>5. CASE menu_exit
  <2>1. job'.pid = job.pid /\ UNCHANGED <<containers, cgOf, dirs>> /\ pc' = "stopping"
        /\ pc = "idle"
    BY <1>5 DEF menu_exit, BeginStopAll, Job, kernelVars
  <2>. QED
    BY <2>1, NonePending, SameTableCgroups DEF CgroupNow, LaunchCgroup
<1>6. CASE stop_next
  <2>1. CASE BeginStop(job.op, job.idx, job.arg)
    BY <1>1, <1>6, <2>1 DEF stop_next
  <2>2. CASE ~BeginStop(job.op, job.idx, job.arg)
    <3>1. job' = [job EXCEPT !.idx = @ + 1] /\ UNCHANGED <<containers, cgOf, dirs, pc>>
          /\ pc = "stopping"
      BY <1>6, <2>2 DEF stop_next, kernelVars
    <3>2. job'.pid = job.pid /\ job'.op = job.op /\ job'.arg = job.arg
      BY <3>1 DEF Jobs
    <3>3. Pending \subseteq Pending'
      BY <3>1, <3>2 DEF Pending
    <3>. QED
      BY <3>1, <3>2, <3>3, SameTableCgroups DEF CgroupNow, LaunchCgroup
  <2>. QED
    BY <2>1, <2>2
<1>7. CASE stop_all_done
  <2>1. job'.pid = job.pid /\ pc' = "closing" /\ UNCHANGED dirs /\ job'.arg = job.arg
    BY <1>7 DEF stop_all_done, Job
  <2>2. \A p \in Pids : cgOf'[p] \in {cgOf[p], NoCgroup}
    BY <1>7, KillCgroups DEF stop_all_done
  <2>3. /\ DOMAIN containers' = DOMAIN containers
        /\ \A i \in DOMAIN containers :
             /\ containers'[i].pid = containers[i].pid
             /\ containers'[i].id = containers[i].id
             /\ containers'[i].state = "RUNNING" <=> containers[i].state = "RUNNING"
    BY <1>7, StopAllTable
  <2>4. \A i \in DOMAIN containers : Running(i)' <=> Running(i)
    BY <2>3 DEF Running
  <2>. QED
    BY <2>1, <2>2, <2>3, <2>4, SamePending, CgroupsKept DEF CgroupNow, LaunchCgroup
<1>. QED
  BY <1>1, <1>2, <1>3, <1>4, <1>5, <1>6, <1>7 DEF Halt

\* Create makes a cgroup, and an entry for it or nothing.
LEMMA CgroupCreate ==
    ASSUME TypeInv, TypeInv', TrackingInv, SignalJob, CgroupNow, Create
    PROVE  CgroupNow'
<1>. USE DEF TypeInv, TypeOK
<1>0. NoPid \notin Pids
  BY PidsAssumption DEF NoPid
<1>1. job.pid = NoPid /\ UNCHANGED cgOf /\ pc \in {"idle", "root", "add"}
      /\ pc' \notin {"attach", "commit", "exec"}
  BY DEF Create, container_manager_create, create_cgroup_fails, Creatable,
     fs_create_minimal_root, create_fails, CreateFails, create_entry,
     container_manager_run, AfterFailure, kernelVars, TrackingInv, NoPidHeld
<1>2. ASSUME UNCHANGED containers
      PROVE  CgroupOwned' /\ CgroupExclusive'
  BY <1>0, <1>1, <1>2 DEF CgroupNow, CgroupOwned, CgroupExclusive, Running
<1>3. ASSUME NEW op, NEW id, container_manager_create(op, id)
      PROVE  CgroupNow'
  <2>1. UNCHANGED containers /\ dirs' = dirs \cup {id} /\ pc' = "root" /\ job'.arg = id
        /\ pc = "idle"
    BY <1>3 DEF container_manager_create, Creatable, Job
  <2>2. DirsKnown'
    BY <2>1, NonePending DEF CgroupNow, DirsKnown, Pending, TableIds
  <2>. QED
    BY <1>2, <2>1, <2>2 DEF CgroupNow, LaunchCgroup
<1>4. ASSUME NEW op, NEW id, create_cgroup_fails(op, id)
      PROVE  CgroupNow'
  BY <1>2, <1>4 DEF create_cgroup_fails, AfterFailure, CgroupNow, LaunchCgroup, DirsKnown
<1>5. ASSUME NEW minimal_fs, fs_create_minimal_root(minimal_fs)
      PROVE  CgroupNow'
  <2>1. UNCHANGED <<containers, dirs, job>> /\ pc = "root" /\ pc' = "add"
    BY <1>5 DEF fs_create_minimal_root, kernelVars
  <2>2. DirsKnown'
    BY <2>1 DEF CgroupNow, DirsKnown, Pending, TableIds
  <2>. QED
    BY <1>2, <2>1, <2>2 DEF CgroupNow, LaunchCgroup
<1>6. ASSUME NEW minimal_fs, create_fails(minimal_fs)
      PROVE  CgroupNow'
  <2>1. UNCHANGED containers /\ dirs' = Rmdir(dirs, job.arg) /\ pc \in {"root", "add"}
        /\ pc' \notin {"root", "add", "clone", "attach", "commit", "exec"}
        /\ job.arg \in Ids /\ find_container(containers, job.arg) = {}
    BY <1>6 DEF create_fails, CreateFails, AfterFailure, JobOK
  <2>2. \A i \in DOMAIN containers : containers[i].id # job.arg
    BY <2>1, FindComplete
  <2>3. Members(job.arg) = {}
    BY <1>0, <1>1, <2>1, <2>2, CgroupEmpty DEF CgroupNow
  <2>4. dirs' = dirs \ {job.arg}
    BY <2>1, <2>3 DEF Rmdir
  <2>5. Pending \subseteq {job.arg}
    BY DEF Pending
  <2>6. DirsKnown'
    BY <2>1, <2>4, <2>5 DEF CgroupNow, DirsKnown, TableIds
  <2>. QED
    BY <1>2, <2>1, <2>6 DEF CgroupNow, LaunchCgroup
<1>7. ASSUME NEW config, create_entry(config)
      PROVE  CgroupNow'
  <2>. DEFINE n == Len(containers)
  <2>1. containers' = Append(containers, NewInfo(job.arg, config)) /\ UNCHANGED dirs
        /\ pc = "add" /\ pc' \in {"idle", "clone", "remove"}
        /\ (pc' = "clone" => job'.arg = job.arg)
    BY <1>7 DEF create_entry, add_container, container_manager_run, kernelVars, Job
  <2>2. /\ DOMAIN containers' = 1..(n + 1) /\ DOMAIN containers = 1..n /\ n \in Nat
        /\ \A i \in DOMAIN containers : containers'[i] = containers[i]
        /\ containers'[n + 1] = NewInfo(job.arg, config)
    BY <2>1
  <2>3. /\ \A i \in DOMAIN containers : i \in DOMAIN containers' /\ (Running(i) => Running(i)')
        /\ \A i \in DOMAIN containers' : Running(i)' => i \in DOMAIN containers /\ Running(i)
    BY <2>2 DEF Running, NewInfo
  <2>4. n + 1 \in DOMAIN containers' /\ containers'[n + 1].id = job.arg
    BY <2>2 DEF NewInfo
  <2>. HIDE DEF n
  <2>5. CgroupOwned'
    <3>. SUFFICES ASSUME NEW p \in Pids, cgOf[p] # NoCgroup
                  PROVE  \E i \in DOMAIN containers' :
                            Running(i)' /\ containers'[i].pid = p /\ containers'[i].id = cgOf[p]
      BY <1>1 DEF CgroupOwned
    <3>1. PICK i \in DOMAIN containers :
             Running(i) /\ containers[i].pid = p /\ containers[i].id = cgOf[p]
      BY <1>0, <1>1 DEF CgroupNow, CgroupOwned
    <3>2. i \in DOMAIN containers' /\ Running(i)' /\ containers'[i] = containers[i]
      BY <2>2, <2>3, <3>1
    <3>. QED
      BY <3>1, <3>2
  <2>6. CgroupExclusive'
    <3>. SUFFICES ASSUME NEW p \in Pids, NEW i \in DOMAIN containers', Running(i)',
                         cgOf[p] = containers'[i].id
                  PROVE  containers'[i].pid = p
      BY <1>1 DEF CgroupExclusive
    <3>1. i \in DOMAIN containers /\ Running(i) /\ containers'[i] = containers[i]
      BY <2>2, <2>3
    <3>. QED
      BY <3>1 DEF CgroupNow, CgroupExclusive
  <2>7. DirsKnown'
    <3>1. TableIds \cup {job.arg} \subseteq TableIds'
      BY <2>2, <2>3, <2>4 DEF TableIds
    <3>2. Pending \subseteq {job.arg}
      BY DEF Pending
    <3>. QED
      BY <2>1, <3>1, <3>2 DEF CgroupNow, DirsKnown
  <2>8. LaunchCgroup'
    BY <2>1 DEF CgroupNow, LaunchCgroup
  <2>. QED
    BY <2>5, <2>6, <2>7, <2>8 DEF CgroupNow
<1>. QED
  BY <1>3, <1>4, <1>5, <1>6, <1>7 DEF Create

\* Every step of the first session keeps the cgroups in order.
LEMMA CgroupNowStep ==
    ASSUME TypeInv, TypeInv', TrackingInv, FirstFile, PinInv, CgroupInv, [Next]_vars,
           Args \cap Pids = {}, sessions' <= 1, pc' # "down"
    PROVE  CgroupNow'
<1>. USE DEF TypeInv, TypeOK
<1>0. NoPid \notin Pids
  BY PidsAssumption DEF NoPid
<1>1. CASE container_manager_init \/ (pc = "load" /\ sessions <= 1)
  <2>1. sessions = 0 \/ (sessions = 1 /\ pc = "load")
    BY <1>1 DEF container_manager_init, FirstFile
  <2>2. container_manager_init \/ load_done \/ Environment \/ UNCHANGED vars
    <3>1. CASE container_manager_init
      BY <3>1
    <3>2. CASE pc = "load" /\ sessions <= 1
      BY <3>2, BeforeCalls, NothingToLoad DEF Session, command_done,
         container_manager_cleanup, exit_process, crash, Exit
    <3>. QED
      BY <1>1, <3>1, <3>2
  <2>3. (\A p \in Pids : cgOf'[p] = NoCgroup) /\ dirs' = {}
    <3>1. (\A p \in Pids : cgOf'[p] \in {cgOf[p], NoCgroup}) /\ dirs' = dirs
      BY <2>2 DEF container_manager_init, load_done, Environment, KernelNext, ProcExit,
         HostFork, HostExit, vars, kernelVars, KernelTypeOK
    <3>. QED
      BY <2>1, <3>1 DEF CgroupInv, NoCgroupsYet
  <2>4. pc' \in {"load", "idle", "down"}
    BY <1>1, <2>2 DEF container_manager_init, load_done, Environment, vars, cmVars
  <2>. QED
    BY <2>3, <2>4, EntryIds, EntryIdsPrime DEF CgroupNow, CgroupOwned, CgroupExclusive,
       LaunchCgroup, DirsKnown
<1>. SUFFICES ASSUME ~container_manager_init, ~(pc = "load" /\ sessions <= 1)
              PROVE  CgroupNow'
  BY <1>1
<1>2. sessions <= 1 /\ pc # "down" /\ pc # "load"
  BY SessionSteps DEF cmVars, FirstFile
<1>3. CgroupNow /\ UniqueIds /\ TargetNamed /\ SignalJob
  BY <1>2 DEF CgroupInv
<1>4. CASE command_done \/ container_manager_cleanup
  <2>1. UNCHANGED <<containers, cgOf, dirs, job>> /\ pc \in {"idle", "closing"}
        /\ pc' \in {"closing", "failed", "exit"}
        /\ (pc = "closing" => pc' = "exit")
    BY <1>4 DEF command_done, container_manager_cleanup, kernelVars
  <2>2. Pending \subseteq Pending'
    BY <1>3, <2>1, NonePending, SamePending
  <2>. QED
    BY <1>3, <2>1, <2>2, SameTableCgroups DEF CgroupNow, LaunchCgroup
<1>5. CASE (Session \/ crash) /\ ~command_done /\ ~container_manager_cleanup
  BY <1>2, <1>5 DEF Session, load_record, load_done, exit_process, crash, Exit
<1>6. CASE Create
  BY <1>2, <1>3, <1>6, CgroupCreate
<1>7. CASE save_state \/ Environment \/ UNCHANGED vars
  <2>1. UNCHANGED <<containers, pc, job, dirs>> /\ \A p \in Pids : cgOf'[p] \in {cgOf[p], NoCgroup}
    BY <1>7 DEF save_state, Environment, KernelNext, ProcExit, HostFork, HostExit, vars,
       kernelVars, cmVars, KernelTypeOK
  <2>2. LaunchCgroup'
    BY <1>3, <2>1 DEF CgroupNow, LaunchCgroup, JobOK
  <2>3. Pending \subseteq Pending'
    BY <2>1 DEF Pending
  <2>. QED
    BY <1>3, <2>1, <2>2, <2>3, SameTableCgroups DEF CgroupNow
<1>8. CASE signal_handler
  <2>1. job'.pid = job.pid /\ UNCHANGED <<containers, cgOf, dirs>> /\ pc' = "stopping"
        /\ job'.op = "signal" /\ job'.arg = job.arg
    BY <1>8 DEF signal_handler, BeginStopAll, Job, kernelVars
  <2>. QED
    BY <1>3, <2>1, SamePending, SameTableCgroups DEF CgroupNow, LaunchCgroup
<1>. QED
  BY <1>2, <1>3, <1>4, <1>5, <1>6, <1>7, <1>8, CgroupLaunch, CgroupHalt DEF Next, MainThread

\* The conjuncts of the cgroup invariant hold of the initial states, and every
\* step keeps them.
LEMMA CgroupInit ==
    ASSUME Init
    PROVE  CgroupInv
  BY DEF Init, KernelInit, CgroupInv, TargetNamed, NoCgroupsYet, UniqueIds, SignalJob,
     NoJob, Job

LEMMA CgroupStep ==
    ASSUME TypeInv, TypeInv', TrackingInv, FirstFile, PinInv, CgroupInv, [Next]_vars,
           Args \cap Pids = {}
    PROVE  CgroupInv'
<1>1. TargetNamed' /\ NoCgroupsYet' /\ SignalJob'
  BY TargetNamedStep, NoCgroupsStep, SignalJobStep DEF CgroupInv
<1>2. ASSUME sessions' <= 1
      PROVE  UniqueIds'
  <2>1. sessions <= 1
    BY <1>2, SessionSteps DEF container_manager_init, TypeInv, TypeOK, FirstFile
  <2>. QED
    BY <2>1, NothingToLoad, UniqueOutsideLoad DEF CgroupInv
<1>. QED
  BY <1>1, <1>2, CgroupNowStep DEF CgroupInv

\* Without a restart, and wherever signals come, no cgroup is without its container
\* but the one that create is making, or was making when a signal came.  It holds
\* for every failing step behind the creation of the cgroup; when that fails
\* itself, a directory may be left.  Containers must be named by their ids: start
\* given a pid makes a cgroup with that name.
THEOREM NoCgroupLeft ==
    ASSUME Args \cap Pids = {}, "cgroup" \notin Faults
    PROVE  Spec => []NoStrayCgroup
<1>. DEFINE Inv == TypeInv /\ TrackingInv /\ FirstFile /\ PinInv /\ CgroupInv
<1>1. Init => Inv
  BY TypeInit, TrackingInit, PinInit, CgroupInit
<1>2. Inv /\ [Next]_vars => Inv'
  BY TypeStep, TrackingStep, FirstFileStep, PinStep, CgroupStep
<1>3. Inv => NoStrayCgroup
  BY DEF CgroupInv, CgroupNow, DirsKnown, Pending, NoStrayCgroup
<1>. QED
  BY <1>1, <1>2, <1>3, PTL DEF Spec

\* A process that is alive after a step was alive before it, in the same cgroup, or
\* it is new, and then no call holds a process.
LEMMA AliveSteps ==
    ASSUME TypeInv, TrackingInv, [Next]_vars, ~add_to_cgroup, NEW p \in Pids,
           procs'[p] = "alive"
    PROVE  \/ procs[p] = "alive" /\ cgOf'[p] = cgOf[p]
           \/ procs[p] = "free" /\ job.pid = NoPid
<1>. USE DEF TypeInv, TypeOK, KernelTypeOK
<1>1. ASSUME NEW V, NEW W, Kill(V, W)
      PROVE  procs[p] = "alive" /\ cgOf'[p] = cgOf[p]
  BY <1>1 DEF Kill
<1>2. CASE ManagerDies
  BY <1>2 DEF ManagerDies
<1>3. ASSUME NEW q \in Pids, Spawn(q), pc \in {"idle", "clone"}
      PROVE  \/ procs[p] = "alive" /\ cgOf'[p] = cgOf[p]
             \/ procs[p] = "free" /\ job.pid = NoPid
  BY <1>3 DEF Spawn, TrackingInv, NoPidHeld
<1>4. CASE KernelNext
  BY <1>4 DEF KernelNext, ProcExit, HostFork, HostExit
<1>. QED
  BY <1>1, <1>2, <1>3, <1>4, KernelSteps

\* A RUNNING entry was RUNNING, unless load_state or the end of a launch put it there.
LEMMA RunningSteps ==
    ASSUME TypeInv, [Next]_vars, ~load_record, ~record_running,
           NEW k \in DOMAIN containers', Running(k)'
    PROVE  \E i \in DOMAIN containers :
              /\ Running(i) /\ containers[i].id = containers'[k].id
              /\ containers[i].pid = containers'[k].pid
<1>. USE DEF TypeInv, TypeOK, Running
<1>1. CASE UNCHANGED containers
  BY <1>1
<1>2. CASE containers' = <<>>
  BY <1>2
<1>3. CASE Session \/ crash \/ save_state
  BY <1>1, <1>2, <1>3 DEF Session, container_manager_init, load_done, command_done,
     container_manager_cleanup, exit_process, crash, Exit, save_state
<1>4. CASE Create
  <2>1. ASSUME NEW config, containers' = Append(containers, NewInfo(job.arg, config))
        PROVE  k \in DOMAIN containers /\ containers'[k] = containers[k]
    <3>1. \/ k \in DOMAIN containers /\ containers'[k] = containers[k]
          \/ containers'[k] = NewInfo(job.arg, config)
      BY <2>1
    <3>. QED
      BY <3>1 DEF NewInfo
  <2>. QED
    BY <1>1, <1>4, <2>1, CreateTable DEF NewEntry
<1>5. CASE Launch \/ Exec
  BY <1>1, <1>5 DEF Launch, Exec, container_manager_start, start_cgroup_fails,
     clone_process, clone_fails, add_to_cgroup, foreground_wait, cmVars,
     container_manager_exec, exec_return
<1>6. ASSUME NEW I, containers' = MarkStopped(containers, I)
      PROVE  /\ k \in DOMAIN containers /\ Running(k)
             /\ containers[k].id = containers'[k].id /\ containers[k].pid = containers'[k].pid
  <2>1. /\ DOMAIN containers' = DOMAIN containers
        /\ \A i \in DOMAIN containers :
             /\ containers'[i].id = containers[i].id /\ containers'[i].pid = containers[i].pid
             /\ containers'[i].state = IF i \in I THEN "STOPPED" ELSE containers[i].state
    BY <1>6, MarkStoppedTable
  <2>. QED
    BY <2>1
<1>7. CASE reap_and_record \/ stop_all_done
  BY <1>1, <1>6, <1>7 DEF reap_and_record, stop_all_done
<1>8. CASE finish_destroy
  <2>1. containers' = remove_container(containers, job.arg)
    BY <1>8 DEF finish_destroy
  <2>2. \E i \in DOMAIN containers : containers'[k] = containers[i]
    BY <2>1, RemoveTable
  <2>. QED
    BY <2>2
<1>9. CASE \E arg \in Args : container_manager_stop(arg) \/ container_manager_destroy(arg)
  BY <1>1, <1>9 DEF container_manager_stop, container_manager_destroy, BeginStop
<1>10. CASE menu_exit \/ signal_handler \/ stop_next \/ Environment \/ UNCHANGED vars
  BY <1>1, <1>10 DEF menu_exit, signal_handler, BeginStopAll, stop_next, BeginStop,
     Environment, cmVars, vars
<1>. QED
  BY <1>3, <1>4, <1>5, <1>7, <1>8, <1>9, <1>10 DEF Next, MainThread, Halt

\* A launch gets to its last step by way of the cgroup callback only.
LEMMA CommitSteps ==
    ASSUME [Next]_vars, pc' = "commit", ~add_to_cgroup
    PROVE  pc = "commit" /\ UNCHANGED job
<1>1. ~Session /\ ~crash /\ ~signal_handler
  BY DEF Session, container_manager_init, load_record, load_done, command_done,
     container_manager_cleanup, exit_process, crash, Exit, signal_handler, BeginStopAll
<1>2. ~Create
  BY DEF Create, container_manager_create, create_cgroup_fails, fs_create_minimal_root,
     create_fails, create_entry, container_manager_run, AfterFailure
<1>3. ~Launch /\ ~Exec
  BY DEF Launch, Exec, container_manager_start, start_cgroup_fails, clone_process,
     clone_fails, record_running, foreground_wait, cmVars, container_manager_exec,
     exec_return, Returned
<1>4. ~Halt
  BY DEF Halt, container_manager_stop, container_manager_destroy, BeginStop, reap_and_record,
     AfterReap, finish_destroy, AfterFailure, Returned, menu_exit,
     BeginStopAll, stop_next, stop_all_done
<1>. QED
  BY <1>1, <1>2, <1>3, <1>4 DEF Next, MainThread, save_state, Environment, vars, cmVars

\* Every step keeps the processes of RUNNING containers in their cgroups.
LEMMA ConfinedStep ==
    ASSUME TypeInv, TypeInv', TrackingInv, FirstFile, PinInv, PinInv', CgroupInv,
           ConfinedInv, [Next]_vars, "attach" \notin Faults
    PROVE  ConfinedInv'
<1>. USE DEF TypeInv, TypeOK
<1>. SUFFICES ASSUME sessions' <= 1
              PROVE  Confined' /\ Attached'
  BY DEF ConfinedInv
<1>1. sessions <= 1 /\ ~load_record
  BY SessionSteps, NothingToLoad DEF container_manager_init, FirstFile
<1>2. Confined /\ Attached /\ OwnPid /\ HeldPid /\ NotCollected /\ ChildrenExist /\ OwnPid'
  BY <1>1 DEF ConfinedInv, PinInv
<1>3. CASE add_to_cgroup
  <2>1. /\ pc = "attach" /\ UNCHANGED <<procs, containers, job>> /\ job.pid \in Pids
        /\ \A p \in Pids \ {job.pid} : cgOf'[p] = cgOf[p]
    BY <1>3 DEF add_to_cgroup, JobOK, KernelTypeOK
  <2>2. job.arg \in dirs
    BY <1>1, <2>1 DEF CgroupInv, CgroupNow, LaunchCgroup
  <2>3. procs[job.pid] = "alive" => cgOf'[job.pid] = job.arg
    BY <1>3, <2>1, <2>2 DEF add_to_cgroup, KernelTypeOK
  <2>4. Confined'
    BY <1>1, <1>2, <2>1 DEF Confined, HeldPid, OwnPid, Running
  <2>. QED
    BY <2>1, <2>3, <2>4 DEF Attached
<1>4. CASE ~add_to_cgroup
  <2>1. ASSUME NEW i \in DOMAIN containers, Running(i),
               procs'[containers[i].pid] = "alive"
        PROVE  cgOf'[containers[i].pid] = containers[i].id
    <3>. DEFINE p == containers[i].pid
    <3>1. p \in Pids /\ p \in children \cup {job.pid}
      BY <1>2, <2>1 DEF OwnPid, NotCollected
    <3>2. ~(procs[p] = "free" /\ job.pid = NoPid)
      BY <1>2, <3>1, PidsAssumption DEF ChildrenExist, NoPid
    <3>3. procs[p] = "alive" /\ cgOf'[p] = cgOf[p]
      BY <1>4, <2>1, <3>1, <3>2, AliveSteps
    <3>. QED
      BY <1>1, <1>2, <2>1, <3>3 DEF Confined
  <2>2. CASE ~record_running
    <3>1. \A k \in DOMAIN containers' : Running(k)' =>
             \E i \in DOMAIN containers :
                /\ Running(i) /\ containers[i].id = containers'[k].id
                /\ containers[i].pid = containers'[k].pid
      BY <1>1, <2>2, RunningSteps
    <3>2. Confined'
      BY <2>1, <3>1 DEF Confined
    <3>3. ASSUME pc' = "commit", procs'[job'.pid] = "alive"
          PROVE  cgOf'[job'.pid] = job'.arg
      <4>1. pc = "commit" /\ job' = job /\ job.pid \in Pids
        BY <1>4, <3>3, CommitSteps DEF JobOK
      <4>2. procs[job.pid] = "alive" /\ cgOf'[job.pid] = cgOf[job.pid]
        BY <1>4, <3>3, <4>1, AliveSteps, PidsAssumption DEF NoPid
      <4>. QED
        BY <1>2, <4>1, <4>2 DEF Attached
    <3>. QED
      BY <3>2, <3>3 DEF Attached
  <2>3. CASE record_running
    <3>1. /\ pc = "commit" /\ UNCHANGED <<procs, cgOf>> /\ pc' # "commit"
          /\ job.idx \in DOMAIN containers /\ containers[job.idx].id = job.arg
          /\ job.pid \in Pids
      BY <2>3 DEF record_running, kernelVars, JobOK, CgroupInv, TargetNamed, Returned
    <3>2. /\ DOMAIN containers' = DOMAIN containers
          /\ containers'[job.idx].pid = job.pid /\ containers'[job.idx].id = job.arg
          /\ \A k \in DOMAIN containers \ {job.idx} : containers'[k] = containers[k]
      BY <2>3, <3>1, MarkRunningTable DEF record_running
    <3>3. procs'[job.pid] = "alive" => cgOf'[job.pid] = job.arg
      BY <1>2, <3>1 DEF Attached
    <3>4. Confined'
      BY <2>1, <3>2, <3>3 DEF Confined, Running
    <3>. QED
      BY <3>1, <3>4 DEF Attached
  <2>. QED
    BY <2>2, <2>3
<1>. QED
  BY <1>3, <1>4

\* Without a restart, the live process of a RUNNING container is in the cgroup with
\* the container's id, provided that containers are named by their ids and that the
\* write to cgroup.procs, whose result the callback ignores, does not fail.
THEOREM ProcessesConfined ==
    ASSUME Args \cap Pids = {}, "attach" \notin Faults
    PROVE  Spec => []Confined
<1>. DEFINE Inv == TypeInv /\ TrackingInv /\ FirstFile /\ PinInv /\ CgroupInv /\ ConfinedInv
<1>1. Init => Inv
  BY TypeInit, TrackingInit, PinInit, CgroupInit
     DEF Init, ConfinedInv, Confined, Attached
<1>2. Inv /\ [Next]_vars => Inv'
  BY TypeStep, TrackingStep, FirstFileStep, PinStep, CgroupStep, ConfinedStep
<1>3. Inv => Confined
  BY DEF ConfinedInv, Confined
<1>. QED
  BY <1>1, <1>2, <1>3, PTL DEF Spec

\* The only processes in the cgroup of a RUNNING entry, and under its recorded pid,
\* are its own.
LEMMA OwnVictims ==
    ASSUME CgroupExclusive, NEW i \in DOMAIN containers, Running(i)
    PROVE  StopVictims(i) \subseteq {containers[i].pid}
  BY DEF CgroupExclusive, StopVictims, Members

\* A kill leaves every other process alone.
LEMMA KillSelective ==
    ASSUME TypeInv, NEW V, NEW W, Kill(V, W), NEW p \in Pids \ (V \cup W),
           procs[p] = "alive"
    PROVE  procs'[p] = "alive"
  BY DEF TypeInv, TypeOK, KernelTypeOK, Kill

\* A stop begins with the kills of BeginStop, for an entry of the table.
LEMMA StopSteps ==
    ASSUME TypeInv, [Next]_vars, pc # "reap", pc' = "reap"
    PROVE  \E op, arg : \E i \in DOMAIN containers : BeginStop(op, i, arg)
<1>. USE DEF TypeInv, TypeOK
<1>1. ~Session /\ ~crash /\ ~save_state
  BY DEF Session, container_manager_init, load_record, load_done, command_done,
     container_manager_cleanup, exit_process, crash, Exit, save_state
<1>2. ~Create
  BY DEF Create, container_manager_create, create_cgroup_fails, fs_create_minimal_root,
     create_fails, create_entry, container_manager_run, AfterFailure
<1>3. ~Launch /\ ~Exec
  BY DEF Launch, Exec, container_manager_start, start_cgroup_fails, clone_process,
     clone_fails, add_to_cgroup, record_running, foreground_wait, cmVars,
     container_manager_exec, exec_return, Returned
<1>4. ~Environment /\ ~UNCHANGED vars
  BY DEF Environment, vars, cmVars
<1>5. ASSUME NEW arg \in Args, container_manager_stop(arg) \/ container_manager_destroy(arg)
      PROVE  \E op : \E i \in DOMAIN containers : BeginStop(op, i, arg)
  BY <1>5, FindInTable DEF container_manager_stop, container_manager_destroy
<1>6. CASE stop_next
  <2>1. job.idx \in DOMAIN containers
    BY <1>6 DEF stop_next, JobOK, Jobs
  <2>. QED
    BY <1>6, <2>1 DEF stop_next
<1>7. ~reap_and_record /\ ~finish_destroy /\ ~menu_exit /\ ~signal_handler /\ ~stop_all_done
  BY DEF reap_and_record, finish_destroy, AfterFailure, Returned, menu_exit, signal_handler,
     BeginStopAll, stop_all_done
<1>. QED
  BY <1>1, <1>2, <1>3, <1>4, <1>5, <1>6, <1>7 DEF Next, MainThread, Halt

\* Without a restart, a stop, a destroy and a shutdown kill no process but that of
\* the container they were asked to stop, whichever steps fail, provided that
\* containers are named by their ids.
THEOREM StopIsSelective ==
    ASSUME Args \cap Pids = {}, MaxSessions <= 1
    PROVE  Spec => StopsOnlyItsOwn
<1>. DEFINE Inv == TypeInv /\ TrackingInv /\ FirstFile /\ PinInv /\ CgroupInv
            Selective ==
                LET i == IF pc = "reap" THEN job.idx ELSE job'.idx
                IN \A p \in Pids \ {containers[i].pid} :
                      procs[p] = "alive" => procs'[p] = "alive"
<1>1. Init => Inv
  BY TypeInit, TrackingInit, PinInit, CgroupInit
<1>2. Inv /\ [Next]_vars => Inv'
  BY TypeStep, TrackingStep, FirstFileStep, PinStep, CgroupStep
<1>3. ASSUME Inv, [Next]_vars, pc # "reap", pc' = "reap"
      PROVE  Selective
  <2>. PICK op, arg : \E i \in DOMAIN containers : BeginStop(op, i, arg)
    BY <1>3, StopSteps
  <2>. PICK i \in DOMAIN containers : BeginStop(op, i, arg)
    OBVIOUS
  <2>1. Running(i) /\ Kill(StopVictims(i), {}) /\ job'.idx = i
    BY DEF BeginStop, Running, Job
  <2>2. CgroupExclusive
    <3>1. sessions <= 1
      BY <1>3, ConstantsAssumption DEF FirstFile, TypeInv, TypeOK
    <3>2. pc # "down"
      BY <1>3, <2>1 DEF PinInv, EmptyTable, Running
    <3>. QED
      BY <1>3, <3>1, <3>2 DEF CgroupInv, CgroupNow
  <2>3. StopVictims(i) \subseteq {containers[i].pid}
    BY <2>1, <2>2, OwnVictims
  <2>. QED
    BY <1>3, <2>1, <2>3, KillSelective
<1>4. ASSUME Inv, reap_and_record
      PROVE  Selective
  <2>1. pc = "reap" /\ \E W : W \subseteq {containers[job.idx].pid}
                              /\ Kill({containers[job.idx].pid}, W)
    BY <1>4 DEF reap_and_record
  <2>. QED
    BY <1>4, <2>1, KillSelective
<1>5. Inv /\ [Next]_vars =>
        [(pc # "reap" /\ pc' = "reap") \/ reap_and_record => Selective]_vars
  BY <1>3, <1>4
<1>. QED
  BY <1>1, <1>2, <1>5, PTL DEF Spec, StopsOnlyItsOwn
=============================================================================
