-------------------------- MODULE LifecycleProofs --------------------------
(***************************************************************************)
(* ContainerManager implements Lifecycle: every call, step by step, is a   *)
(* step of the life of the container it was made for, or none.             *)
(***************************************************************************)
EXTENDS SessionProofs, MCContainerManager

(***************************************************************************)
(* The refinement mapping.                                                 *)
(***************************************************************************)

\* The life of a container that is in the table is the state of its entry.
LEMMA LifeOfEntry ==
    ASSUME UniqueIds, NEW i \in DOMAIN containers, containers[i].id \in Args
    PROVE  LifeInTable[containers[i].id] = containers[i].state
<1>. DEFINE id == containers[i].id
            c == CHOOSE k \in DOMAIN containers : containers[k].id = id
<1>1. c \in DOMAIN containers /\ containers[c].id = id
  OBVIOUS
<1>2. c = i
  BY <1>1 DEF UniqueIds
<1>3. LifeInTable[id] = containers[c].state
  BY DEF LifeInTable
<1>. QED
  BY <1>2, <1>3

\* That of any other is "absent".
LEMMA LifeOfAbsent ==
    ASSUME NEW id \in Args, \A i \in DOMAIN containers : containers[i].id # id
    PROVE  LifeInTable[id] = "absent"
  BY DEF LifeInTable

\* The same after a step.
LEMMA LifeOfEntryPrime ==
    ASSUME UniqueIds', NEW i \in DOMAIN containers', containers'[i].id \in Args
    PROVE  LifeInTable'[containers'[i].id] = containers'[i].state
<1>. DEFINE id == containers'[i].id
            c == CHOOSE k \in DOMAIN containers' : containers'[k].id = id
<1>1. c \in DOMAIN containers' /\ containers'[c].id = id
  OBVIOUS
<1>2. c = i
  BY <1>1 DEF UniqueIds
<1>3. LifeInTable'[id] = containers'[c].state
  BY DEF LifeInTable
<1>. QED
  BY <1>2, <1>3

LEMMA LifeOfAbsentPrime ==
    ASSUME NEW id \in Args, \A i \in DOMAIN containers' : containers'[i].id # id
    PROVE  LifeInTable'[id] = "absent"
  BY DEF LifeInTable

LEMMA LifeDomain == DOMAIN LifeInTable = Args /\ DOMAIN LifeInTable' = Args
  BY DEF LifeInTable

LEMMA LifeIsFunction ==
    /\ LifeInTable = [id \in Args |-> LifeInTable[id]]
    /\ LifeInTable' = [id \in Args |-> LifeInTable'[id]]
  BY DEF LifeInTable

(***************************************************************************)
(* What the changes of the table are in terms of lives.                    *)
(***************************************************************************)

\* One entry changes its state to s.
LEMMA OneEntryChanges ==
    ASSUME UniqueIds, UniqueIds', NEW n \in DOMAIN containers, NEW s,
           DOMAIN containers' = DOMAIN containers,
           \A i \in DOMAIN containers :
              /\ containers'[i].id = containers[i].id
              /\ containers'[i].state = IF i = n THEN s ELSE containers[i].state
    PROVE  IF containers[n].id \in Args
           THEN LifeInTable' = [LifeInTable EXCEPT ![containers[n].id] = s]
           ELSE LifeInTable' = LifeInTable
<1>. DEFINE x == containers[n].id
<1>1. ASSUME NEW id \in Args
      PROVE  LifeInTable'[id] = IF id = x THEN s ELSE LifeInTable[id]
  <2>1. CASE \A i \in DOMAIN containers : containers[i].id # id
    BY <2>1, LifeOfAbsent, LifeOfAbsentPrime
  <2>2. ASSUME NEW i \in DOMAIN containers, containers[i].id = id
        PROVE  LifeInTable'[id] = IF id = x THEN s ELSE LifeInTable[id]
    <3>1. LifeInTable[id] = containers[i].state
      BY <2>2, LifeOfEntry
    <3>2. LifeInTable'[id] = containers'[i].state
      BY <2>2, LifeOfEntryPrime
    <3>3. id = x <=> i = n
      BY <2>2 DEF UniqueIds
    <3>. QED
      BY <3>1, <3>2, <3>3
  <2>. QED
    BY <2>1, <2>2
<1>. QED
  BY <1>1, LifeIsFunction, LifeDomain

\* The table does not change.
LEMMA SameLife ==
    ASSUME UNCHANGED containers
    PROVE  LifeInTable' = LifeInTable
  BY DEF LifeInTable

\* The table is dropped.
LEMMA NoLife ==
    ASSUME containers' = <<>>
    PROVE  Life!End
<1>1. \A id \in Args : LifeInTable'[id] = "absent"
  BY LifeOfAbsentPrime
<1>. QED
  BY <1>1, LifeIsFunction DEF Life!End

\* A new entry.
LEMMA NewLife ==
    ASSUME TypeInv, UniqueIds, UniqueIds', NEW id, NEW config,
           \A i \in DOMAIN containers : containers[i].id # id,
           containers' = Append(containers, NewInfo(id, config))
    PROVE  (id \in Args /\ Life!Create(id)) \/ LifeInTable' = LifeInTable
<1>. USE DEF TypeInv, TypeOK
<1>. DEFINE n == Len(containers) + 1
<1>1. /\ DOMAIN containers' = DOMAIN containers \cup {n} /\ n \notin DOMAIN containers
      /\ \A i \in DOMAIN containers : containers'[i] = containers[i]
      /\ containers'[n].id = id /\ containers'[n].state = "CREATED"
  <2>1. /\ DOMAIN containers' = 1..n /\ DOMAIN containers = 1..Len(containers)
        /\ Len(containers) \in Nat /\ containers'[n] = NewInfo(id, config)
        /\ \A i \in DOMAIN containers : containers'[i] = containers[i]
    OBVIOUS
  <2>. QED
    BY <2>1 DEF NewInfo
<1>2. ASSUME NEW x \in Args
      PROVE  LifeInTable'[x] = IF x = id THEN "CREATED" ELSE LifeInTable[x]
  <2>1. CASE x = id
    BY <1>1, <2>1, LifeOfEntryPrime
  <2>2. CASE x # id /\ \A i \in DOMAIN containers : containers[i].id # x
    BY <1>1, <2>2, LifeOfAbsent, LifeOfAbsentPrime
  <2>3. ASSUME x # id, NEW i \in DOMAIN containers, containers[i].id = x
        PROVE  LifeInTable'[x] = LifeInTable[x]
    <3>1. i \in DOMAIN containers' /\ containers'[i] = containers[i]
      BY <1>1
    <3>. QED
      BY <2>3, <3>1, LifeOfEntry, LifeOfEntryPrime
  <2>. QED
    BY <2>1, <2>2, <2>3
<1>3. CASE id \in Args
  <2>1. LifeInTable[id] = "absent"
    BY <1>3, LifeOfAbsent
  <2>2. LifeInTable' = [LifeInTable EXCEPT ![id] = "CREATED"]
    BY <1>2, LifeIsFunction, LifeDomain
  <2>. QED
    BY <1>3, <2>1, <2>2 DEF Life!Create
<1>4. CASE id \notin Args
  BY <1>2, <1>4, LifeIsFunction, LifeDomain
<1>. QED
  BY <1>3, <1>4

\* The entry n, the only one with its id, is taken out.
LEMMA LifeEnds ==
    ASSUME UniqueIds, UniqueIds', NEW n \in DOMAIN containers,
           \A k \in DOMAIN containers' :
              \E i \in DOMAIN containers \ {n} : containers'[k] = containers[i],
           \A i \in DOMAIN containers \ {n} :
              \E k \in DOMAIN containers' : containers'[k] = containers[i],
           containers[n].state \in {"CREATED", "STOPPED"}
    PROVE  \/ containers[n].id \in Args /\ Life!Destroy(containers[n].id)
           \/ LifeInTable' = LifeInTable
<1>. DEFINE x == containers[n].id
<1>1. ASSUME NEW id \in Args
      PROVE  LifeInTable'[id] = IF id = x THEN "absent" ELSE LifeInTable[id]
  <2>1. CASE id = x
    <3>1. \A k \in DOMAIN containers' : containers'[k].id # id
      BY <2>1 DEF UniqueIds
    <3>. QED
      BY <2>1, <3>1, LifeOfAbsentPrime
  <2>2. CASE id # x /\ \A i \in DOMAIN containers : containers[i].id # id
    <3>1. \A k \in DOMAIN containers' : containers'[k].id # id
      BY <2>2
    <3>. QED
      BY <2>2, <3>1, LifeOfAbsent, LifeOfAbsentPrime
  <2>3. ASSUME id # x, NEW i \in DOMAIN containers, containers[i].id = id
        PROVE  LifeInTable'[id] = LifeInTable[id]
    <3>1. PICK k \in DOMAIN containers' : containers'[k] = containers[i]
      BY <2>3
    <3>2. LifeInTable'[id] = containers'[k].state
      BY <2>3, <3>1, LifeOfEntryPrime
    <3>. QED
      BY <2>3, <3>1, <3>2, LifeOfEntry
  <2>. QED
    BY <2>1, <2>2, <2>3
<1>2. CASE x \in Args
  <2>1. LifeInTable[x] \in {"CREATED", "STOPPED"}
    BY <1>2, LifeOfEntry
  <2>2. LifeInTable' = [LifeInTable EXCEPT ![x] = "absent"]
    BY <1>1, LifeIsFunction, LifeDomain
  <2>. QED
    BY <1>2, <2>1, <2>2 DEF Life!Destroy
<1>3. CASE x \notin Args
  BY <1>1, <1>3, LifeIsFunction, LifeDomain
<1>. QED
  BY <1>2, <1>3

\* Nothing runs, and every CREATED entry is marked.
LEMMA LivesRetire ==
    ASSUME UniqueIds, UniqueIds', DOMAIN containers' = DOMAIN containers,
           \A i \in DOMAIN containers :
              /\ containers[i].state # "RUNNING"
              /\ containers'[i].id = containers[i].id
              /\ containers'[i].state =
                    IF containers[i].state = "CREATED" THEN "STOPPED" ELSE containers[i].state
    PROVE  Life!Retire
<1>1. ASSUME NEW id \in Args
      PROVE  /\ LifeInTable[id] # "RUNNING"
             /\ LifeInTable'[id] =
                   IF LifeInTable[id] = "CREATED" THEN "STOPPED" ELSE LifeInTable[id]
  <2>1. CASE \A i \in DOMAIN containers : containers[i].id # id
    BY <2>1, LifeOfAbsent, LifeOfAbsentPrime
  <2>2. ASSUME NEW i \in DOMAIN containers, containers[i].id = id
        PROVE  LifeInTable[id] = containers[i].state /\ LifeInTable'[id] = containers'[i].state
    BY <2>2, LifeOfEntry, LifeOfEntryPrime
  <2>. QED
    BY <2>1, <2>2
<1>. QED
  BY <1>1, LifeIsFunction DEF Life!Retire

(***************************************************************************)
(* The steps of the manager.                                               *)
(***************************************************************************)

\* An entry that does not run was created or stopped.
LEMMA IdleState ==
    ASSUME TypeInv, NEW i \in DOMAIN containers, containers[i].state # "RUNNING"
    PROVE  containers[i].state \in {"CREATED", "STOPPED"}
<1>1. containers[i] \in Info
  BY TableEntry DEF TypeInv, TypeOK
<1>. QED
  BY <1>1 DEF Info, States

\* remove_container keeps no copy of the entry it has found.
LEMMA RemovedEntry ==
    ASSUME NEW t \in Seq(Info), NEW x, NEW n \in DOMAIN t, find_container(t, x) = {n}
    PROVE  \A k \in DOMAIN remove_container(t, x) :
              \E i \in DOMAIN t \ {n} : remove_container(t, x)[k] = t[i]
<1>1. remove_container(t, x) = [j \in 1..(Len(t) - 1) |-> IF j < n THEN t[j] ELSE t[j + 1]]
  BY DEF remove_container
<1>. SUFFICES ASSUME NEW k \in 1..(Len(t) - 1)
              PROVE  \E i \in DOMAIN t \ {n} : remove_container(t, x)[k] = t[i]
  BY <1>1
<1>2. DOMAIN t = 1..Len(t) /\ Len(t) \in Nat
  OBVIOUS
<1>3. CASE k < n
  BY <1>1, <1>2, <1>3
<1>4. CASE ~(k < n)
  <2>1. k + 1 \in DOMAIN t \ {n} /\ remove_container(t, x)[k] = t[k + 1]
    BY <1>1, <1>2, <1>4
  <2>. QED
    BY <2>1
<1>. QED
  BY <1>3, <1>4

\* The entry of a destroy is the only one that goes, and it does not run.
LEMMA DestroyedLife ==
    ASSUME TypeInv, TrackingInv, TargetNamed, UniqueIds, UniqueIds', finish_destroy
    PROVE  (\E id \in Args : Life!Destroy(id)) \/ LifeInTable' = LifeInTable
<1>. USE DEF TypeInv, TypeOK
<1>1. /\ containers' = remove_container(containers, job.arg)
      /\ job.idx \in DOMAIN containers /\ containers[job.idx].id = job.arg
      /\ \A i \in find_container(containers, job.arg) : containers[i].state # "RUNNING"
  BY DEF finish_destroy, TrackingInv, DestroyTarget, JobOK, TargetNamed
<1>2. find_container(containers, job.arg) = {job.idx}
  <2>1. find_container(containers, containers[job.idx].id) # {}
    BY <1>1, FindComplete
  <2>2. \A i \in find_container(containers, job.arg) :
          i \in DOMAIN containers /\ containers[i].id = job.arg
    BY DEF find_container
  <2>. QED
    BY <1>1, <2>1, <2>2 DEF UniqueIds
<1>3. containers[job.idx].state \in {"CREATED", "STOPPED"}
  BY <1>1, <1>2, IdleState
<1>4. \A k \in DOMAIN containers' :
        \E i \in DOMAIN containers \ {job.idx} : containers'[k] = containers[i]
  <2>1. containers \in Seq(Info) /\ job.idx \in DOMAIN containers
    BY <1>1
  <2>. HIDE DEF TypeInv, TypeOK
  <2>2. \A k \in DOMAIN remove_container(containers, job.arg) :
          \E i \in DOMAIN containers \ {job.idx} :
              remove_container(containers, job.arg)[k] = containers[i]
    BY <1>2, <2>1, RemovedEntry
  <2>. QED
    BY <1>1, <2>2
<1>5. \A i \in DOMAIN containers \ {job.idx} :
        \E k \in DOMAIN containers' : containers'[k] = containers[i]
  <2>1. \A i \in DOMAIN containers \ find_container(containers, job.arg) :
          \E k \in DOMAIN containers' : containers'[k] = containers[i]
    BY <1>1, RemoveTable
  <2>. QED
    BY <1>2, <2>1
<1>. QED
  BY <1>1, <1>3, <1>4, <1>5, LifeEnds

\* Every step of the first manager is a step of Lifecycle, or changes no life.
LEMMA LifecycleStep ==
    ASSUME TypeInv, TrackingInv, FirstFile, PinInv, CgroupInv, StoppedSoFar,
           UniqueIds, UniqueIds', sessions <= 1, [Next]_vars
    PROVE  Life!Next \/ LifeInTable' = LifeInTable
<1>. USE DEF TypeInv, TypeOK
<1>1. CASE UNCHANGED containers
  BY <1>1, SameLife
<1>2. CASE containers' = <<>>
  BY <1>2, NoLife DEF Life!Next
<1>3. CASE Session \/ crash \/ save_state
  <2>1. CASE container_manager_init \/ exit_process \/ crash
    BY <1>2, <2>1 DEF container_manager_init, exit_process, crash, Exit
  <2>2. CASE load_done \/ command_done \/ container_manager_cleanup \/ save_state
    BY <1>1, <2>2 DEF load_done, command_done, container_manager_cleanup, save_state
  <2>. QED
    BY <1>3, <2>1, <2>2, NothingToLoad DEF Session
<1>4. CASE Create
  <2>1. CASE NewEntry
    <3>1. PICK config : containers' = Append(containers, NewInfo(job.arg, config))
      BY <2>1 DEF NewEntry
    <3>2. \A i \in DOMAIN containers : containers[i].id # job.arg
      BY <2>1, FindComplete DEF NewEntry, JobOK
    <3>. QED
      BY <3>1, <3>2, NewLife DEF Life!Next
  <2>. QED
    BY <1>1, <1>4, <2>1, CreateTable
<1>5. CASE record_running
  <2>1. /\ job.idx \in DOMAIN containers /\ job.pid \in Pids
        /\ containers[job.idx].state \in {"CREATED", "STOPPED"}
    BY <1>5, IdleState DEF record_running, JobOK, TrackingInv, LaunchTarget
  <2>2. /\ DOMAIN containers' = DOMAIN containers
        /\ containers'[job.idx].id = containers[job.idx].id
        /\ containers'[job.idx].state = "RUNNING"
        /\ \A k \in DOMAIN containers \ {job.idx} : containers'[k] = containers[k]
    <3>1. containers' = MarkRunning(containers, job.idx, job.pid)
      BY <1>5 DEF record_running
    <3>2. containers \in Seq(Info) /\ job.pid \in Pids \cup {NoPid}
      BY <2>1
    <3>. QED
      BY <2>1, <3>1, <3>2, MarkRunningTable
  <2>3. IF containers[job.idx].id \in Args
        THEN LifeInTable' = [LifeInTable EXCEPT ![containers[job.idx].id] = "RUNNING"]
        ELSE LifeInTable' = LifeInTable
    BY <2>1, <2>2, OneEntryChanges
  <2>. QED
    BY <2>1, <2>3, LifeOfEntry DEF Life!Next, Life!Start
<1>6. CASE reap_and_record
  <2>1. job.idx \in DOMAIN containers /\ containers[job.idx].state = "RUNNING"
    BY <1>6 DEF reap_and_record, JobOK, PinInv, ReapTarget
  <2>2. /\ DOMAIN containers' = DOMAIN containers
        /\ \A i \in DOMAIN containers :
             /\ containers'[i].id = containers[i].id
             /\ containers'[i].state = IF i = job.idx THEN "STOPPED" ELSE containers[i].state
    BY <1>6, MarkStoppedTable DEF reap_and_record
  <2>3. IF containers[job.idx].id \in Args
        THEN LifeInTable' = [LifeInTable EXCEPT ![containers[job.idx].id] = "STOPPED"]
        ELSE LifeInTable' = LifeInTable
    BY <2>1, <2>2, OneEntryChanges
  <2>. QED
    BY <2>1, <2>3, LifeOfEntry DEF Life!Next, Life!Stop
<1>7. CASE finish_destroy
  BY <1>7, DestroyedLife DEF CgroupInv, Life!Next
<1>8. CASE stop_all_done
  <2>. DEFINE created == {i \in DOMAIN containers : containers[i].state = "CREATED"}
  <2>1. CASE UNCHANGED containers
    BY <1>1, <2>1
  <2>2. \A i \in DOMAIN containers : i \in created <=> containers[i].state = "CREATED"
    OBVIOUS
  <2>3. UNCHANGED containers \/ containers' = MarkStopped(containers, created)
    BY <1>8 DEF stop_all_done
  <2>. HIDE DEF created
  <2>4. CASE containers' = MarkStopped(containers, created)
    <3>1. pc = "stopping" /\ job.idx > Len(containers) /\ job.idx \in Nat
      BY <1>8 DEF stop_all_done, Jobs
    <3>2. \A i \in DOMAIN containers : containers[i].state # "RUNNING"
      BY <3>1 DEF StoppedSoFar
    <3>3. /\ DOMAIN containers' = DOMAIN containers
          /\ \A i \in DOMAIN containers :
               /\ containers'[i].id = containers[i].id
               /\ containers'[i].state =
                     IF i \in created THEN "STOPPED" ELSE containers[i].state
      BY <2>4, MarkStoppedTable
    <3>. QED
      BY <2>2, <3>2, <3>3, LivesRetire DEF Life!Next
  <2>. QED
    BY <2>1, <2>3, <2>4
<1>9. CASE \/ \E arg \in Args : container_manager_start(arg) \/ start_cgroup_fails(arg)
           \/ \E p \in Pids : clone_process(p)
           \/ clone_fails \/ add_to_cgroup \/ foreground_wait \/ Exec
  BY <1>1, <1>9 DEF container_manager_start, start_cgroup_fails, clone_process, clone_fails, add_to_cgroup,
     foreground_wait, cmVars, Exec, container_manager_exec, exec_return
<1>10. CASE \E arg \in Args : container_manager_stop(arg) \/ container_manager_destroy(arg)
  BY <1>1, <1>10 DEF container_manager_stop, container_manager_destroy, BeginStop
<1>11. CASE menu_exit \/ signal_handler \/ stop_next \/ Environment \/ UNCHANGED vars
  BY <1>1, <1>11 DEF menu_exit, signal_handler, BeginStopAll, stop_next, BeginStop,
     Environment, cmVars, vars
<1>. QED
  BY <1>3, <1>4, <1>5, <1>6, <1>7, <1>8, <1>9, <1>10, <1>11
     DEF Next, MainThread, Launch, Halt

\* One manager process, with containers addressed by their ids, implements the
\* documented life of a container, whichever steps fail and wherever it is
\* interrupted: calls that take several steps take effect in one.
THEOREM LifecycleImplemented ==
    ASSUME Args \cap Pids = {}, MaxSessions <= 1
    PROVE  Spec => ImplementsLifecycle
<1>. DEFINE Inv == /\ TypeInv /\ TrackingInv /\ FirstFile /\ PinInv /\ CgroupInv
                   /\ StoppedSoFar
<1>1. Init => Inv
  BY TypeInit, TrackingInit, PinInit, CgroupInit DEF Init, StoppedSoFar
<1>2. Inv => sessions <= 1 /\ UniqueIds
  BY ConstantsAssumption DEF FirstFile, TypeInv, TypeOK, CgroupInv
<1>3. Inv /\ [Next]_vars => Inv'
  BY <1>2, TypeStep, TrackingStep, FirstFileStep, PinStep, CgroupStep, StoppedStep
<1>4. Inv' => UniqueIds'
  <2>1. sessions' \in Nat /\ MaxSessions \in Nat /\ sessions' <= MaxSessions /\ CgroupInv'
            => UniqueIds'
    BY DEF CgroupInv
  <2>. QED
    BY <2>1, ConstantsAssumption DEF FirstFile, TypeInv, TypeOK
<1>5. Init => Life!Init
  <2>. SUFFICES ASSUME Init
                PROVE  Life!Init
    OBVIOUS
  <2>1. \A id \in Args : LifeInTable[id] = "absent"
    BY LifeOfAbsent DEF Init
  <2>. QED
    BY <2>1, LifeIsFunction DEF Life!Init
<1>6. Inv /\ Inv' /\ [Next]_vars => [Life!Next]_LifeInTable
  BY <1>2, <1>4, LifecycleStep
<1>. QED
  BY <1>1, <1>3, <1>5, <1>6, PTL DEF Spec, ImplementsLifecycle, Life!Spec
=============================================================================
