----------------------- MODULE ContainerManagerProofs -----------------------
(***************************************************************************)
(* Proofs about ContainerManager, for every value of its constants.        *)
(***************************************************************************)
EXTENDS ContainerManager, SequenceTheorems, TLAPS

(***************************************************************************)
(* The operators on the table.                                             *)
(***************************************************************************)

\* A function on 1..n is a sequence.
LEMMA FunctionIsSeq ==
    ASSUME NEW S, NEW n \in Nat, NEW f \in [1..n -> S]
    PROVE  f \in Seq(S) /\ Len(f) = n /\ DOMAIN f = 1..n
  OBVIOUS

\* Both searches of the table return indexes of entries.
LEMMA FindInTable ==
    ASSUME NEW t, NEW x
    PROVE  /\ find_container(t, x) \subseteq DOMAIN t
           /\ get_info(t, x) \subseteq DOMAIN t
  BY DEF find_container, get_info, find_container_by_pid

\* A search by id finds at most one entry, and that has the id.
LEMMA FindIsUnique ==
    ASSUME NEW t \in Seq(Info), NEW x, NEW i \in find_container(t, x),
           NEW k \in find_container(t, x)
    PROVE  i = k /\ t[i].id = x
  BY DEF find_container

\* An entry of the table, and what stop and start write into it.
LEMMA EntryType ==
    ASSUME NEW r \in Info, NEW p \in Pids \cup {NoPid}
    PROVE  /\ [r EXCEPT !.state = "STOPPED"] \in Info
           /\ [r EXCEPT !.pid = p, !.state = "RUNNING"] \in Info
           /\ [id |-> r.id, pid |-> r.pid, state |-> r.state] \in FileRecord
           /\ r.id \in Ids /\ r.pid \in Pids \cup {NoPid}
  BY DEF Info, States, FileRecord

\* What is at an index of the table.
LEMMA TableEntry ==
    ASSUME NEW t \in Seq(Info), NEW i \in DOMAIN t
    PROVE  t[i] \in Info /\ i \in Nat /\ 1 <= i /\ i <= Len(t)
  OBVIOUS

\* Marking entries stopped changes nothing but their state.
LEMMA MarkStoppedTable ==
    ASSUME NEW t \in Seq(Info), NEW I
    PROVE  /\ MarkStopped(t, I) \in Seq(Info)
           /\ Len(MarkStopped(t, I)) = Len(t)
           /\ DOMAIN MarkStopped(t, I) = DOMAIN t
           /\ \A i \in DOMAIN t :
                /\ MarkStopped(t, I)[i].id = t[i].id
                /\ MarkStopped(t, I)[i].pid = t[i].pid
                /\ MarkStopped(t, I)[i].state = IF i \in I THEN "STOPPED" ELSE t[i].state
<1>1. \A i \in DOMAIN t :
        /\ [t[i] EXCEPT !.state = "STOPPED"] \in Info
        /\ [t[i] EXCEPT !.state = "STOPPED"].id = t[i].id
        /\ [t[i] EXCEPT !.state = "STOPPED"].pid = t[i].pid
        /\ [t[i] EXCEPT !.state = "STOPPED"].state = "STOPPED"
  <2>. SUFFICES ASSUME NEW i \in DOMAIN t, NEW r \in Info, r = t[i]
                PROVE  /\ [r EXCEPT !.state = "STOPPED"] \in Info
                       /\ [r EXCEPT !.state = "STOPPED"].id = r.id
                       /\ [r EXCEPT !.state = "STOPPED"].pid = r.pid
                       /\ [r EXCEPT !.state = "STOPPED"].state = "STOPPED"
    BY TableEntry
  <2>. QED
    BY DEF Info, States
<1>2. MarkStopped(t, I) \in [1..Len(t) -> Info]
  BY <1>1, TableEntry DEF MarkStopped
<1>3. \A i \in DOMAIN t :
        MarkStopped(t, I)[i] =
            IF i \in I THEN [t[i] EXCEPT !.state = "STOPPED"] ELSE t[i]
  BY DEF MarkStopped
<1>4. MarkStopped(t, I) \in Seq(Info) /\ Len(MarkStopped(t, I)) = Len(t)
        /\ DOMAIN MarkStopped(t, I) = 1..Len(t)
  BY <1>2, FunctionIsSeq
<1>5. DOMAIN t = 1..Len(t)
  OBVIOUS
<1>. QED
  BY <1>1, <1>3, <1>4, <1>5

\* What record_running does to the table.
LEMMA MarkRunningTable ==
    ASSUME NEW t \in Seq(Info), NEW i \in DOMAIN t, NEW p \in Pids \cup {NoPid}
    PROVE  /\ MarkRunning(t, i, p) \in Seq(Info)
           /\ Len(MarkRunning(t, i, p)) = Len(t)
           /\ DOMAIN MarkRunning(t, i, p) = DOMAIN t
           /\ MarkRunning(t, i, p)[i].pid = p
           /\ MarkRunning(t, i, p)[i].state = "RUNNING"
           /\ MarkRunning(t, i, p)[i].id = t[i].id
           /\ \A k \in DOMAIN t \ {i} : MarkRunning(t, i, p)[k] = t[k]
<1>. DEFINE e(r) == [r EXCEPT !.pid = p, !.state = "RUNNING"]
<1>1. \A r \in Info : e(r).pid = p /\ e(r).state = "RUNNING" /\ e(r).id = r.id
  BY DEF Info
<1>2. t[i] \in Info /\ e(t[i]) \in Info
  BY TableEntry, EntryType
<1>3. MarkRunning(t, i, p) = [t EXCEPT ![i] = e(t[i])]
  BY DEF MarkRunning
<1>. HIDE DEF e
<1>. QED
  BY <1>1, <1>2, <1>3

\* remove_container takes out at most the entry that was found.
LEMMA RemoveTable ==
    ASSUME NEW t \in Seq(Info), NEW x
    PROVE  /\ remove_container(t, x) \in Seq(Info)
           /\ Len(remove_container(t, x)) <= Len(t)
           /\ \A k \in DOMAIN remove_container(t, x) :
                \E i \in DOMAIN t : remove_container(t, x)[k] = t[i]
           /\ \A i \in DOMAIN t \ find_container(t, x) :
                \E k \in DOMAIN remove_container(t, x) : remove_container(t, x)[k] = t[i]
<1>1. CASE find_container(t, x) = {}
  BY <1>1 DEF remove_container
<1>2. CASE find_container(t, x) # {}
  <2>. DEFINE r == remove_container(t, x)
  <2>1. PICK f \in DOMAIN t : find_container(t, x) = {f}
    BY <1>2 DEF find_container
  <2>2. r = [j \in 1..(Len(t) - 1) |-> IF j < f THEN t[j] ELSE t[j + 1]]
    BY <1>2, <2>1 DEF remove_container
  <2>3. r \in [1..(Len(t) - 1) -> Info] /\ Len(t) - 1 \in Nat
    BY <2>2
  <2>4. r \in Seq(Info) /\ Len(r) = Len(t) - 1 /\ DOMAIN r = 1..(Len(t) - 1)
    BY <2>3, FunctionIsSeq
  <2>5. ASSUME NEW i \in DOMAIN t, i # f
        PROVE  \E k \in DOMAIN r : r[k] = t[i]
    <3>1. CASE i < f
      BY <3>1, <2>2, <2>4
    <3>2. CASE i > f
      <4>1. i - 1 \in DOMAIN r /\ r[i - 1] = t[i]
        BY <3>2, <2>2, <2>4
      <4>. QED  BY <4>1
    <3>. QED  BY <3>1, <3>2, <2>5
  <2>6. \A k \in DOMAIN r : \E i \in DOMAIN t : r[k] = t[i]
    <3>. SUFFICES ASSUME NEW k \in DOMAIN r PROVE \E i \in DOMAIN t : r[k] = t[i]
      OBVIOUS
    <3>1. k \in DOMAIN t /\ k + 1 \in DOMAIN t /\ (r[k] = t[k] \/ r[k] = t[k + 1])
      BY <2>2, <2>4
    <3>. QED  BY <3>1
  <2>. QED
    BY <2>1, <2>4, <2>5, <2>6
<1>. QED
  BY <1>1, <1>2

\* What is saved of a table.
LEMMA ToFileType ==
    ASSUME NEW t \in Seq(Info)
    PROVE  ToFile(t) \in Seq(FileRecord) /\ Len(ToFile(t)) = Len(t)
<1>1. \A i \in DOMAIN t :
        [id |-> t[i].id, pid |-> t[i].pid, state |-> t[i].state] \in FileRecord
  <2>. SUFFICES ASSUME NEW i \in DOMAIN t, NEW r \in Info, r = t[i]
                PROVE  [id |-> r.id, pid |-> r.pid, state |-> r.state] \in FileRecord
    BY TableEntry
  <2>. QED
    BY DEF Info, FileRecord
<1>2. ToFile(t) \in [1..Len(t) -> FileRecord]
  BY <1>1 DEF ToFile
<1>. QED
  BY <1>2, FunctionIsSeq

\* A generated id is a numeral other than 0, an id, and larger than every
\* numeric id of the table.
LEMMA GeneratedIds ==
    ASSUME NEW t \in Seq(Info), NEW n \in generate_container_id(t)
    PROVE  n \in Ids /\ n \notin NumericIds(t)
<1>1. NumericIds(t) \subseteq Nat \ {0}
  <2>1. \A i \in DOMAIN t : t[i].id \in Ids
    BY TableEntry, EntryType
  <2>. QED
    BY <2>1 DEF NumericIds, IsNumeric, Ids
<1>. QED
  BY <1>1 DEF generate_container_id, Ids

(***************************************************************************)
(* Type correctness.                                                       *)
(***************************************************************************)

\* A part of a file is a file, also where it begins behind the end.
LEMMA SubSeqType ==
    ASSUME NEW f \in Seq(FileRecord), NEW m \in Nat \ {0}, NEW n \in Nat, n <= Len(f)
    PROVE  SubSeq(f, m, n) \in Seq(FileRecord)
<1>1. CASE m <= n
  BY <1>1, SubSeqProperties
<1>2. CASE m > n
  BY <1>2
<1>. QED
  BY <1>1, <1>2

\* Whatever of a save gets to the disk are records.
LEMMA UnfinishedType ==
    ASSUME TypeOK
    PROVE  Unfinished \subseteq Seq(FileRecord)
<1>1. ToFile(containers) \in Seq(FileRecord) /\ Len(ToFile(containers)) = Len(containers)
  BY ToFileType DEF TypeOK
<1>. SUFFICES ASSUME NEW n \in 0..Len(containers)
              PROVE  SubSeq(ToFile(containers), 1, n) \in Seq(FileRecord)
  BY DEF Unfinished, TypeOK
<1>. QED
  BY <1>1, SubSeqType

\* So is what exit() flushes, in front of the rest of the file.
LEMMA FlushedType ==
    ASSUME TypeOK
    PROVE  Flushed \subseteq Seq(FileRecord)
<1>. SUFFICES ASSUME NEW n \in 0..Len(buffer), NEW m \in 1..(n + 1)
              PROVE  SubSeq(buffer, 1, n) \o SubSeq(stateFile, m, Len(stateFile))
                        \in Seq(FileRecord)
  <2>. DEFINE part(n, m) == SubSeq(buffer, 1, n) \o SubSeq(stateFile, m, Len(stateFile))
  <2>1. Flushed = UNION {{part(n, m) : m \in 1..(n + 1)} : n \in 0..Len(buffer)}
    BY DEF Flushed
  <2>2. \A n \in 0..Len(buffer) : \A m \in 1..(n + 1) : part(n, m) \in Seq(FileRecord)
    OBVIOUS
  <2>. HIDE DEF part
  <2>. QED
    BY <2>1, <2>2
<1>1. buffer \in Seq(FileRecord) /\ stateFile \in Seq(FileRecord)
  BY DEF TypeOK
<1>2. Len(buffer) \in Nat /\ Len(stateFile) \in Nat /\ n \in Nat /\ m \in Nat \ {0} /\ n <= Len(buffer)
  BY <1>1
<1>3. SubSeq(buffer, 1, n) \in Seq(FileRecord)
  BY <1>1, <1>2, SubSeqType
<1>4. SubSeq(stateFile, m, Len(stateFile)) \in Seq(FileRecord)
  BY <1>1, <1>2, SubSeqType
<1>. QED
  BY <1>3, <1>4, ConcatProperties

\* Signals and waitpid keep the kernel state well typed.
LEMMA KillType ==
    ASSUME KernelTypeOK, NEW V, NEW W, Kill(V, W), UNCHANGED dirs
    PROVE  KernelTypeOK'
  BY DEF KernelTypeOK, Kill, ProcStatus

\* The locals of a call have their type.
LEMMA JobType ==
    ASSUME NEW op \in Ops, NEW i \in Nat, NEW arg \in Ids \cup {NoArg},
           NEW p \in Pids \cup {NoPid}
    PROVE  Job(op, i, arg, p) \in Jobs
  BY DEF Job, Jobs

\* So do those of no call.
LEMMA NoJobType == NoJob \in Jobs
  BY JobType DEF NoJob, Ops

\* A loop goes on to the next record or entry.
LEMMA NextIdx ==
    ASSUME NEW j \in Jobs
    PROVE  /\ [j EXCEPT !.idx = @ + 1] \in Jobs
           /\ [j EXCEPT !.idx = @ + 1].idx = j.idx + 1
           /\ [j EXCEPT !.idx = @ + 1].pid = j.pid
           /\ [j EXCEPT !.idx = @ + 1].op = j.op
           /\ j.idx \in Nat
  BY DEF Jobs

\* A new entry goes behind the others, into an array that is large enough.
LEMMA AddType ==
    ASSUME TypeOK, NEW info \in Info, add_container(info)
    PROVE  /\ containers' \in Seq(Info)
           /\ Len(containers') = Len(containers) + 1
           /\ max_containers' \in Nat \ {0}
           /\ TableWithinCapacity => TableWithinCapacity'
  BY DEF TypeOK, add_container, Capacity, TableWithinCapacity

\* The environment leaves the kernel's state well-typed.
LEMMA EnvironmentType ==
    ASSUME KernelTypeOK, KernelNext
    PROVE  KernelTypeOK'
  BY DEF KernelTypeOK, KernelNext, ProcExit, HostFork, HostExit, ProcStatus

\* So does a clone or a fork.
LEMMA SpawnType ==
    ASSUME KernelTypeOK, NEW p \in Pids, Spawn(p), UNCHANGED dirs
    PROVE  KernelTypeOK'
  BY DEF KernelTypeOK, Spawn, ProcStatus

\* The end of the manager process, whatever ends it.
LEMMA ExitType ==
    ASSUME TypeInv, Exit, stateFile' \in Seq(FileRecord)
    PROVE  TypeInv'
<1>1. KernelTypeOK'
  BY DEF TypeInv, TypeOK, KernelTypeOK, Exit, ManagerDies, ProcStatus
<1>2. TypeOK'
  BY <1>1, NoJobType, ConstantsAssumption DEF TypeInv, TypeOK, Exit, PCs, sessionVars
<1>. QED
  BY <1>2 DEF TypeInv, JobOK, Exit

\* The ids a new container may get.
LEMMA FreshIdsType ==
    ASSUME TypeOK, NEW id \in FreshIds
    PROVE  id \in Ids
  BY GeneratedIds, ConstantsAssumption DEF FreshIds, TypeOK

\* Every step preserves the type invariant.
LEMMA TypeStep ==
    ASSUME TypeInv, [Next]_vars
    PROVE  TypeInv'
<1>. USE ConstantsAssumption, NoJobType DEF TypeInv, TypeOK, fileVars, BeginSave
<1>1. CASE UNCHANGED vars
  BY <1>1 DEF vars, cmVars, kernelVars, sessionVars, KernelTypeOK, JobOK
<1>2. CASE container_manager_init
  BY <1>2, JobType DEF container_manager_init, kernelVars, KernelTypeOK, JobOK,
     Ops, PCs, Job, Modes
<1>3. CASE load_record
  <2>1. job' \in Jobs /\ job'.idx >= 1
    BY <1>3, NextIdx DEF load_record, JobOK
  <2>2. containers' \in Seq(Info) /\ max_containers' \in Nat \ {0}
    <3>1. CASE UNCHANGED <<containers, max_containers>>
      BY <3>1
    <3>2. ASSUME NEW info \in Loaded(containers, stateFile[job.idx]), add_container(info)
          PROVE  containers' \in Seq(Info) /\ max_containers' \in Nat \ {0}
      <4>1. stateFile[job.idx] \in FileRecord
        BY <1>3 DEF load_record, JobOK, Jobs
      <4>2. info \in Info
        <5>. PICK n \in Ids : info = [id |-> n, pid |-> stateFile[job.idx].pid,
                                      state |-> stateFile[job.idx].state,
                                      saved_config |-> "null"]
          <6>1. stateFile[job.idx].id \in Ids
            BY <4>1 DEF FileRecord
          <6>. QED
            BY <3>2, <6>1, GeneratedIds DEF Loaded
        <5>1. \A r \in FileRecord :
                [id |-> n, pid |-> r.pid, state |-> r.state, saved_config |-> "null"] \in Info
          BY DEF FileRecord, Info, SavedConfigs
        <5>. QED
          BY <4>1, <5>1
      <4>. QED
        BY <3>2, <4>2, AddType
    <3>. QED
      BY <1>3, <3>1, <3>2 DEF load_record
  <2>. QED
    BY <1>3, <2>1, <2>2 DEF load_record, kernelVars, KernelTypeOK, JobOK, sessionVars
<1>4. CASE load_done
  <2>1. job' \in Jobs
    BY <1>4 DEF load_done, Jobs, Ops
  <2>. QED
    BY <1>4, <2>1 DEF load_done, kernelVars, KernelTypeOK, JobOK, sessionVars, PCs
<1>5. CASE command_done
  BY <1>5 DEF command_done, kernelVars, KernelTypeOK, JobOK, sessionVars, PCs
<1>6. CASE container_manager_cleanup
  BY <1>6 DEF container_manager_cleanup, kernelVars, KernelTypeOK, JobOK, sessionVars, PCs
<1>7. CASE exit_process \/ crash
  BY <1>7, ExitType, FlushedType, UnfinishedType DEF exit_process, crash
<1>8. CASE Create
  <2>1. ASSUME NEW op \in {"create", "run"}, NEW id \in FreshIds,
               container_manager_create(op, id)
        PROVE  TypeInv'
    <3>1. id \in Ids
      BY FreshIdsType
    <3>2. job' \in Jobs /\ job'.op = op /\ job'.arg = id
      BY <2>1, <3>1, JobType DEF container_manager_create, Ops, Job
    <3>. QED
      BY <2>1, <3>1, <3>2 DEF container_manager_create, Creatable, KernelTypeOK, JobOK,
         sessionVars, PCs
  <2>2. ASSUME NEW op \in {"create", "run"}, NEW id \in FreshIds, create_cgroup_fails(op, id)
        PROVE  TypeInv'
    BY <2>2, FreshIdsType DEF create_cgroup_fails, AfterFailure, KernelTypeOK, JobOK,
       sessionVars, PCs
  <2>3. ASSUME NEW minimal_fs \in MinimalFs, fs_create_minimal_root(minimal_fs)
        PROVE  TypeInv'
    BY <2>3 DEF fs_create_minimal_root, BuildRoot, kernelVars, KernelTypeOK, JobOK,
       sessionVars, PCs
  <2>4. ASSUME NEW minimal_fs \in MinimalFs, create_fails(minimal_fs)
        PROVE  TypeInv'
    BY <2>4 DEF create_fails, CreateFails, BuildRoot, Rmdir, AfterFailure, KernelTypeOK,
       JobOK, sessionVars, PCs
  <2>5. ASSUME NEW config \in {"no_command", "command"}, create_entry(config)
        PROVE  TypeInv'
    <3>1. job.arg \in Ids
      BY <2>5 DEF create_entry, JobOK
    <3>2. NewInfo(job.arg, config) \in Info
      BY <3>1 DEF NewInfo, Info, States, SavedConfigs
    <3>3. /\ containers' \in Seq(Info) /\ max_containers' \in Nat \ {0}
          /\ Len(containers') = Len(containers) + 1
      BY <2>5, <3>2, AddType DEF create_entry
    <3>4. CASE job.op = "create"
      BY <2>5, <3>3, <3>4 DEF create_entry, kernelVars, KernelTypeOK, JobOK, sessionVars, PCs
    <3>5. CASE job.op # "create"
      <4>1. job' \in Jobs /\ job'.idx = Len(containers) + 1 /\ job'.op = "run"
        BY <2>5, <3>1, <3>5, JobType DEF create_entry, container_manager_run, Ops, Job
      <4>2. job'.idx \in DOMAIN containers'
        BY <3>3, <4>1
      <4>. QED
        BY <2>5, <3>3, <3>5, <4>1, <4>2 DEF create_entry, container_manager_run, kernelVars,
           KernelTypeOK, JobOK, sessionVars, PCs
    <3>. QED
      BY <3>4, <3>5
  <2>. QED
    BY <1>8, <2>1, <2>2, <2>3, <2>4, <2>5 DEF Create
<1>9. ASSUME NEW arg \in Args, container_manager_start(arg)
      PROVE  TypeInv'
  <2>. PICK i \in get_info(containers, arg) : job' = Job("start", i, arg, NoPid)
    BY <1>9 DEF container_manager_start
  <2>1. i \in DOMAIN containers /\ i \in Nat
    BY FindInTable, TableEntry
  <2>2. job' \in Jobs
    BY <2>1, JobType DEF Ops
  <2>. QED
    BY <1>9, <2>1, <2>2 DEF container_manager_start, KernelTypeOK, JobOK, Job, sessionVars, PCs
<1>26. ASSUME NEW arg \in Args, start_cgroup_fails(arg)
       PROVE  TypeInv'
  BY <1>26 DEF start_cgroup_fails, Returned, KernelTypeOK, JobOK, sessionVars, PCs
<1>10. ASSUME NEW p \in Pids, clone_process(p)
       PROVE  TypeInv'
  BY <1>10, SpawnType DEF clone_process, JobOK, Jobs, sessionVars, PCs
<1>11. CASE clone_fails
  BY <1>11 DEF clone_fails, JobOK, Returned, kernelVars, KernelTypeOK, sessionVars, PCs
<1>12. CASE add_to_cgroup
  <2>1. KernelTypeOK'
    BY <1>12 DEF add_to_cgroup, KernelTypeOK, JobOK, Jobs, NoArg, NoCgroup
  <2>. QED
    BY <1>12, <2>1 DEF add_to_cgroup, JobOK, sessionVars, PCs
<1>13. CASE record_running
  <2>1. containers' \in Seq(Info)
    BY <1>13, MarkRunningTable DEF record_running, JobOK
  <2>. QED
    BY <1>13, <2>1 DEF record_running, Returned, kernelVars, KernelTypeOK, JobOK,
       sessionVars, PCs
<1>14. CASE foreground_wait
  BY <1>14, KillType DEF foreground_wait, cmVars, JobOK, sessionVars
<1>15. ASSUME NEW arg \in Args, NEW p \in Pids, container_manager_exec(arg, p)
       PROVE  TypeInv'
  <2>1. KernelTypeOK'
    BY <1>15, SpawnType DEF container_manager_exec
  <2>. QED
    BY <1>15, <2>1, JobType DEF container_manager_exec, JobOK, Job, Ops, sessionVars, PCs
<1>16. CASE exec_return
  BY <1>16, KillType DEF exec_return, Returned, JobOK, sessionVars, PCs
<1>17. ASSUME NEW op \in {"stop", "destroy", "exit", "signal"}, NEW i \in DOMAIN containers, NEW arg \in Ids \cup {NoArg},
              BeginStop(op, i, arg)
       PROVE  TypeInv'
  <2>1. KernelTypeOK'
    BY <1>17, KillType DEF BeginStop
  <2>2. job' \in Jobs /\ job'.idx = i /\ job'.op = op
    BY <1>17, JobType DEF BeginStop, Job, Jobs, Ops
  <2>. QED
    BY <1>17, <2>1, <2>2 DEF BeginStop, JobOK, sessionVars, PCs
<1>18. ASSUME NEW arg \in Args, container_manager_stop(arg)
       PROVE  TypeInv'
  BY <1>17, <1>18, FindInTable DEF container_manager_stop
<1>19. ASSUME NEW arg \in Args, container_manager_destroy(arg)
       PROVE  TypeInv'
  <2>. PICK i \in get_info(containers, arg) :
        \E k \in find_container(containers, containers[i].id) :
          \/ BeginStop("destroy", k, arg)
          \/ /\ pc' = "remove" /\ job' = Job("destroy", i, arg, NoPid)
             /\ UNCHANGED <<kernelVars, containers, max_containers, fileVars, rootfs,
                            sessionVars>>
    BY <1>19 DEF container_manager_destroy
  <2>. PICK k \in find_container(containers, containers[i].id) :
          \/ BeginStop("destroy", k, arg)
          \/ /\ pc' = "remove" /\ job' = Job("destroy", i, arg, NoPid)
             /\ UNCHANGED <<kernelVars, containers, max_containers, fileVars, rootfs,
                            sessionVars>>
    OBVIOUS
  <2>1. i \in DOMAIN containers /\ k \in DOMAIN containers /\ i \in Nat
    BY FindInTable, TableEntry
  <2>2. CASE BeginStop("destroy", k, arg)
    BY <1>17, <2>1, <2>2
  <2>3. CASE /\ pc' = "remove" /\ job' = Job("destroy", i, arg, NoPid)
             /\ UNCHANGED <<kernelVars, containers, max_containers, fileVars, rootfs,
                            sessionVars>>
    BY <2>1, <2>3, JobType DEF kernelVars, KernelTypeOK, JobOK, Job, Ops, sessionVars, PCs
  <2>. QED
    BY <2>2, <2>3
<1>20. CASE reap_and_record
  <2>1. KernelTypeOK'
    BY <1>20, KillType DEF reap_and_record
  <2>2. containers' \in Seq(Info) /\ DOMAIN containers' = DOMAIN containers
    BY <1>20, MarkStoppedTable DEF reap_and_record
  <2>4. job' \in Jobs /\ job'.idx \in Nat
        /\ (job.op \notin {"stop", "destroy"} => job'.idx >= 1 /\ job'.op = job.op)
        /\ (job.op = "destroy" => job' = job)
    <3>1. CASE job.op \in {"stop", "destroy"}
      BY <1>20, <3>1 DEF reap_and_record, Jobs
    <3>2. CASE job.op \notin {"stop", "destroy"}
      <4>1. job' = [job EXCEPT !.idx = @ + 1]
        BY <1>20, <3>2 DEF reap_and_record
      <4>. QED
        BY <3>2, <4>1, NextIdx
    <3>. QED
      BY <3>1, <3>2
  <2>. QED
    BY <1>20, <2>1, <2>2, <2>4 DEF reap_and_record, AfterReap, Returned, JobOK,
       sessionVars, PCs
<1>21. CASE finish_destroy
  <2>1. containers' \in Seq(Info)
    BY <1>21, RemoveTable DEF finish_destroy
  <2>. QED
    BY <1>21, <2>1 DEF finish_destroy, Rmdir, AfterFailure, Returned, KernelTypeOK,
       JobOK, sessionVars, PCs
<1>22. CASE menu_exit \/ signal_handler
  <2>. PICK op \in {"exit", "signal"} : BeginStopAll(op)
    BY <1>22 DEF menu_exit, signal_handler
  <2>1. job' \in Jobs /\ job'.idx = 1 /\ job'.op = op
    BY JobType DEF BeginStopAll, Job, Jobs, Ops
  <2>2. stateFile' \in Seq(FileRecord) /\ saving' \in {"no", "yes"} /\ buffer' \in Seq(FileRecord)
    <3>1. ToFile(containers) \in Seq(FileRecord) /\ <<>> \in Seq(FileRecord)
      BY ToFileType
    <3>. QED
      BY <1>22, <3>1 DEF menu_exit, signal_handler
  <2>. QED
    BY <2>1, <2>2 DEF BeginStopAll, kernelVars, KernelTypeOK, JobOK, sessionVars, PCs
<1>23. CASE stop_next
  <2>1. job.idx \in DOMAIN containers /\ job.op \in {"exit", "signal"}
        /\ job.arg \in Ids \cup {NoArg}
    BY <1>23 DEF stop_next, JobOK, Jobs
  <2>2. CASE BeginStop(job.op, job.idx, job.arg)
    BY <1>17, <2>1, <2>2
  <2>3. CASE ~BeginStop(job.op, job.idx, job.arg)
    <3>1. job' = [job EXCEPT !.idx = @ + 1]
      BY <1>23, <2>3 DEF stop_next
    <3>2. job' \in Jobs /\ job'.idx >= 1 /\ job'.op = job.op
      BY <3>1, NextIdx
    <3>. QED
      BY <1>23, <2>3, <3>2 DEF stop_next, kernelVars, KernelTypeOK, JobOK, sessionVars
  <2>. QED
    BY <2>2, <2>3
<1>24. CASE stop_all_done
  <2>1. KernelTypeOK'
    BY <1>24, KillType DEF stop_all_done, KernelTypeOK
  <2>2. containers' \in Seq(Info)
    BY <1>24, MarkStoppedTable DEF stop_all_done
  <2>3. job' \in Jobs
    BY <1>24, JobType DEF stop_all_done, Jobs, Ops
  <2>. QED
    BY <1>24, <2>1, <2>2, <2>3 DEF stop_all_done, JobOK, sessionVars, PCs
<1>25. CASE Environment
  BY <1>25, EnvironmentType DEF Environment, cmVars, JobOK, sessionVars
<1>27. CASE save_state
  BY <1>27, ToFileType DEF save_state, kernelVars, KernelTypeOK, JobOK, sessionVars
<1>. QED
  BY <1>1, <1>2, <1>3, <1>4, <1>5, <1>6, <1>7, <1>8, <1>9, <1>10, <1>11, <1>12, <1>13,
     <1>14, <1>15, <1>16, <1>18, <1>19, <1>20, <1>21, <1>22, <1>23, <1>24, <1>25, <1>26, <1>27
     DEF Next, MainThread, Session, Launch, Exec, Halt

\* The initial state is well-typed.
LEMMA TypeInit ==
    ASSUME Init
    PROVE  TypeInv /\ TableWithinCapacity
  BY NoJobType, ConstantsAssumption
     DEF Init, KernelInit, TypeInv, TypeOK, KernelTypeOK, JobOK, PCs, Modes, ProcStatus,
         TableWithinCapacity

\* Every variable keeps its type, and a call in progress works on an entry of
\* the table and on a process that exist in it, whatever interrupts it.
THEOREM TypeCorrect == Spec => []TypeOK
<1>1. Init => TypeInv
  BY TypeInit
<1>2. TypeInv /\ [Next]_vars => TypeInv'
  BY TypeStep
<1>3. TypeInv => TypeOK
  BY DEF TypeInv
<1>. QED
  BY <1>1, <1>2, <1>3, PTL DEF Spec

(***************************************************************************)
(* The array of the table.                                                 *)
(***************************************************************************)

\* The table never outgrows its array, however many records load_state finds.
THEOREM CapacityRespected == Spec => []TableWithinCapacity
<1>. DEFINE Inv == TypeInv /\ TableWithinCapacity
<1>1. Init => Inv
  BY TypeInit
<1>2. Inv /\ [Next]_vars => Inv'
  <2>. SUFFICES ASSUME TypeInv, TableWithinCapacity, [Next]_vars, TypeInv'
                PROVE  TableWithinCapacity'
    BY TypeStep
  <2>. USE DEF TypeInv, TypeOK, TableWithinCapacity
  <2>1. CASE UNCHANGED <<containers, max_containers>>
    BY <2>1
  <2>2. CASE containers' = <<>>
    BY <2>2
  <2>3. ASSUME NEW info \in Info, add_container(info)
        PROVE  TableWithinCapacity'
    BY <2>3, AddType
  <2>4. CASE UNCHANGED max_containers /\ Len(containers') <= Len(containers)
    BY <2>4
  <2>5. CASE container_manager_init \/ exit_process \/ crash
    BY <2>2, <2>5 DEF container_manager_init, exit_process, crash, Exit
  <2>6. CASE load_record
    BY <2>1, <2>6, ConstantsAssumption, SMTT(20) DEF load_record, add_container, Capacity
  <2>7. CASE Create
    BY <2>1, <2>7, ConstantsAssumption DEF Create, container_manager_create,
       create_cgroup_fails, fs_create_minimal_root, create_fails, create_entry,
       add_container, Capacity
  <2>8. CASE record_running
    BY <2>4, <2>8, MarkRunningTable DEF record_running, JobOK
  <2>9. CASE reap_and_record
    BY <2>4, <2>9, MarkStoppedTable DEF reap_and_record
  <2>10. CASE finish_destroy
    BY <2>4, <2>10, RemoveTable DEF finish_destroy
  <2>11. CASE stop_all_done
    BY <2>1, <2>4, <2>11, MarkStoppedTable DEF stop_all_done
  <2>12. CASE Exec \/ menu_exit \/ signal_handler \/ stop_next \/ Environment
    BY <2>1, <2>12 DEF Exec, container_manager_exec, exec_return, menu_exit,
       signal_handler, BeginStopAll, stop_next, BeginStop, Environment, cmVars
  <2>13. CASE \E arg \in Args : container_manager_stop(arg) \/ container_manager_destroy(arg)
    BY <2>1, <2>13 DEF container_manager_stop, container_manager_destroy, BeginStop
  <2>14. CASE \/ \E arg \in Args : container_manager_start(arg) \/ start_cgroup_fails(arg)
              \/ \E p \in Pids : clone_process(p)
              \/ clone_fails \/ add_to_cgroup \/ foreground_wait
              \/ load_done \/ command_done \/ container_manager_cleanup \/ save_state
              \/ UNCHANGED vars
    BY <2>1, <2>14 DEF container_manager_start, start_cgroup_fails, clone_process, clone_fails,
       add_to_cgroup, foreground_wait, load_done, command_done, container_manager_cleanup,
       save_state, vars, cmVars
  <2>. QED
    BY <2>5, <2>6, <2>7, <2>8, <2>9, <2>10, <2>11, <2>12, <2>13, <2>14
       DEF Next, MainThread, Session, Launch, Halt
<1>. QED
  BY <1>1, <1>2, PTL DEF Spec

(***************************************************************************)
(* No live child is lost track of.                                         *)
(***************************************************************************)

\* Killing and waiting bring no process to life, and leave none of those that
\* were killed or waited for.
LEMMA KillFewer ==
    ASSUME KernelTypeOK, NEW V, NEW W, Kill(V, W)
    PROVE  /\ children' \subseteq children
           /\ children' \cap W = {}
           /\ \A p \in Pids : procs'[p] = "alive" => procs[p] = "alive" /\ p \notin V
  BY DEF KernelTypeOK, Kill

\* Steps that leave the table alone and create no process.
LEMMA SameTableTracked ==
    ASSUME TypeOK, AliveChildTracked, UNCHANGED containers, children' \subseteq children,
           \A p \in Pids : procs'[p] = "alive" => procs[p] = "alive",
           \/ job'.pid = job.pid
           \/ job.pid = NoPid
           \/ job.pid \notin children'
    PROVE  AliveChildTracked'
  BY PidsAssumption DEF TypeOK, KernelTypeOK, AliveChildTracked, InTable, Running, NoPid

\* The kill at the beginning of a stop.
LEMMA BeginStopTracked ==
    ASSUME TypeOK, AliveChildTracked, NEW op, NEW i, NEW arg, BeginStop(op, i, arg)
    PROVE  AliveChildTracked' /\ pc' = "reap" /\ UNCHANGED containers
           /\ job'.pid = job.pid /\ job'.op = op /\ job'.idx = i /\ job'.arg = arg
<1>1. pc' = "reap" /\ UNCHANGED containers
      /\ job'.pid = job.pid /\ job'.op = op /\ job'.idx = i /\ job'.arg = arg
  BY DEF BeginStop, Job
<1>2. children' \subseteq children /\ \A p \in Pids : procs'[p] = "alive" => procs[p] = "alive"
  BY KillFewer DEF BeginStop, TypeOK
<1>. QED
  BY <1>1, <1>2, SameTableTracked

\* Every step preserves the invariant behind AliveChildTracked.
LEMMA TrackingStep ==
    ASSUME TypeInv, TypeInv', TrackingInv, [Next]_vars
    PROVE  TrackingInv'
<1>. USE DEF TypeInv, TypeOK, TrackingInv
<1>0. NoPid \notin children /\ children \subseteq Pids
  BY PidsAssumption DEF KernelTypeOK, NoPid
<1>1. CASE UNCHANGED vars
  BY <1>1 DEF vars, cmVars, kernelVars, sessionVars, NoPidHeld, NoChildrenYet,
     LaunchTarget, DestroyTarget, AliveChildTracked, InTable, Running, find_container
<1>2. CASE container_manager_init \/ load_record \/ load_done
  <2>1. pc' \in {"load", "idle"} /\ children' = {}
    BY <1>2 DEF container_manager_init, load_record, load_done, kernelVars, NoChildrenYet
  <2>2. job'.pid = NoPid
    <3>1. CASE container_manager_init \/ load_done
      BY <3>1 DEF container_manager_init, load_done, Job, NoJob
    <3>2. CASE load_record
      <4>1. job.pid = NoPid /\ job' = [job EXCEPT !.idx = @ + 1]
        BY <3>2 DEF load_record, NoPidHeld
      <4>. QED
        BY <4>1, NextIdx
    <3>. QED
      BY <1>2, <3>1, <3>2
  <2>. QED
    BY <2>1, <2>2 DEF NoPidHeld, NoChildrenYet, LaunchTarget, DestroyTarget, AliveChildTracked
<1>3. CASE exit_process \/ crash
  <2>1. pc' = "down" /\ children' = {} /\ job' = NoJob
    BY <1>3 DEF exit_process, crash, Exit, ManagerDies
  <2>2. job'.pid = NoPid
    BY <2>1 DEF NoJob, Job
  <2>. QED
    BY <2>1, <2>2 DEF NoPidHeld, NoChildrenYet, LaunchTarget, DestroyTarget, AliveChildTracked
<1>4. CASE command_done \/ container_manager_cleanup \/ save_state
  <2>1. AliveChildTracked'
    BY <1>4, SameTableTracked DEF command_done, container_manager_cleanup, save_state, kernelVars
  <2>. QED
    BY <1>4, <2>1 DEF command_done, container_manager_cleanup, save_state, kernelVars,
       NoPidHeld, NoChildrenYet, LaunchTarget, DestroyTarget
<1>5. CASE Create
  <2>1. ASSUME UNCHANGED <<containers, procs, children>>, pc \in {"idle", "root", "add"},
               pc' \in {"idle", "root", "add", "failed"}, job'.pid = NoPid
        PROVE  TrackingInv'
    <3>1. AliveChildTracked'
      BY <2>1, SameTableTracked DEF NoPidHeld
    <3>. QED
      BY <2>1, <3>1 DEF NoPidHeld, NoChildrenYet, LaunchTarget, DestroyTarget
  <2>2. ASSUME NEW op, NEW id, container_manager_create(op, id) \/ create_cgroup_fails(op, id)
        PROVE  TrackingInv'
    BY <2>1, <2>2 DEF container_manager_create, create_cgroup_fails, Creatable, AfterFailure,
       Job, NoJob
  <2>3. ASSUME NEW minimal_fs, fs_create_minimal_root(minimal_fs)
        PROVE  TrackingInv'
    BY <2>1, <2>3 DEF fs_create_minimal_root, NoPidHeld, kernelVars
  <2>4. ASSUME NEW minimal_fs, create_fails(minimal_fs)
        PROVE  TrackingInv'
    BY <2>1, <2>4 DEF create_fails, CreateFails, AfterFailure, Job, NoJob
  <2>5. ASSUME NEW config, create_entry(config)
        PROVE  TrackingInv'
    <3>1. containers' = Append(containers, NewInfo(job.arg, config)) /\ pc = "add"
          /\ find_container(containers, job.arg) = {} /\ UNCHANGED <<procs, children>>
      BY <2>5 DEF create_entry, add_container, JobOK, kernelVars
    <3>2. /\ DOMAIN containers' = 1..(Len(containers) + 1)
          /\ DOMAIN containers = 1..Len(containers) /\ Len(containers) \in Nat
          /\ \A i \in DOMAIN containers : containers'[i] = containers[i]
          /\ containers'[Len(containers) + 1] = NewInfo(job.arg, config)
      BY <3>1
    <3>3. AliveChildTracked'
      BY <1>0, <3>1, <3>2 DEF AliveChildTracked, InTable, Running, NoPidHeld
    <3>4. ASSUME NEW i \in find_container(containers', job.arg), i # Len(containers) + 1
          PROVE  FALSE
      BY <3>1, <3>2, <3>4 DEF find_container
    <3>5. containers'[Len(containers) + 1].state = "CREATED"
      BY <3>2 DEF NewInfo
    <3>6. CASE job.op = "create"
      BY <2>5, <3>3, <3>6 DEF create_entry, Job, NoJob, NoPidHeld, NoChildrenYet, LaunchTarget,
         DestroyTarget
    <3>7. CASE job.op # "create"
      <4>1. /\ pc' \in {"clone", "remove"} /\ job'.op = "run" /\ job'.arg = job.arg
            /\ job'.idx = Len(containers) + 1 /\ job'.pid = NoPid
        BY <2>5, <3>7 DEF create_entry, container_manager_run, Job
      <4>. QED
        BY <3>3, <3>4, <3>5, <4>1 DEF NoPidHeld, NoChildrenYet, LaunchTarget, DestroyTarget
    <3>. QED
      BY <3>6, <3>7
  <2>. QED
    BY <1>5, <2>2, <2>3, <2>4, <2>5 DEF Create
<1>6. ASSUME NEW arg \in Args, container_manager_start(arg)
      PROVE  TrackingInv'
  <2>1. job.pid = NoPid /\ job'.pid = NoPid /\ job'.op = "start" /\ pc' = "clone"
        /\ containers[job'.idx].state # "RUNNING"
    BY <1>6 DEF container_manager_start, Startable, NoPidHeld, Job
  <2>2. AliveChildTracked'
    BY <1>6, <2>1, SameTableTracked DEF container_manager_start
  <2>. QED
    BY <1>6, <2>1, <2>2 DEF container_manager_start, NoPidHeld, NoChildrenYet, LaunchTarget,
       DestroyTarget
<1>23. ASSUME NEW arg \in Args, start_cgroup_fails(arg)
       PROVE  TrackingInv'
  <2>1. job.pid = NoPid /\ job'.pid = NoPid /\ pc = "idle" /\ pc' \in {"idle", "closing"}
    BY <1>23 DEF start_cgroup_fails, Returned, NoPidHeld, NoJob, Job
  <2>2. AliveChildTracked'
    BY <1>23, <2>1, SameTableTracked DEF start_cgroup_fails
  <2>. QED
    BY <1>23, <2>1, <2>2 DEF start_cgroup_fails, NoPidHeld, NoChildrenYet, LaunchTarget,
       DestroyTarget
<1>7. ASSUME NEW p \in Pids, Spawn(p), job.pid = NoPid, job'.pid = p, UNCHANGED containers
      PROVE  AliveChildTracked'
  BY <1>0, <1>7 DEF Spawn, AliveChildTracked, InTable, Running, KernelTypeOK
<1>8. ASSUME NEW p \in Pids, clone_process(p)
      PROVE  TrackingInv'
  <2>1. job.pid = NoPid /\ job'.pid = p /\ job'.idx = job.idx /\ job'.op = job.op
        /\ pc' = "attach" /\ pc = "clone" /\ UNCHANGED containers /\ job.op \in {"run", "start"}
    BY <1>8 DEF clone_process, NoPidHeld, Jobs, JobOK
  <2>2. AliveChildTracked'
    BY <1>7, <1>8, <2>1 DEF clone_process
  <2>. QED
    BY <2>1, <2>2 DEF NoPidHeld, NoChildrenYet, LaunchTarget, DestroyTarget
<1>9. CASE clone_fails
  <2>1. AliveChildTracked'
    BY <1>9, SameTableTracked DEF clone_fails, kernelVars, NoPidHeld
  <2>2. CASE job.op = "start"
    BY <1>9, <2>1, <2>2 DEF clone_fails, Returned, NoJob, Job, NoPidHeld, NoChildrenYet,
       LaunchTarget, DestroyTarget
  <2>3. CASE job.op = "run"
    <3>1. pc = "clone" /\ pc' = "remove" /\ UNCHANGED <<job, containers>>
      BY <1>9, <2>3 DEF clone_fails
    <3>2. \A i \in find_container(containers, job.arg) : containers[i].state # "RUNNING"
      BY <2>3, <3>1 DEF DestroyTarget, LaunchTarget
    <3>. QED
      BY <2>1, <2>3, <3>1, <3>2 DEF NoPidHeld, NoChildrenYet, LaunchTarget, DestroyTarget
  <2>. QED
    BY <1>9, <2>2, <2>3 DEF clone_fails, JobOK
<1>10. CASE add_to_cgroup
  <2>1. AliveChildTracked'
    BY <1>10, SameTableTracked DEF add_to_cgroup
  <2>. QED
    BY <1>10, <2>1 DEF add_to_cgroup, NoPidHeld, NoChildrenYet, LaunchTarget, DestroyTarget
<1>11. CASE record_running
  <2>. DEFINE t == containers'
  <2>1. job.idx \in DOMAIN containers /\ job.pid \in Pids /\ containers[job.idx].state # "RUNNING"
    BY <1>11 DEF record_running, JobOK, LaunchTarget
  <2>2. /\ DOMAIN t = DOMAIN containers
        /\ t[job.idx].pid = job.pid /\ t[job.idx].state = "RUNNING"
        /\ \A k \in DOMAIN containers \ {job.idx} : t[k] = containers[k]
    BY <1>11, <2>1, MarkRunningTable DEF record_running
  <2>3. AliveChildTracked'
    BY <1>11, <2>1, <2>2, SMTT(20)
       DEF record_running, kernelVars, AliveChildTracked, InTable, Running
  <2>. QED
    BY <1>11, <2>3 DEF record_running, Returned, NoJob, Job, NoPidHeld, NoChildrenYet,
       LaunchTarget, DestroyTarget
<1>12. CASE foreground_wait
  <2>1. AliveChildTracked'
    BY <1>12, KillFewer, SameTableTracked DEF foreground_wait, cmVars
  <2>. QED
    BY <1>12, <2>1 DEF foreground_wait, cmVars, NoPidHeld, NoChildrenYet, LaunchTarget,
       DestroyTarget
<1>13. ASSUME NEW arg \in Args, NEW p \in Pids, container_manager_exec(arg, p)
       PROVE  TrackingInv'
  <2>1. job.pid = NoPid /\ job'.pid = p /\ job'.op = "exec" /\ pc' = "exec"
        /\ UNCHANGED containers
    BY <1>13 DEF container_manager_exec, NoPidHeld, Job
  <2>2. AliveChildTracked'
    BY <1>7, <1>13, <2>1 DEF container_manager_exec
  <2>. QED
    BY <2>1, <2>2 DEF NoPidHeld, NoChildrenYet, LaunchTarget, DestroyTarget
<1>14. CASE exec_return
  <2>1. AliveChildTracked'
    BY <1>14, KillFewer, SameTableTracked DEF exec_return
  <2>. QED
    BY <1>14, <2>1 DEF exec_return, Returned, NoJob, Job, NoPidHeld, NoChildrenYet,
       LaunchTarget, DestroyTarget
<1>15. ASSUME NEW arg \in Args, container_manager_stop(arg)
       PROVE  TrackingInv'
  <2>. PICK i \in get_info(containers, arg) : BeginStop("stop", i, arg)
    BY <1>15 DEF container_manager_stop
  <2>1. AliveChildTracked' /\ pc' = "reap" /\ job'.pid = job.pid /\ job'.op = "stop"
    BY BeginStopTracked
  <2>2. job.pid = NoPid
    BY <1>15 DEF container_manager_stop, NoPidHeld
  <2>. QED
    BY <2>1, <2>2 DEF NoPidHeld, NoChildrenYet, LaunchTarget, DestroyTarget
<1>16. ASSUME NEW arg \in Args, container_manager_destroy(arg)
       PROVE  TrackingInv'
  <2>. DEFINE Stop(k) == containers[k].state = "RUNNING" /\ BeginStop("destroy", k, arg)
              Skip(i) == /\ pc' = "remove" /\ job' = Job("destroy", i, arg, NoPid)
                         /\ UNCHANGED <<kernelVars, containers>>
  <2>. PICK i \in get_info(containers, arg) :
        \E k \in find_container(containers, containers[i].id) :
          \/ Stop(k)
          \/ ~(containers[i].state = "RUNNING" /\ containers[k].state = "RUNNING") /\ Skip(i)
    BY <1>16 DEF container_manager_destroy
  <2>. PICK k \in find_container(containers, containers[i].id) :
          \/ Stop(k)
          \/ ~(containers[i].state = "RUNNING" /\ containers[k].state = "RUNNING") /\ Skip(i)
    OBVIOUS
  <2>1. job.pid = NoPid /\ pc = "idle"
    BY <1>16 DEF container_manager_destroy, NoPidHeld
  <2>2. find_container(containers, arg) \subseteq {i} /\ find_container(containers, arg) \subseteq {k}
    <3>1. CASE find_container(containers, arg) = {}
      BY <3>1
    <3>2. CASE find_container(containers, arg) # {}
      <4>1. i \in find_container(containers, arg)
        BY <3>2 DEF get_info
      <4>2. containers[i].id = arg
        BY <4>1, FindIsUnique
      <4>. QED
        BY <4>1, <4>2, FindIsUnique
    <3>. QED
      BY <3>1, <3>2
  <2>3. CASE Stop(k)
    <3>1. AliveChildTracked' /\ pc' = "reap" /\ UNCHANGED containers
          /\ job'.pid = job.pid /\ job'.op = "destroy" /\ job'.idx = k /\ job'.arg = arg
      BY <2>3, BeginStopTracked
    <3>. QED
      BY <2>1, <2>2, <3>1 DEF NoPidHeld, NoChildrenYet, LaunchTarget, DestroyTarget
  <2>4. CASE ~(containers[i].state = "RUNNING" /\ containers[k].state = "RUNNING") /\ Skip(i)
    <3>1. job'.pid = NoPid /\ job'.op = "destroy" /\ job'.arg = arg /\ pc' = "remove"
      BY <2>4 DEF Job
    <3>2. AliveChildTracked'
      BY <2>1, <2>4, <3>1, SameTableTracked DEF kernelVars
    <3>3. \A j \in find_container(containers, arg) : containers[j].state # "RUNNING"
      BY <2>2, <2>4
    <3>. QED
      BY <2>4, <3>1, <3>2, <3>3 DEF NoPidHeld, NoChildrenYet, LaunchTarget, DestroyTarget
  <2>. QED
    BY <2>3, <2>4
<1>17. CASE reap_and_record
  <2>. DEFINE q == containers[job.idx].pid
  <2>1. job.idx \in DOMAIN containers /\ pc = "reap"
    BY <1>17 DEF reap_and_record, JobOK
  <2>2. /\ DOMAIN containers' = DOMAIN containers
        /\ \A i \in DOMAIN containers :
             /\ containers'[i].pid = containers[i].pid
             /\ containers'[i].id = containers[i].id
             /\ containers'[i].state = IF i = job.idx THEN "STOPPED" ELSE containers[i].state
    BY <1>17, MarkStoppedTable DEF reap_and_record
  <2>3. children' \subseteq children
        /\ \A p \in Pids : procs'[p] = "alive" => procs[p] = "alive" /\ p # q
    BY <1>17, KillFewer DEF reap_and_record
  <2>4. job'.pid = job.pid \/ job.pid = NoPid
    BY <1>17, NextIdx DEF reap_and_record, NoPidHeld
  <2>5. AliveChildTracked'
    <3>. SUFFICES ASSUME NEW p \in children', procs'[p] = "alive", p # job'.pid
                  PROVE  InTable(p)'
      BY DEF AliveChildTracked
    <3>1. p \in children /\ procs[p] = "alive" /\ p # q /\ p # job.pid
      BY <1>0, <2>3, <2>4
    <3>2. PICK i \in DOMAIN containers :
              containers[i].state = "RUNNING" /\ containers[i].pid = p
      BY <3>1 DEF AliveChildTracked, InTable, Running
    <3>3. i # job.idx
      BY <3>1, <3>2
    <3>. QED
      BY <2>2, <3>2, <3>3 DEF InTable, Running
  <2>6. find_container(containers', job.arg) = find_container(containers, job.arg)
    BY <2>2 DEF find_container
  <2>7. CASE job.op = "destroy"
    <3>1. pc' = "remove" /\ job' = job
      BY <1>17, <2>7 DEF reap_and_record, AfterReap
    <3>2. \A i \in find_container(containers', job.arg) : containers'[i].state # "RUNNING"
      BY <2>1, <2>2, <2>6, <2>7 DEF DestroyTarget
    <3>. QED
      BY <2>5, <2>7, <3>1, <3>2 DEF NoPidHeld, NoChildrenYet, LaunchTarget, DestroyTarget
  <2>8. CASE job.op = "stop"
    BY <1>17, <2>5, <2>8 DEF reap_and_record, AfterReap, Returned, NoJob, Job, NoPidHeld,
       NoChildrenYet, LaunchTarget, DestroyTarget
  <2>9. CASE job.op \notin {"stop", "destroy"}
    <3>1. pc' = "stopping" /\ job'.op = job.op
      BY <1>17, <2>9, NextIdx DEF reap_and_record, AfterReap
    <3>. QED
      BY <2>5, <2>9, <3>1 DEF NoPidHeld, NoChildrenYet, LaunchTarget, DestroyTarget
  <2>. QED
    BY <2>7, <2>8, <2>9
<1>18. CASE finish_destroy
  <2>1. job.pid = NoPid /\ UNCHANGED <<procs, children>>
        /\ containers' = remove_container(containers, job.arg)
        /\ \A i \in find_container(containers, job.arg) : containers[i].state # "RUNNING"
    BY <1>18 DEF finish_destroy, NoPidHeld, DestroyTarget
  <2>2. \A i \in DOMAIN containers \ find_container(containers, job.arg) :
            \E k \in DOMAIN containers' : containers'[k] = containers[i]
    BY <2>1, RemoveTable
  <2>3. AliveChildTracked'
    <3>. SUFFICES ASSUME NEW p \in children, procs[p] = "alive"
                  PROVE  InTable(p)'
      BY <2>1 DEF AliveChildTracked
    <3>1. PICK i \in DOMAIN containers :
            containers[i].state = "RUNNING" /\ containers[i].pid = p
      BY <1>0, <2>1 DEF AliveChildTracked, InTable, Running
    <3>2. PICK k \in DOMAIN containers' : containers'[k] = containers[i]
      BY <2>1, <2>2, <3>1
    <3>. QED
      BY <3>1, <3>2 DEF InTable, Running
  <2>. QED
    BY <1>18, <2>3 DEF finish_destroy, AfterFailure, Returned, NoJob, Job, NoPidHeld,
       NoChildrenYet, LaunchTarget, DestroyTarget
<1>19. CASE menu_exit \/ signal_handler
  <2>. PICK op \in {"exit", "signal"} : BeginStopAll(op)
    BY <1>19 DEF menu_exit, signal_handler
  <2>1. job'.pid = job.pid /\ job'.op = op /\ pc' = "stopping"
    BY DEF BeginStopAll, Job
  <2>2. AliveChildTracked'
    BY <2>1, SameTableTracked DEF BeginStopAll, kernelVars
  <2>. QED
    BY <2>1, <2>2 DEF NoPidHeld, NoChildrenYet, LaunchTarget, DestroyTarget
<1>20. CASE stop_next
  <2>1. CASE BeginStop(job.op, job.idx, job.arg)
    <3>1. AliveChildTracked' /\ pc' = "reap" /\ job'.pid = job.pid /\ job'.op = job.op
      BY <2>1, BeginStopTracked
    <3>2. job.op \in {"stop", "destroy"} => job.pid = NoPid
      BY DEF NoPidHeld
    <3>3. job.op # "destroy"
      BY <1>20 DEF stop_next, JobOK
    <3>. QED
      BY <3>1, <3>2, <3>3 DEF NoPidHeld, NoChildrenYet, LaunchTarget, DestroyTarget
  <2>2. CASE ~BeginStop(job.op, job.idx, job.arg)
    <3>1. job' = [job EXCEPT !.idx = @ + 1] /\ UNCHANGED <<containers, pc, kernelVars>>
          /\ pc = "stopping"
      BY <1>20, <2>2 DEF stop_next
    <3>2. job'.pid = job.pid /\ job'.op = job.op
      BY <3>1, NextIdx
    <3>3. AliveChildTracked'
      BY <3>1, <3>2, SameTableTracked DEF kernelVars
    <3>. QED
      BY <3>1, <3>2, <3>3 DEF NoPidHeld, NoChildrenYet, LaunchTarget, DestroyTarget
  <2>. QED
    BY <2>1, <2>2
<1>21. CASE stop_all_done
  <2>1. job'.pid = job.pid /\ job'.op = "none" /\ pc' = "closing"
    BY <1>21 DEF stop_all_done, NoJob, Job
  <2>2. children' \subseteq children /\ \A p \in Pids : procs'[p] = "alive" => procs[p] = "alive"
    BY <1>21, KillFewer DEF stop_all_done
  <2>3. /\ DOMAIN containers' = DOMAIN containers
        /\ \A i \in DOMAIN containers : containers[i].state = "RUNNING" =>
             containers'[i].pid = containers[i].pid /\ containers'[i].state = "RUNNING"
    <3>1. CASE UNCHANGED containers
      BY <3>1
    <3>2. CASE containers' = MarkStopped(containers,
                  {i \in DOMAIN containers : containers[i].state = "CREATED"})
      BY <3>2, MarkStoppedTable
    <3>. QED
      BY <1>21, <3>1, <3>2 DEF stop_all_done
  <2>4. AliveChildTracked'
    <3>. SUFFICES ASSUME NEW p \in children', procs'[p] = "alive", p # job.pid
                  PROVE  InTable(p)'
      BY <2>1 DEF AliveChildTracked
    <3>1. PICK i \in DOMAIN containers :
            containers[i].state = "RUNNING" /\ containers[i].pid = p
      BY <1>0, <2>2 DEF AliveChildTracked, InTable, Running
    <3>. QED
      BY <2>3, <3>1 DEF InTable, Running
  <2>. QED
    BY <2>1, <2>4 DEF NoPidHeld, NoChildrenYet, LaunchTarget, DestroyTarget
<1>22. CASE Environment
  <2>1. children' = children /\ \A p \in Pids : procs'[p] = "alive" => procs[p] = "alive"
    BY <1>22 DEF Environment, KernelNext, ProcExit, HostFork, HostExit, KernelTypeOK
  <2>2. AliveChildTracked'
    BY <1>22, <2>1, SameTableTracked DEF Environment, cmVars
  <2>. QED
    BY <1>22, <2>1, <2>2 DEF Environment, cmVars, NoPidHeld, NoChildrenYet, LaunchTarget,
       DestroyTarget
<1>. QED
  BY <1>1, <1>2, <1>3, <1>4, <1>5, <1>6, <1>8, <1>9, <1>10, <1>11, <1>12, <1>13, <1>14,
     <1>15, <1>16, <1>17, <1>18, <1>19, <1>20, <1>21, <1>22, <1>23
     DEF Next, MainThread, Session, Launch, Exec, Halt

\* There are no processes yet.
LEMMA TrackingInit ==
    ASSUME Init
    PROVE  TrackingInv
  BY DEF Init, KernelInit, NoJob, Job, TrackingInv, NoPidHeld, NoChildrenYet, LaunchTarget,
     DestroyTarget, AliveChildTracked

\* Whatever fails, interrupts or restarts the manager, a live child of it is
\* the process of a RUNNING entry or the one a call is working on.
THEOREM ChildrenTracked == Spec => []AliveChildTracked
<1>1. Init => TypeInv /\ TrackingInv
  BY TypeInit, TrackingInit
<1>2. TypeInv /\ TrackingInv /\ [Next]_vars => TypeInv' /\ TrackingInv'
  BY TypeStep, TrackingStep
<1>3. TrackingInv => AliveChildTracked
  BY DEF TrackingInv
<1>. QED
  BY <1>1, <1>2, <1>3, PTL DEF Spec
=============================================================================
