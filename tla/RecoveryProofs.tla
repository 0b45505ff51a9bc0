--------------------------- MODULE RecoveryProofs ---------------------------
(***************************************************************************)
(* Proofs about ContainerManager across restarts: the ids of the table,    *)
(* the loop that stops everything, and the state file that lets a new      *)
(* manager find what a killed one has left.                                *)
(***************************************************************************)
EXTENDS ContainerManagerProofs, WellFoundedInduction

(***************************************************************************)
(* The inductive invariants.                                               *)
(***************************************************************************)

\* What several managers load one after the other has the ids under which it was
\* created: none is a name, which load_state would replace, and no signal leaves
\* half of a save in memory, to be written over a later one at exit.
IdsKept == NewIds \cap Names = {} /\ "save" \notin SignalAt

\* Otherwise nothing must be loaded.
NoRenaming == IdsKept \/ MaxSessions <= 1

\* The manager saves in its calls, not before and not behind them, and nothing is
\* left of an earlier save.
SavesInCalls ==
    /\ saving = "yes" => pc \notin {"down", "load"}
    /\ "save" \notin SignalAt => buffer = <<>>

\* No name is in the table, in the file or about to be used.
NumericOnly ==
    IdsKept =>
        /\ \A i \in DOMAIN containers : IsNumeric(containers[i].id)
        /\ \A k \in DOMAIN stateFile : IsNumeric(stateFile[k].id)
        /\ pc \in {"root", "add"} => IsNumeric(job.arg)

\* The first manager process finds an empty file.
FirstFile ==
    /\ SavesInCalls
    /\ sessions <= MaxSessions
    /\ sessions = 0 => pc = "down"
    /\ sessions = 0 \/ (sessions = 1 /\ pc = "load") => stateFile = <<>>

FileIdsUnique ==
    IdsKept =>
        \A j, k \in DOMAIN stateFile : stateFile[j].id = stateFile[k].id => j = k

\* What load_state has put into the table comes from records it has read.
LoadedFromFile ==
    pc = "load" =>
        \A i \in DOMAIN containers : \E k \in DOMAIN stateFile :
            k < job.idx /\ stateFile[k].id = containers[i].id

UniqueInv == FirstFile /\ NumericOnly /\ UniqueIds /\ FileIdsUnique /\ LoadedFromFile

\* The loop over all containers leaves no RUNNING entry behind it.
StoppedSoFar ==
    pc = "stopping" \/ (pc = "reap" /\ job.op \in {"exit", "signal"}) =>
        \A i \in DOMAIN containers : i < job.idx => containers[i].state # "RUNNING"

\* Every RUNNING entry is RUNNING in the file, or is about to be saved.
Synced ==
    saving = "no" =>
        \A i \in DOMAIN containers : Running(i) => InFile(containers[i].pid)

\* A record that load_state has still to read.
ToRead(p) ==
    \E k \in DOMAIN stateFile :
        k >= job.idx /\ stateFile[k].state = "RUNNING" /\ stateFile[k].pid = p

\* Where a live process is found, depending on where the manager is.
AliveFound ==
    \A p \in Pids : procs[p] = "alive" =>
        /\ pc \in {"down", "load"} => InFile(p)
        /\ pc = "load" => InTable(p) \/ ToRead(p)
        /\ pc \in {"attach", "commit", "exec"} => InTable(p) \/ p = job.pid
        /\ pc \notin {"down", "load", "attach", "commit", "exec"} => InTable(p)

RecoveryInv == SavesInCalls /\ Synced /\ AliveFound

(***************************************************************************)
(* Searching the table.                                                    *)
(***************************************************************************)

\* A set of numbers that is not empty has a smallest element.
LEMMA SmallestNumber ==
    ASSUME NEW T \in SUBSET Nat, T # {}
    PROVE  \E n \in T : \A m \in T : n <= m
<1>. DEFINE R == OpToRel(<, Nat)
<1>1. IsWellFoundedOn(R, Nat)
  BY NatLessThanWellFounded
<1>2. \A m, n \in Nat : <<m, n>> \in R <=> m < n
  BY DEF OpToRel
<1>. HIDE DEF R
<1>3. PICK n \in T : \A m \in T : ~(<<m, n>> \in R)
  BY <1>1, WFMin
<1>4. \A m \in T : ~(m < n)
  BY <1>2, <1>3
<1>. QED
  BY <1>4

\* find_container misses no id of the table.
LEMMA FindComplete ==
    ASSUME NEW t \in Seq(Info), NEW i \in DOMAIN t
    PROVE  find_container(t, t[i].id) # {}
<1>. DEFINE T == {j \in DOMAIN t : t[j].id = t[i].id}
<1>1. T \in SUBSET Nat /\ T # {}
  OBVIOUS
<1>2. PICK n \in T : \A m \in T : n <= m
  BY <1>1, SmallestNumber
<1>3. n \in find_container(t, t[i].id)
  BY <1>2 DEF find_container
<1>. QED
  BY <1>3

\* Two entries behind remove_container were two entries before it.
LEMMA RemoveApart ==
    ASSUME NEW t \in Seq(Info), NEW x,
           NEW k \in DOMAIN remove_container(t, x), NEW j \in DOMAIN remove_container(t, x),
           k # j
    PROVE  \E a, b \in DOMAIN t :
              a # b /\ remove_container(t, x)[k] = t[a] /\ remove_container(t, x)[j] = t[b]
<1>. DEFINE r == remove_container(t, x)
<1>1. CASE find_container(t, x) = {}
  BY <1>1 DEF remove_container
<1>2. CASE find_container(t, x) # {}
  <2>1. PICK g \in DOMAIN t : find_container(t, x) = {g}
    BY <1>2 DEF find_container
  <2>. DEFINE f(n) == IF n < g THEN n ELSE n + 1
  <2>2. r = [n \in 1..(Len(t) - 1) |-> IF n < g THEN t[n] ELSE t[n + 1]]
    BY <1>2, <2>1 DEF remove_container
  <2>3. DOMAIN r = 1..(Len(t) - 1) /\ DOMAIN t = 1..Len(t) /\ Len(t) \in Nat
    BY <2>2
  <2>4. f(k) \in DOMAIN t /\ f(j) \in DOMAIN t /\ f(k) # f(j)
    BY <2>1, <2>3
  <2>5. r[k] = t[f(k)] /\ r[j] = t[f(j)]
    BY <2>1, <2>2, <2>3
  <2>. QED
    BY <2>4, <2>5
<1>. QED
  BY <1>1, <1>2

(***************************************************************************)
(* What a step does to the table and to the file.                          *)
(***************************************************************************)

\* The entries keep their ids.
SameIds ==
    /\ DOMAIN containers' = DOMAIN containers
    /\ \A i \in DOMAIN containers : containers'[i].id = containers[i].id

\* A new container, under an id that no entry has.
NewEntry ==
    /\ pc = "add"
    /\ \E config \in {"no_command", "command"} :
        containers' = Append(containers, NewInfo(job.arg, config))

\* Create adds an entry at the end, or nothing.
LEMMA CreateTable ==
    ASSUME Create
    PROVE  UNCHANGED containers \/ NewEntry
  BY DEF Create, NewEntry, container_manager_create, create_cgroup_fails,
     fs_create_minimal_root, create_fails, create_entry, add_container

\* Every way in which a step can change the table.
LEMMA TableSteps ==
    ASSUME TypeInv, [Next]_vars
    PROVE  SameIds \/ containers' = <<>> \/ NewEntry \/ load_record
           \/ (finish_destroy /\ containers' = remove_container(containers, job.arg))
<1>. USE DEF TypeInv, TypeOK
<1>1. CASE UNCHANGED containers
  BY <1>1 DEF SameIds
<1>2. CASE container_manager_init \/ exit_process \/ crash
  BY <1>2 DEF container_manager_init, exit_process, crash, Exit
<1>3. CASE Create
  BY <1>1, <1>3, CreateTable
<1>4. CASE record_running
  <2>1. job.idx \in DOMAIN containers /\ job.pid \in Pids
    BY <1>4 DEF record_running, JobOK
  <2>2. /\ DOMAIN containers' = DOMAIN containers
        /\ containers'[job.idx].id = containers[job.idx].id
        /\ \A k \in DOMAIN containers \ {job.idx} : containers'[k] = containers[k]
    BY <1>4, <2>1, MarkRunningTable DEF record_running
  <2>. QED
    BY <2>2 DEF SameIds
<1>5. CASE reap_and_record
  BY <1>5, MarkStoppedTable DEF reap_and_record, SameIds
<1>6. CASE stop_all_done
  BY <1>1, <1>6, MarkStoppedTable DEF stop_all_done, SameIds
<1>7. CASE finish_destroy
  BY <1>7 DEF finish_destroy
<1>8. CASE Exec \/ menu_exit \/ signal_handler \/ stop_next \/ save_state \/ Environment
  BY <1>1, <1>8 DEF Exec, container_manager_exec, exec_return, menu_exit,
     signal_handler, BeginStopAll, stop_next, BeginStop, save_state, Environment, cmVars
<1>9. CASE \E arg \in Args : container_manager_stop(arg) \/ container_manager_destroy(arg)
  BY <1>1, <1>9 DEF container_manager_stop, container_manager_destroy, BeginStop
<1>10. CASE \/ \E arg \in Args : container_manager_start(arg) \/ start_cgroup_fails(arg)
            \/ \E p \in Pids : clone_process(p)
            \/ clone_fails \/ add_to_cgroup \/ foreground_wait
            \/ load_done \/ command_done \/ container_manager_cleanup \/ UNCHANGED vars
  BY <1>1, <1>10 DEF container_manager_start, start_cgroup_fails, clone_process,
     clone_fails, add_to_cgroup, foreground_wait, load_done, command_done,
     container_manager_cleanup, vars, cmVars
<1>. QED
  BY <1>2, <1>3, <1>4, <1>5, <1>6, <1>7, <1>8, <1>9, <1>10
     DEF Next, MainThread, Session, Launch, Halt

\* The steps that leave the file alone and do not begin or end a session.
LEMMA QuietSteps ==
    ASSUME \/ load_record \/ load_done \/ command_done \/ container_manager_cleanup
           \/ Create \/ Launch \/ Exec \/ Halt
    PROVE  /\ UNCHANGED <<stateFile, buffer, sessions>>
           /\ pc # "down" /\ pc' # "down"
           /\ pc' = "load" => load_record /\ UNCHANGED saving
<1>. USE DEF fileVars, BeginSave, sessionVars
<1>1. CASE load_record \/ load_done \/ command_done \/ container_manager_cleanup
  BY <1>1 DEF load_record, load_done, command_done, container_manager_cleanup
<1>2. CASE Create
  BY <1>2 DEF Create, container_manager_create, create_cgroup_fails, Creatable,
     fs_create_minimal_root, create_fails, CreateFails, create_entry,
     container_manager_run, AfterFailure
<1>3. CASE Launch
  BY <1>3 DEF Launch, container_manager_start, start_cgroup_fails, clone_process,
     clone_fails, add_to_cgroup, record_running, foreground_wait, cmVars, Returned
<1>4. CASE Exec
  BY <1>4 DEF Exec, container_manager_exec, exec_return, Returned
<1>5. CASE \E arg \in Args : container_manager_stop(arg) \/ container_manager_destroy(arg)
  BY <1>5 DEF container_manager_stop, container_manager_destroy, BeginStop
<1>6. CASE reap_and_record \/ finish_destroy
  BY <1>6 DEF reap_and_record, finish_destroy, AfterReap, AfterFailure, Returned
<1>7. CASE menu_exit \/ stop_next \/ stop_all_done
  BY <1>7 DEF menu_exit, BeginStopAll, stop_next, BeginStop, stop_all_done
<1>. QED
  BY <1>1, <1>2, <1>3, <1>4, <1>5, <1>6, <1>7 DEF Halt

\* The classes of steps.
LEMMA StepClasses ==
    ASSUME [Next]_vars
    PROVE  \/ UNCHANGED cmVars
           \/ save_state
           \/ signal_handler
           \/ crash
           \/ saving = "no" /\ (container_manager_init \/ exit_process)
           \/ /\ saving = "no"
              /\ \/ load_record \/ load_done \/ command_done \/ container_manager_cleanup
                 \/ Create \/ Launch \/ Exec \/ Halt
  BY DEF Next, MainThread, Session, Environment, vars

\* With nothing left to write, exit() leaves the file alone.
LEMMA FlushedNothing ==
    ASSUME TypeInv, buffer = <<>>
    PROVE  Flushed = {stateFile}
<1>. DEFINE part(n, m) == SubSeq(buffer, 1, n) \o SubSeq(stateFile, m, Len(stateFile))
<1>1. Flushed = UNION {{part(n, m) : m \in 1..(n + 1)} : n \in 0..Len(buffer)}
  BY DEF Flushed
<1>2. part(0, 1) = stateFile
  <2>1. stateFile \in Seq(FileRecord) /\ Len(stateFile) \in Nat
    BY DEF TypeInv, TypeOK
  <2>2. SubSeq(stateFile, 1, Len(stateFile)) = stateFile /\ SubSeq(buffer, 1, 0) = <<>>
    BY <2>1
  <2>. QED
    BY <2>1, <2>2
<1>. HIDE DEF part
<1>3. 0..Len(buffer) = {0} /\ 1..(0 + 1) = {1}
  OBVIOUS
<1>. QED
  BY <1>1, <1>2, <1>3

\* The file begins like the table, and ends somewhere.
TablePart ==
    \E n \in 0..Len(containers) :
        /\ DOMAIN stateFile' = 1..n
        /\ \A k \in 1..n : stateFile'[k].id = containers[k].id

\* A part of what is to be saved.
LEMMA SavedPart ==
    ASSUME TypeInv, NEW n \in 0..Len(containers), stateFile' = SubSeq(ToFile(containers), 1, n)
    PROVE  TablePart
<1>. USE DEF TypeInv, TypeOK
<1>1. ToFile(containers) \in Seq(FileRecord) /\ Len(ToFile(containers)) = Len(containers)
  BY ToFileType
<1>2. \A k \in DOMAIN containers : ToFile(containers)[k].id = containers[k].id
  BY DEF ToFile
<1>3. DOMAIN stateFile' = 1..n /\ \A k \in 1..n : stateFile'[k] = ToFile(containers)[k]
  BY <1>1
<1>4. \A k \in 1..n : k \in DOMAIN containers
  OBVIOUS
<1>. QED
  BY <1>2, <1>3, <1>4 DEF TablePart

\* Every way in which a step can change the file; nothing is saved while
\* load_state reads it.
LEMMA FileSteps ==
    ASSUME TypeInv, SavesInCalls, [Next]_vars
    PROVE  /\ UNCHANGED stateFile \/ TablePart \/ "save" \in SignalAt
           /\ pc' = "load" \/ pc = "down" => UNCHANGED stateFile
<1>. USE DEF TypeInv, TypeOK
<1>1. CASE UNCHANGED cmVars
  BY <1>1 DEF cmVars, fileVars
<1>2. CASE save_state
  <2>1. ASSUME stateFile' = ToFile(containers)
        PROVE  TablePart
    <3>1. DOMAIN stateFile' = 1..Len(containers)
          /\ \A k \in 1..Len(containers) : stateFile'[k].id = containers[k].id
      BY <2>1 DEF ToFile
    <3>2. Len(containers) \in 0..Len(containers)
      OBVIOUS
    <3>. QED
      BY <3>1, <3>2 DEF TablePart
  <2>. QED
    BY <1>2, <2>1 DEF save_state, SavesInCalls
<1>3. CASE signal_handler
  BY <1>3 DEF signal_handler, HandlerInstalled, At, BeginStopAll
<1>4. CASE crash
  <2>1. stateFile' = stateFile \/
        \E n \in 0..Len(containers) : stateFile' = SubSeq(ToFile(containers), 1, n)
    BY <1>4 DEF crash, Unfinished
  <2>. QED
    BY <1>4, <2>1, SavedPart DEF crash, Exit
<1>5. CASE container_manager_init
  BY <1>5 DEF container_manager_init, fileVars
<1>6. CASE exit_process
  BY <1>6, FlushedNothing DEF exit_process, Exit, SavesInCalls
<1>. QED
  BY <1>1, <1>2, <1>3, <1>4, <1>5, <1>6, QuietSteps, StepClasses

\* How a step begins, continues and ends the life of a manager process.
LEMMA SessionSteps ==
    ASSUME SavesInCalls, [Next]_vars
    PROVE  \/ container_manager_init
           \/ /\ UNCHANGED sessions
              /\ pc = "down" => UNCHANGED cmVars
              /\ pc' = "load" => load_record \/ UNCHANGED cmVars
<1>1. CASE UNCHANGED cmVars
  BY <1>1 DEF cmVars, sessionVars
<1>2. CASE save_state
  BY <1>2 DEF save_state, SavesInCalls, sessionVars
<1>3. CASE signal_handler
  BY <1>3 DEF signal_handler, HandlerInstalled, BeginStopAll, sessionVars
<1>4. CASE crash \/ exit_process
  BY <1>4 DEF crash, exit_process, Exit, sessionVars
<1>. QED
  BY <1>1, <1>2, <1>3, <1>4, QuietSteps, StepClasses

\* A save begins in a call and ends before the call goes on.
LEMMA SavesStep ==
    ASSUME SavesInCalls, [Next]_vars
    PROVE  SavesInCalls'
<1>1. CASE UNCHANGED cmVars
  BY <1>1 DEF cmVars, fileVars, SavesInCalls
<1>2. CASE save_state
  BY <1>2 DEF save_state, SavesInCalls
<1>3. CASE signal_handler
  BY <1>3 DEF signal_handler, At, SavesInCalls
<1>4. CASE crash \/ exit_process
  BY <1>4 DEF crash, exit_process, Exit, SavesInCalls
<1>5. CASE saving = "no" /\ container_manager_init
  BY <1>5 DEF container_manager_init, fileVars, SavesInCalls
<1>. QED
  BY <1>1, <1>2, <1>3, <1>4, <1>5, QuietSteps, StepClasses DEF SavesInCalls

\* Nothing but create itself gets to its points.
LEMMA NotInCreate ==
    ASSUME [Next]_vars, pc' \in {"root", "add"}
    PROVE  Create \/ UNCHANGED <<pc, job>>
<1>1. CASE UNCHANGED cmVars
  BY <1>1 DEF cmVars
<1>2. CASE save_state \/ signal_handler \/ crash \/ container_manager_init \/ exit_process
  BY <1>2 DEF save_state, signal_handler, BeginStopAll, crash, container_manager_init,
     exit_process, Exit
<1>3. CASE load_record \/ load_done \/ command_done \/ container_manager_cleanup
  BY <1>3 DEF load_record, load_done, command_done, container_manager_cleanup
<1>4. CASE Launch
  BY <1>4 DEF Launch, container_manager_start, start_cgroup_fails, clone_process,
     clone_fails, add_to_cgroup, record_running, foreground_wait, cmVars, Returned
<1>5. CASE Exec
  BY <1>5 DEF Exec, container_manager_exec, exec_return, Returned
<1>6. CASE Halt
  BY <1>6 DEF Halt, container_manager_stop, container_manager_destroy, BeginStop,
     reap_and_record, finish_destroy, AfterReap, AfterFailure, Returned,
     menu_exit, BeginStopAll, stop_next, stop_all_done
<1>. QED
  BY <1>1, <1>2, <1>3, <1>4, <1>5, <1>6, StepClasses

\* What ToFile keeps of the table.
LEMMA ToFileEntries ==
    ASSUME NEW t \in Seq(Info)
    PROVE  /\ DOMAIN ToFile(t) = DOMAIN t
           /\ \A i \in DOMAIN t : /\ ToFile(t)[i].id = t[i].id
                                  /\ ToFile(t)[i].pid = t[i].pid
                                  /\ ToFile(t)[i].state = t[i].state
  BY DEF ToFile

(***************************************************************************)
(* Ids are unique as long as load_state renames nothing.                   *)
(***************************************************************************)

\* The file is empty until the first manager has loaded it.
LEMMA FirstFileStep ==
    ASSUME TypeInv, FirstFile, [Next]_vars
    PROVE  FirstFile'
<1>. USE ConstantsAssumption DEF TypeInv, TypeOK
<1>0. SavesInCalls /\ SavesInCalls'
  BY SavesStep DEF FirstFile
<1>1. CASE container_manager_init
  BY <1>0, <1>1 DEF container_manager_init, fileVars, FirstFile
<1>2. CASE UNCHANGED cmVars
  BY <1>0, <1>2 DEF cmVars, fileVars, sessionVars, FirstFile
<1>3. CASE load_record
  BY <1>0, <1>3 DEF load_record, fileVars, sessionVars, FirstFile
<1>. QED
  BY <1>0, <1>1, <1>2, <1>3, SessionSteps, FileSteps DEF FirstFile

\* A generated id is no name.
LEMMA GeneratedNumeric ==
    ASSUME NEW t \in Seq(Info), NEW n \in generate_container_id(t)
    PROVE  n \in Nat /\ IsNumeric(n)
<1>1. NumericIds(t) \subseteq Nat
  <2>1. \A i \in DOMAIN t : t[i].id \in Ids
    BY TableEntry, EntryType
  <2>. QED
    BY <2>1 DEF NumericIds, IsNumeric, Ids
<1>. QED
  BY <1>1, NamesAssumption DEF generate_container_id, IsNumeric

\* Where there is a record to load, an earlier manager has saved it.
LEMMA LoadKeepsIds ==
    ASSUME TypeInv, FirstFile, NoRenaming, load_record
    PROVE  IdsKept
<1>. USE DEF TypeInv, TypeOK
<1>1. job.idx \in DOMAIN stateFile
  BY DEF load_record, JobOK, Jobs
<1>2. sessions >= 1 /\ ~(sessions = 1)
  BY <1>1 DEF load_record, FirstFile
<1>. QED
  BY <1>2, ConstantsAssumption DEF NoRenaming, FirstFile

\* The id under which load_state adds a record is the one in the record.
LEMMA LoadedId ==
    ASSUME TypeInv, FirstFile, NumericOnly, NoRenaming, load_record
    PROVE  \/ UNCHANGED containers
           \/ \E info \in Info : /\ containers' = Append(containers, info)
                                 /\ info.id = stateFile[job.idx].id
<1>. USE DEF TypeInv, TypeOK
<1>1. job.idx \in DOMAIN stateFile
  BY DEF load_record, JobOK, Jobs
<1>3. IdsKept
  BY LoadKeepsIds
<1>4. IsNumeric(stateFile[job.idx].id)
  BY <1>1, <1>3 DEF NumericOnly
<1>5. stateFile[job.idx] \in FileRecord
  BY <1>1
<1>6. ASSUME NEW info \in Loaded(containers, stateFile[job.idx])
      PROVE  info \in Info /\ info.id = stateFile[job.idx].id
  <2>1. info = [id |-> stateFile[job.idx].id, pid |-> stateFile[job.idx].pid,
                state |-> stateFile[job.idx].state, saved_config |-> "null"]
    BY <1>4 DEF Loaded
  <2>2. \A r \in FileRecord :
          [id |-> r.id, pid |-> r.pid, state |-> r.state, saved_config |-> "null"] \in Info
    BY DEF FileRecord, Info, SavedConfigs
  <2>. QED
    BY <1>5, <2>1, <2>2
<1>. QED
  BY <1>6 DEF load_record, add_container

\* An entry with a new id at the end.
LEMMA AppendUnique ==
    ASSUME TypeInv, UniqueIds, NEW info \in Info, containers' = Append(containers, info),
           \A i \in DOMAIN containers : containers[i].id # info.id
    PROVE  UniqueIds'
<1>1. /\ DOMAIN containers' = 1..(Len(containers) + 1)
      /\ DOMAIN containers = 1..Len(containers) /\ Len(containers) \in Nat
      /\ \A i \in DOMAIN containers : containers'[i] = containers[i]
      /\ containers'[Len(containers) + 1] = info
  BY DEF TypeInv, TypeOK
<1>2. \A i \in DOMAIN containers' : i \in DOMAIN containers \/ i = Len(containers) + 1
  BY <1>1
<1>. QED
  BY <1>1, <1>2 DEF UniqueIds

\* The entry of a new container.
LEMMA NewInfoType ==
    ASSUME NEW id \in Ids, NEW config \in {"no_command", "command"}
    PROVE  NewInfo(id, config) \in Info /\ NewInfo(id, config).id = id
  BY DEF NewInfo, Info, States, SavedConfigs

\* Every step but those of load_state keeps the ids of the table apart.
LEMMA UniqueOutsideLoad ==
    ASSUME TypeInv, TypeInv', UniqueIds, [Next]_vars, ~load_record
    PROVE  UniqueIds'
<1>. USE DEF TypeInv, TypeOK
<1>1. CASE SameIds
  BY <1>1 DEF SameIds, UniqueIds
<1>2. CASE containers' = <<>>
  BY <1>2 DEF UniqueIds
<1>3. CASE NewEntry
  <2>. PICK config \in {"no_command", "command"} :
          containers' = Append(containers, NewInfo(job.arg, config))
    BY <1>3 DEF NewEntry
  <2>1. job.arg \in Ids /\ find_container(containers, job.arg) = {}
    BY <1>3 DEF NewEntry, JobOK
  <2>2. \A i \in DOMAIN containers : containers[i].id # job.arg
    BY <2>1, FindComplete
  <2>. QED
    BY <2>1, <2>2, NewInfoType, AppendUnique
<1>4. CASE containers' = remove_container(containers, job.arg)
  <2>1. \A k, j \in DOMAIN containers' : k # j =>
          \E a, b \in DOMAIN containers :
              a # b /\ containers'[k] = containers[a] /\ containers'[j] = containers[b]
    BY <1>4, RemoveApart
  <2>. QED
    BY <2>1 DEF UniqueIds
<1>. QED
  BY <1>1, <1>2, <1>3, <1>4, TableSteps

\* No step brings a name into the table unless the user gives one.
LEMMA NumericTableStep ==
    ASSUME TypeInv, TypeInv', UniqueInv, NoRenaming, [Next]_vars, IdsKept
    PROVE  \A i \in DOMAIN containers' : IsNumeric(containers'[i].id)
<1>. USE DEF TypeInv, TypeOK, UniqueInv
<1>0. \A i \in DOMAIN containers : IsNumeric(containers[i].id)
  BY DEF NumericOnly
<1>1. ASSUME NEW info \in Info, containers' = Append(containers, info), IsNumeric(info.id)
      PROVE  \A i \in DOMAIN containers' : IsNumeric(containers'[i].id)
  <2>1. \A i \in DOMAIN containers' :
          (i \in DOMAIN containers /\ containers'[i] = containers[i]) \/ containers'[i] = info
    BY <1>1
  <2>. QED
    BY <1>0, <1>1, <2>1
<1>2. CASE SameIds
  BY <1>0, <1>2 DEF SameIds
<1>3. CASE NewEntry
  <2>. PICK config \in {"no_command", "command"} :
          containers' = Append(containers, NewInfo(job.arg, config))
    BY <1>3 DEF NewEntry
  <2>1. job.arg \in Ids /\ IsNumeric(job.arg)
    BY <1>3 DEF NewEntry, JobOK, NumericOnly
  <2>. QED
    BY <1>1, <2>1, NewInfoType
<1>4. CASE load_record
  <2>1. job.idx \in DOMAIN stateFile
    BY <1>4 DEF load_record, JobOK, Jobs
  <2>2. IsNumeric(stateFile[job.idx].id)
    BY <2>1 DEF NumericOnly
  <2>. QED
    BY <1>0, <1>1, <1>4, <2>2, LoadedId
<1>5. CASE containers' = remove_container(containers, job.arg)
  <2>1. \A k \in DOMAIN containers' : \E i \in DOMAIN containers : containers'[k] = containers[i]
    BY <1>5, RemoveTable
  <2>. QED
    BY <1>0, <2>1
<1>. QED
  BY <1>2, <1>3, <1>4, <1>5, TableSteps

\* Nor does create take one up.
LEMMA NumericArgStep ==
    ASSUME TypeInv, NumericOnly, IdsKept, [Next]_vars, pc' \in {"root", "add"}
    PROVE  IsNumeric(job'.arg)
<1>1. CASE UNCHANGED <<pc, job>>
  BY <1>1 DEF NumericOnly
<1>2. CASE Create
  <2>1. ASSUME NEW op, NEW id \in FreshIds, container_manager_create(op, id)
        PROVE  IsNumeric(job'.arg)
    <3>1. IsNumeric(id)
      BY GeneratedNumeric DEF FreshIds, IsNumeric, IdsKept, TypeInv, TypeOK
    <3>. QED
      BY <2>1, <3>1 DEF container_manager_create, Job
  <2>2. CASE \E minimal_fs \in MinimalFs : fs_create_minimal_root(minimal_fs)
    BY <2>2 DEF fs_create_minimal_root, NumericOnly
  <2>. QED
    BY <1>2, <2>1, <2>2 DEF Create, create_cgroup_fails, create_fails, create_entry,
       container_manager_run, AfterFailure
<1>. QED
  BY <1>1, <1>2, NotInCreate

\* Every step keeps the ids of the table apart.
LEMMA UniqueTableStep ==
    ASSUME TypeInv, TypeInv', UniqueInv, NoRenaming, [Next]_vars
    PROVE  UniqueIds'
<1>. USE DEF TypeInv, TypeOK, UniqueInv
<1>1. CASE load_record
  <2>1. job.idx \in DOMAIN stateFile
    BY <1>1 DEF load_record, JobOK, Jobs
  <2>2. \A i \in DOMAIN containers : containers[i].id # stateFile[job.idx].id
    <3>. SUFFICES ASSUME NEW i \in DOMAIN containers,
                         containers[i].id = stateFile[job.idx].id
                  PROVE  FALSE
      OBVIOUS
    <3>1. PICK k \in DOMAIN stateFile : k < job.idx /\ stateFile[k].id = containers[i].id
      BY <1>1 DEF load_record, LoadedFromFile
    <3>2. k = job.idx
      BY <1>1, <2>1, <3>1, LoadKeepsIds DEF FileIdsUnique
    <3>. QED
      BY <3>1, <3>2
  <2>3. CASE UNCHANGED containers
    BY <2>3 DEF UniqueIds
  <2>. QED
    BY <1>1, <2>2, <2>3, LoadedId, AppendUnique
<1>. QED
  BY <1>1, UniqueOutsideLoad

\* Every step preserves the invariant behind UniqueIds.
LEMMA UniqueStep ==
    ASSUME TypeInv, TypeInv', UniqueInv, NoRenaming, [Next]_vars
    PROVE  UniqueInv'
<1>. USE DEF TypeInv, TypeOK, UniqueInv
<1>1. FirstFile'
  BY FirstFileStep
<1>2. FileIdsUnique' /\ (IdsKept => \A k \in DOMAIN stateFile' : IsNumeric(stateFile'[k].id))
  <2>1. CASE UNCHANGED stateFile
    BY <2>1 DEF FileIdsUnique, NumericOnly
  <2>2. CASE TablePart
    <3>. PICK n \in 0..Len(containers) :
            DOMAIN stateFile' = 1..n /\ \A k \in 1..n : stateFile'[k].id = containers[k].id
      BY <2>2 DEF TablePart
    <3>1. \A k \in 1..n : k \in DOMAIN containers
      OBVIOUS
    <3>. QED
      BY <3>1 DEF FileIdsUnique, NumericOnly, UniqueIds, IsNumeric
  <2>3. CASE "save" \in SignalAt
    BY <2>3 DEF FileIdsUnique, IdsKept
  <2>. QED
    BY <2>1, <2>2, <2>3, FileSteps DEF FirstFile
<1>3. NumericOnly'
  BY <1>2, NumericTableStep, NumericArgStep DEF NumericOnly
<1>4. LoadedFromFile'
  <2>1. CASE container_manager_init
    BY <2>1 DEF container_manager_init, LoadedFromFile
  <2>2. CASE UNCHANGED cmVars
    BY <2>2 DEF cmVars, fileVars, LoadedFromFile
  <2>3. CASE load_record
    <3>1. job.idx \in DOMAIN stateFile /\ UNCHANGED stateFile /\ job'.idx = job.idx + 1
          /\ pc = "load" /\ job.idx \in Nat
      BY <2>3, NextIdx DEF load_record, fileVars, JobOK, Jobs
    <3>2. \A i \in DOMAIN containers : \E k \in DOMAIN stateFile :
            k < job.idx + 1 /\ stateFile[k].id = containers[i].id
      BY <3>1 DEF LoadedFromFile
    <3>3. CASE UNCHANGED containers
      BY <3>1, <3>2, <3>3 DEF LoadedFromFile
    <3>4. ASSUME NEW info \in Info, containers' = Append(containers, info),
                 info.id = stateFile[job.idx].id
          PROVE  LoadedFromFile'
      <4>1. \A i \in DOMAIN containers' :
              \/ i \in DOMAIN containers /\ containers'[i] = containers[i]
              \/ containers'[i] = info
        BY <3>4
      <4>2. job.idx < job.idx + 1
        BY <3>1
      <4>3. ASSUME NEW i \in DOMAIN containers'
            PROVE  \E k \in DOMAIN stateFile :
                       k < job.idx + 1 /\ stateFile[k].id = containers'[i].id
        BY <3>1, <3>2, <3>4, <4>1, <4>2
      <4>. QED
        BY <3>1, <4>3 DEF LoadedFromFile
    <3>. QED
      BY <2>3, <3>3, <3>4, LoadedId
  <2>. QED
    BY <2>1, <2>2, <2>3, SessionSteps DEF LoadedFromFile, FirstFile
<1>. QED
  BY <1>1, <1>2, <1>3, <1>4, UniqueTableStep

\* The table is empty and so is the file.
LEMMA UniqueInit ==
    ASSUME Init
    PROVE  UniqueInv
  BY ConstantsAssumption
     DEF Init, UniqueInv, SavesInCalls, FirstFile, NumericOnly, UniqueIds, FileIdsUnique, LoadedFromFile

\* As long as no container has a name, which load_state would replace by a number,
\* and no signal leaves half of a save to be written out at exit, or only one
\* manager is ever started, no two entries have the same id, whatever else
\* fails, crashes (also inside a save) or is lost on the way.
THEOREM IdsUnique ==
    ASSUME (NewIds \cap Names = {} /\ "save" \notin SignalAt) \/ MaxSessions <= 1
    PROVE  Spec => []UniqueIds
<1>1. Init => TypeInv /\ UniqueInv
  BY TypeInit, UniqueInit
<1>2. TypeInv /\ UniqueInv /\ [Next]_vars => TypeInv' /\ UniqueInv'
  BY TypeStep, UniqueStep DEF NoRenaming, IdsKept
<1>3. UniqueInv => UniqueIds
  BY DEF UniqueInv
<1>. QED
  BY <1>1, <1>2, <1>3, PTL DEF Spec

(***************************************************************************)
(* The loop that stops everything.                                         *)
(***************************************************************************)

\* Steps that neither are in the loop nor enter it.
LEMMA OutsideLoop ==
    ASSUME \/ Session \/ Create \/ Launch \/ Exec \/ finish_destroy \/ stop_all_done
           \/ save_state \/ crash
    PROVE  pc' \notin {"stopping", "reap"} \/ (pc' = pc /\ UNCHANGED <<containers, job>>)
<1>1. CASE Session
  BY <1>1 DEF Session, container_manager_init, load_record, load_done, command_done,
     container_manager_cleanup, exit_process, Exit
<1>2. CASE Create
  BY <1>2 DEF Create, container_manager_create, create_cgroup_fails,
     fs_create_minimal_root, create_fails, create_entry, container_manager_run, AfterFailure
<1>3. CASE Launch
  BY <1>3 DEF Launch, container_manager_start, start_cgroup_fails, clone_process,
     clone_fails, add_to_cgroup, record_running, foreground_wait, cmVars, Returned
<1>4. CASE Exec
  BY <1>4 DEF Exec, container_manager_exec, exec_return, Returned
<1>5. CASE finish_destroy \/ stop_all_done
  BY <1>5 DEF finish_destroy, stop_all_done, AfterFailure, Returned
<1>6. CASE save_state \/ crash
  BY <1>6 DEF save_state, crash, Exit
<1>. QED
  BY <1>1, <1>2, <1>3, <1>4, <1>5, <1>6

\* Every step preserves StoppedSoFar: the loop passes an entry only when it does
\* not run, because its id leads to no other entry.
LEMMA StoppedStep ==
    ASSUME TypeInv, UniqueIds, StoppedSoFar, [Next]_vars
    PROVE  StoppedSoFar'
<1>. USE DEF TypeInv, TypeOK
<1>1. CASE UNCHANGED <<containers, pc, job>>
  BY <1>1 DEF StoppedSoFar
<1>2. CASE \/ Session \/ Create \/ Launch \/ Exec \/ finish_destroy \/ stop_all_done
           \/ save_state \/ crash
  BY <1>1, <1>2, OutsideLoop DEF StoppedSoFar
<1>3. ASSUME NEW op, NEW i, NEW arg, BeginStop(op, i, arg)
      PROVE  pc' = "reap" /\ job'.op = op /\ job'.idx = i /\ UNCHANGED containers
  BY <1>3 DEF BeginStop, Job
<1>4. CASE \E arg \in Args : container_manager_stop(arg) \/ container_manager_destroy(arg)
  <2>1. CASE \E i, arg : BeginStop("stop", i, arg) \/ BeginStop("destroy", i, arg)
    BY <1>3, <2>1 DEF StoppedSoFar
  <2>2. CASE pc' = "remove"
    BY <2>2 DEF StoppedSoFar
  <2>. QED
    BY <1>4, <2>1, <2>2 DEF container_manager_stop, container_manager_destroy
<1>5. CASE menu_exit \/ signal_handler
  <2>1. job'.idx = 1 /\ UNCHANGED containers
    BY <1>5 DEF menu_exit, signal_handler, BeginStopAll, Job
  <2>. QED
    BY <2>1 DEF StoppedSoFar
<1>6. CASE stop_next
  <2>1. job.idx \in DOMAIN containers /\ pc = "stopping"
    BY <1>6 DEF stop_next, JobOK, Jobs
  <2>2. CASE BeginStop(job.op, job.idx, job.arg)
    BY <1>3, <2>1, <2>2 DEF StoppedSoFar
  <2>3. CASE ~BeginStop(job.op, job.idx, job.arg)
    <3>1. job.idx \in find_container(containers, containers[job.idx].id)
      BY <2>1 DEF find_container, UniqueIds
    <3>2. containers[job.idx].state # "RUNNING" /\ UNCHANGED containers
          /\ job' = [job EXCEPT !.idx = @ + 1]
      BY <1>6, <2>3, <3>1 DEF stop_next
    <3>3. job'.idx = job.idx + 1 /\ job.idx \in Nat
      BY <3>2, NextIdx
    <3>. QED
      BY <2>1, <3>2, <3>3 DEF StoppedSoFar
  <2>. QED
    BY <2>2, <2>3
<1>7. CASE reap_and_record
  <2>1. CASE job.op \in {"stop", "destroy"}
    BY <1>7, <2>1 DEF reap_and_record, AfterReap, Returned, StoppedSoFar
  <2>2. CASE job.op \notin {"stop", "destroy"}
    <3>1. job'.idx = job.idx + 1 /\ job.idx \in Nat /\ job.op \in {"exit", "signal"}
          /\ pc = "reap"
      BY <1>7, <2>2, NextIdx DEF reap_and_record, JobOK
    <3>2. /\ DOMAIN containers' = DOMAIN containers
          /\ \A i \in DOMAIN containers :
               containers'[i].state = IF i = job.idx THEN "STOPPED" ELSE containers[i].state
      BY <1>7, MarkStoppedTable DEF reap_and_record
    <3>. QED
      BY <3>1, <3>2 DEF StoppedSoFar
  <2>. QED
    BY <2>1, <2>2
<1>. QED
  BY <1>1, <1>2, <1>4, <1>5, <1>6, <1>7 DEF Next, MainThread, Halt, Environment,
     vars, cmVars

\* When the signal handler or the menu's exit has been through the table, no child
\* is alive but one that the interrupted call had not yet recorded, as long as
\* ids are unique for the reasons of IdsUnique (two entries with one id would
\* hide the second one from the loop).
THEOREM EverythingStopped ==
    ASSUME (NewIds \cap Names = {} /\ "save" \notin SignalAt) \/ MaxSessions <= 1
    PROVE  Spec => StopAllComplete
<1>. DEFINE Inv == TypeInv /\ TrackingInv /\ UniqueInv /\ StoppedSoFar
<1>1. Init => Inv
  BY TypeInit, TrackingInit, UniqueInit DEF Init, StoppedSoFar
<1>2. Inv /\ [Next]_vars => Inv'
  BY TypeStep, TrackingStep, UniqueStep, StoppedStep DEF NoRenaming, IdsKept, UniqueInv
<1>3. ASSUME Inv, stop_all_done
      PROVE  \A p \in children : procs'[p] = "alive" => p = job.pid
  <2>. SUFFICES ASSUME NEW p \in children, procs'[p] = "alive"
                PROVE  p = job.pid
    OBVIOUS
  <2>. USE <1>3 DEF TypeInv, TypeOK
  <2>1. p \in Pids /\ procs[p] = "alive"
    BY KillFewer DEF stop_all_done, KernelTypeOK
  <2>2. \A i \in DOMAIN containers : containers[i].state # "RUNNING"
    <3>1. pc = "stopping" /\ job.idx > Len(containers) /\ job.idx \in Nat
      BY DEF stop_all_done, Jobs
    <3>. QED
      BY <3>1 DEF StoppedSoFar
  <2>. QED
    BY <2>1, <2>2 DEF TrackingInv, AliveChildTracked, InTable, Running
<1>4. Inv /\ [Next]_vars =>
        [stop_all_done => \A p \in children : procs'[p] = "alive" => p = job.pid]_vars
  BY <1>3
<1>. QED
  BY <1>1, <1>2, <1>4, PTL DEF Spec, StopAllComplete

(***************************************************************************)
(* A new manager finds what a killed one has left.                         *)
(***************************************************************************)

\* A table that is about to be saved.
LEMMA SavingSynced ==
    ASSUME BeginSave
    PROVE  Synced'
  BY DEF BeginSave, Synced

\* A table and a file that stay as they are.
LEMMA SameSynced ==
    ASSUME Synced, UNCHANGED containers, UNCHANGED fileVars
    PROVE  Synced'
  BY DEF Synced, Running, InFile, fileVars

\* Steps outside load_state and the launch of a process that bring nothing to life
\* and keep the RUNNING entries of what lives.
LEMMA FoundAgain ==
    ASSUME AliveFound,
           pc \notin {"down", "load", "attach", "commit", "exec"},
           pc' \notin {"down", "load", "attach", "commit", "exec"},
           \A p \in Pids : procs'[p] = "alive" =>
               procs[p] = "alive" /\ (InTable(p) => InTable(p)')
    PROVE  AliveFound'
  BY DEF AliveFound

\* A process that ends while the file holds what the table does loses nothing.
LEMMA RecoveryExit ==
    ASSUME TypeInv, RecoveryInv, Exit, UNCHANGED stateFile, saving = "no",
           pc \notin {"attach", "commit", "exec"}
    PROVE  Synced' /\ AliveFound'
<1>1. pc' = "down" /\ containers' = <<>>
      /\ \A p \in Pids : procs'[p] = "alive" => procs[p] = "alive"
  BY DEF Exit, ManagerDies
<1>2. ASSUME NEW p \in Pids, procs'[p] = "alive"
      PROVE  InFile(p)'
  <2>1. InFile(p) \/ InTable(p)
    BY <1>1, <1>2 DEF RecoveryInv, AliveFound
  <2>2. InFile(p)
    BY <2>1 DEF InTable, RecoveryInv, Synced
  <2>. QED
    BY <2>2 DEF InFile
<1>. QED
  BY <1>1, <1>2 DEF AliveFound, Synced

\* Loading and exiting lose no live process.
LEMMA RecoverySession ==
    ASSUME TypeInv, TypeInv', RecoveryInv, Session, saving = "no",
           "realloc" \notin Faults, "save" \notin SignalAt
    PROVE  Synced' /\ AliveFound'
<1>. USE DEF TypeInv, TypeOK, RecoveryInv
<1>1. CASE container_manager_init
  <2>1. pc' = "load" /\ job'.idx = 1 /\ containers' = <<>> /\ UNCHANGED <<procs, stateFile>>
        /\ pc = "down"
    BY <1>1 DEF container_manager_init, kernelVars, fileVars, Job
  <2>2. ASSUME NEW p \in Pids, procs'[p] = "alive"
        PROVE  InFile(p)' /\ ToRead(p)'
    BY <2>1, <2>2 DEF AliveFound, InFile, ToRead
  <2>. QED
    BY <2>1, <2>2 DEF AliveFound, Synced
<1>2. CASE load_record
  <2>. DEFINE r == stateFile[job.idx]
  <2>1. pc = "load" /\ pc' = "load" /\ job'.idx = job.idx + 1 /\ job.idx \in DOMAIN stateFile
        /\ UNCHANGED <<procs, stateFile>>
    BY <1>2, NextIdx DEF load_record, JobOK, Jobs, kernelVars, fileVars
  <2>2. \/ ~Loadable(r) /\ UNCHANGED containers
        \/ \E info \in Loaded(containers, r) : containers' = Append(containers, info)
    BY <1>2 DEF load_record, add_container
  <2>3. \A info \in Loaded(containers, r) : info.pid = r.pid /\ info.state = r.state
    BY DEF Loaded
  <2>4. \A i \in DOMAIN containers : i \in DOMAIN containers' /\ containers'[i] = containers[i]
    BY <2>2
  <2>5. \A i \in DOMAIN containers' :
          \/ i \in DOMAIN containers /\ containers'[i] = containers[i]
          \/ containers'[i].pid = r.pid /\ containers'[i].state = r.state
    <3>1. ASSUME NEW info \in Loaded(containers, r), containers' = Append(containers, info),
                 NEW i \in DOMAIN containers'
          PROVE  \/ i \in DOMAIN containers /\ containers'[i] = containers[i]
                 \/ containers'[i] = info
      BY <3>1
    <3>. QED
      BY <2>2, <2>3, <3>1
  <2>6. Loadable(r) => \E i \in DOMAIN containers' :
                          containers'[i].pid = r.pid /\ containers'[i].state = r.state
    <3>1. ASSUME NEW info \in Loaded(containers, r), containers' = Append(containers, info)
          PROVE  /\ Len(containers) + 1 \in DOMAIN containers'
                 /\ containers'[Len(containers) + 1].pid = r.pid
                 /\ containers'[Len(containers) + 1].state = r.state
      BY <2>3, <3>1
    <3>. QED
      BY <2>2, <3>1
  <2>7. Synced'
    <3>. SUFFICES ASSUME saving' = "no", NEW i \in DOMAIN containers', Running(i)'
                  PROVE  InFile(containers[i].pid)'
      BY DEF Synced
    <3>1. CASE i \in DOMAIN containers /\ containers'[i] = containers[i]
      <4>1. saving = "no" /\ Running(i)
        BY <1>2, <3>1 DEF load_record, fileVars, Running
      <4>. QED
        BY <2>1, <3>1, <4>1 DEF Synced, InFile
    <3>2. CASE containers'[i].pid = r.pid /\ containers'[i].state = r.state
      BY <2>1, <3>2 DEF Running, InFile
    <3>. QED
      BY <2>5, <3>1, <3>2
  <2>8. ASSUME NEW p \in Pids, procs'[p] = "alive"
        PROVE  InFile(p)' /\ (InTable(p)' \/ ToRead(p)')
    <3>1. InFile(p) /\ (InTable(p) \/ ToRead(p)) /\ procs[p] = "alive"
      BY <2>1, <2>8 DEF AliveFound
    <3>2. InFile(p)'
      BY <2>1, <3>1 DEF InFile
    <3>3. InTable(p) => InTable(p)'
      BY <2>4 DEF InTable, Running
    <3>4. ASSUME NEW k \in DOMAIN stateFile, k >= job.idx, stateFile[k].state = "RUNNING",
                 stateFile[k].pid = p
          PROVE  InTable(p)' \/ ToRead(p)'
      <4>1. CASE k = job.idx
        <5>1. Loadable(r)
          BY <3>1, <3>4, <4>1 DEF Loadable, PidAlive
        <5>. QED
          BY <2>6, <3>4, <4>1, <5>1 DEF InTable, Running
      <4>2. CASE k # job.idx
        <5>1. k >= job.idx + 1
          BY <2>1, <3>4, <4>2
        <5>. QED
          BY <2>1, <3>4, <5>1 DEF ToRead
      <4>. QED
        BY <4>1, <4>2
    <3>. QED
      BY <3>1, <3>2, <3>3, <3>4 DEF ToRead
  <2>. QED
    BY <2>1, <2>7, <2>8 DEF AliveFound
<1>3. CASE load_done
  <2>1. pc = "load" /\ pc' = "idle" /\ UNCHANGED <<procs, containers>> /\ job.idx > Len(stateFile)
    BY <1>3 DEF load_done, kernelVars
  <2>2. Synced'
    <3>1. CASE containers = <<>>
      BY <2>1, <3>1 DEF Synced
    <3>2. CASE BeginSave
      BY <3>2, SavingSynced
    <3>. QED
      BY <1>3, <3>1, <3>2 DEF load_done
  <2>3. ASSUME NEW p \in Pids, procs'[p] = "alive"
        PROVE  InTable(p)'
    <3>1. InTable(p) \/ ToRead(p)
      BY <2>1, <2>3 DEF AliveFound
    <3>2. ~ToRead(p)
      BY <2>1 DEF ToRead, Jobs
    <3>. QED
      BY <2>1, <3>1, <3>2 DEF InTable, Running
  <2>. QED
    BY <2>1, <2>2, <2>3 DEF AliveFound
<1>4. CASE command_done
  BY <1>4, SameSynced, FoundAgain DEF command_done, kernelVars, InTable, Running
<1>5. CASE container_manager_cleanup
  BY <1>5, SavingSynced, FoundAgain DEF container_manager_cleanup, kernelVars, InTable, Running
<1>6. CASE exit_process
  <2>1. stateFile' = stateFile
    BY <1>6, FlushedNothing DEF exit_process, SavesInCalls
  <2>. QED
    BY <1>6, <2>1, RecoveryExit DEF exit_process
<1>. QED
  BY <1>1, <1>2, <1>3, <1>4, <1>5, <1>6 DEF Session

\* Neither does a launch or an exec.
LEMMA RecoveryLaunch ==
    ASSUME TypeInv, TypeInv', TrackingInv, RecoveryInv, Launch \/ Exec
    PROVE  Synced' /\ AliveFound'
<1>. USE DEF TypeInv, TypeOK, RecoveryInv
<1>1. ASSUME NEW arg \in Args, container_manager_start(arg)
      PROVE  Synced' /\ AliveFound'
  BY <1>1, SameSynced, FoundAgain DEF container_manager_start, InTable, Running
<1>10. ASSUME NEW arg \in Args, start_cgroup_fails(arg)
       PROVE  Synced' /\ AliveFound'
  BY <1>10, SameSynced, FoundAgain DEF start_cgroup_fails, Returned, InTable, Running
<1>2. ASSUME NEW p \in Pids, Spawn(p), UNCHANGED containers, UNCHANGED fileVars, job'.pid = p,
             pc \in {"idle", "clone"}, pc' \in {"attach", "exec"}
      PROVE  Synced' /\ AliveFound'
  <2>1. \A q \in Pids : procs'[q] = "alive" => procs[q] = "alive" \/ q = p
    BY <1>2 DEF Spawn, KernelTypeOK
  <2>2. \A q \in Pids : procs[q] = "alive" => InTable(q)'
    BY <1>2 DEF AliveFound, InTable, Running
  <2>. QED
    BY <1>2, <2>1, <2>2, SameSynced DEF AliveFound
<1>3. ASSUME NEW p \in Pids, clone_process(p)
      PROVE  Synced' /\ AliveFound'
  <2>1. job'.pid = p
    BY <1>3 DEF clone_process, Jobs
  <2>. QED
    BY <1>2, <1>3, <2>1 DEF clone_process
<1>4. CASE clone_fails
  BY <1>4, SameSynced, FoundAgain DEF clone_fails, kernelVars, Returned, InTable, Running
<1>5. CASE add_to_cgroup
  <2>1. pc = "attach" /\ pc' = "commit" /\ UNCHANGED <<procs, containers, job>>
        /\ UNCHANGED fileVars
    BY <1>5 DEF add_to_cgroup
  <2>. QED
    BY <2>1, SameSynced DEF AliveFound, InTable, Running
<1>6. CASE record_running
  <2>1. job.idx \in DOMAIN containers /\ job.pid \in Pids /\ containers[job.idx].state # "RUNNING"
        /\ pc = "commit" /\ UNCHANGED procs
    BY <1>6 DEF record_running, JobOK, LaunchTarget, TrackingInv, kernelVars
  <2>2. /\ DOMAIN containers' = DOMAIN containers
        /\ containers'[job.idx].pid = job.pid /\ containers'[job.idx].state = "RUNNING"
        /\ \A k \in DOMAIN containers \ {job.idx} : containers'[k] = containers[k]
    BY <1>6, <2>1, MarkRunningTable DEF record_running
  <2>3. Synced'
    BY <1>6, SavingSynced DEF record_running
  <2>4. \A p \in Pids : procs'[p] = "alive" => InTable(p)'
    <3>1. \A p \in Pids : procs'[p] = "alive" => InTable(p) \/ p = job.pid
      BY <2>1 DEF AliveFound
    <3>2. \A p \in Pids : InTable(p) \/ p = job.pid => InTable(p)'
      BY <2>1, <2>2 DEF InTable, Running
    <3>. QED
      BY <3>1, <3>2
  <2>5. pc' \notin {"down", "load", "attach", "commit", "exec"}
    BY <1>6 DEF record_running, Returned
  <2>. QED
    BY <2>3, <2>4, <2>5 DEF AliveFound
<1>7. CASE foreground_wait
  <2>1. \A p \in Pids : procs'[p] = "alive" => procs[p] = "alive"
    BY <1>7, KillFewer DEF foreground_wait
  <2>. QED
    BY <1>7, <2>1, SameSynced, FoundAgain DEF foreground_wait, cmVars, InTable, Running
<1>8. ASSUME NEW arg \in Args, NEW p \in Pids, container_manager_exec(arg, p)
      PROVE  Synced' /\ AliveFound'
  BY <1>2, <1>8 DEF container_manager_exec, Job
<1>9. CASE exec_return
  <2>1. pc = "exec" /\ UNCHANGED containers /\ UNCHANGED fileVars
        /\ pc' \notin {"down", "load", "attach", "commit", "exec"}
    BY <1>9 DEF exec_return, Returned
  <2>2. \A p \in Pids : procs'[p] = "alive" => procs[p] = "alive" /\ p # job.pid
    BY <1>9, KillFewer DEF exec_return
  <2>3. \A p \in Pids : procs'[p] = "alive" => InTable(p)'
    BY <2>1, <2>2 DEF AliveFound, InTable, Running
  <2>. QED
    BY <2>1, <2>3, SameSynced DEF AliveFound
<1>. QED
  BY <1>1, <1>3, <1>4, <1>5, <1>6, <1>7, <1>8, <1>9, <1>10 DEF Launch, Exec

\* Neither does a stop, a destroy or a shutdown.
LEMMA RecoveryHalt ==
    ASSUME TypeInv, TypeInv', TrackingInv, RecoveryInv, Halt
    PROVE  Synced' /\ AliveFound'
<1>. USE DEF TypeInv, TypeOK, RecoveryInv
<1>1. ASSUME pc \notin {"down", "load", "attach", "commit", "exec"},
             pc' \notin {"down", "load", "attach", "commit", "exec"},
             UNCHANGED containers, UNCHANGED fileVars,
             \A p \in Pids : procs'[p] = "alive" => procs[p] = "alive"
      PROVE  Synced' /\ AliveFound'
  BY <1>1, SameSynced, FoundAgain DEF InTable, Running
<1>2. ASSUME NEW op, NEW i, NEW arg, BeginStop(op, i, arg), pc \in {"idle", "stopping"}
      PROVE  Synced' /\ AliveFound'
  <2>1. \A p \in Pids : procs'[p] = "alive" => procs[p] = "alive"
    BY <1>2, KillFewer DEF BeginStop
  <2>. QED
    BY <1>1, <1>2, <2>1 DEF BeginStop
<1>3. CASE \E arg \in Args : container_manager_stop(arg) \/ container_manager_destroy(arg)
  BY <1>1, <1>2, <1>3 DEF container_manager_stop, container_manager_destroy, kernelVars
<1>4. CASE reap_and_record
  <2>. DEFINE q == containers[job.idx].pid
  <2>1. /\ DOMAIN containers' = DOMAIN containers
        /\ \A i \in DOMAIN containers :
             /\ containers'[i].pid = containers[i].pid
             /\ containers'[i].state = IF i = job.idx THEN "STOPPED" ELSE containers[i].state
    BY <1>4, MarkStoppedTable DEF reap_and_record
  <2>2. \A p \in Pids : procs'[p] = "alive" => procs[p] = "alive" /\ p # q
    BY <1>4, KillFewer DEF reap_and_record
  <2>3. \A p \in Pids : InTable(p) /\ p # q => InTable(p)'
    BY <2>1 DEF InTable, Running
  <2>4. pc = "reap" /\ pc' \notin {"down", "load", "attach", "commit", "exec"}
    BY <1>4 DEF reap_and_record, AfterReap, Returned
  <2>5. Synced'
    BY <1>4, SavingSynced DEF reap_and_record
  <2>. QED
    BY <2>2, <2>3, <2>4, <2>5, FoundAgain
<1>5. CASE finish_destroy
  <2>1. UNCHANGED procs /\ containers' = remove_container(containers, job.arg)
        /\ \A i \in find_container(containers, job.arg) : containers[i].state # "RUNNING"
    BY <1>5 DEF finish_destroy, DestroyTarget, TrackingInv
  <2>2. \A i \in DOMAIN containers \ find_container(containers, job.arg) :
            \E k \in DOMAIN containers' : containers'[k] = containers[i]
    BY <2>1, RemoveTable
  <2>3. \A p \in Pids : InTable(p) => InTable(p)'
    BY <2>1, <2>2 DEF InTable, Running
  <2>4. pc = "remove" /\ pc' \notin {"down", "load", "attach", "commit", "exec"}
    BY <1>5 DEF finish_destroy, AfterFailure, Returned
  <2>5. Synced'
    BY <1>5, SavingSynced DEF finish_destroy
  <2>. QED
    BY <2>1, <2>3, <2>4, <2>5, FoundAgain
<1>6. CASE menu_exit
  BY <1>1, <1>6 DEF menu_exit, BeginStopAll, kernelVars
<1>7. CASE stop_next
  BY <1>1, <1>2, <1>7 DEF stop_next, kernelVars
<1>8. CASE stop_all_done
  <2>1. \A p \in Pids : procs'[p] = "alive" => procs[p] = "alive"
    BY <1>8, KillFewer DEF stop_all_done
  <2>2. /\ DOMAIN containers' = DOMAIN containers
        /\ \A i \in DOMAIN containers :
             /\ containers'[i].pid = containers[i].pid
             /\ containers'[i].state = "RUNNING" <=> containers[i].state = "RUNNING"
    <3>. DEFINE created == {i \in DOMAIN containers : containers[i].state = "CREATED"}
    <3>1. \A i \in created : containers[i].state = "CREATED"
      OBVIOUS
    <3>2. UNCHANGED containers \/ containers' = MarkStopped(containers, created)
      BY <1>8 DEF stop_all_done
    <3>. HIDE DEF created
    <3>3. CASE containers' = MarkStopped(containers, created)
      <4>1. /\ DOMAIN containers' = DOMAIN containers
            /\ \A i \in DOMAIN containers :
                 /\ containers'[i].pid = containers[i].pid
                 /\ containers'[i].state = IF i \in created THEN "STOPPED"
                                          ELSE containers[i].state
        BY <3>3, MarkStoppedTable
      <4>. QED
        BY <3>1, <4>1
    <3>. QED
      BY <3>2, <3>3
  <2>3. UNCHANGED <<stateFile, saving>> /\ pc = "stopping" /\ pc' = "closing"
    BY <1>8 DEF stop_all_done, fileVars
  <2>4. Synced'
    BY <2>2, <2>3 DEF Synced, Running, InFile
  <2>5. \A p \in Pids : InTable(p) => InTable(p)'
    BY <2>2 DEF InTable, Running
  <2>. QED
    BY <2>1, <2>3, <2>4, <2>5, FoundAgain
<1>. QED
  BY <1>3, <1>4, <1>5, <1>6, <1>7, <1>8 DEF Halt

\* Every step preserves the invariant behind Recoverable.
LEMMA RecoveryStep ==
    ASSUME TypeInv, TypeInv', TrackingInv, RecoveryInv, [Next]_vars,
           {"save", "realloc"} \cap Faults = {},
           SignalAt \cap {"attach", "commit", "exec", "save"} = {},
           CrashAt \cap {"attach", "commit", "exec", "save"} = {}
    PROVE  RecoveryInv'
<1>. USE DEF TypeInv, TypeOK
<1>. SUFFICES Synced' /\ AliveFound'
  BY SavesStep DEF RecoveryInv
<1>1. CASE Create
  <2>1. \A i \in DOMAIN containers : i \in DOMAIN containers' /\ containers'[i] = containers[i]
    <3>1. ASSUME NEW info, containers' = Append(containers, info)
          PROVE  \A i \in DOMAIN containers :
                    i \in DOMAIN containers' /\ containers'[i] = containers[i]
      BY <3>1
    <3>. QED
      BY <1>1, <3>1, CreateTable DEF NewEntry
  <2>2. UNCHANGED procs /\ pc \in {"idle", "root", "add"}
        /\ pc' \notin {"down", "load", "attach", "commit", "exec"}
    BY <1>1 DEF Create, container_manager_create, create_cgroup_fails, Creatable,
       fs_create_minimal_root, create_fails, CreateFails, create_entry,
       container_manager_run, AfterFailure, kernelVars
  <2>3. \A p \in Pids : InTable(p) => InTable(p)'
    BY <2>1 DEF InTable, Running
  <2>4. CASE BeginSave
    BY <2>2, <2>3, <2>4, SavingSynced, FoundAgain DEF RecoveryInv
  <2>5. CASE UNCHANGED containers /\ UNCHANGED fileVars
    BY <2>2, <2>3, <2>5, SameSynced, FoundAgain DEF RecoveryInv
  <2>. QED
    BY <1>1, <2>4, <2>5 DEF Create, container_manager_create, create_cgroup_fails,
       fs_create_minimal_root, create_fails, create_entry
<1>2. CASE Environment \/ UNCHANGED vars
  <2>1. UNCHANGED <<containers, stateFile, pc, job>> /\ UNCHANGED fileVars
    BY <1>2 DEF Environment, vars, cmVars, fileVars
  <2>2. \A p \in Pids : procs'[p] = "alive" => procs[p] = "alive"
    BY <1>2 DEF Environment, KernelNext, ProcExit, HostFork, HostExit, KernelTypeOK, vars,
       kernelVars
  <2>. QED
    BY <2>1, <2>2, SameSynced DEF RecoveryInv, AliveFound, InTable, Running, InFile, ToRead
<1>3. CASE save_state
  <2>1. stateFile' = ToFile(containers) /\ UNCHANGED <<procs, containers, pc, job>>
        /\ pc \notin {"down", "load"}
    BY <1>3 DEF save_state, kernelVars, RecoveryInv, SavesInCalls
  <2>2. Synced'
    BY <2>1, ToFileEntries DEF Synced, Running, InFile
  <2>. QED
    BY <2>1, <2>2 DEF RecoveryInv, AliveFound, InTable, Running
<1>4. CASE signal_handler
  <2>1. saving = "no" /\ pc \notin {"down", "load", "attach", "commit", "exec"}
    BY <1>4 DEF signal_handler, HandlerInstalled, At
  <2>2. UNCHANGED <<procs, containers, stateFile, saving, buffer>> /\ pc' = "stopping"
    BY <1>4, <2>1 DEF signal_handler, BeginStopAll, kernelVars
  <2>. QED
    BY <2>1, <2>2, SameSynced, FoundAgain DEF RecoveryInv, fileVars, InTable, Running
<1>5. CASE crash
  <2>1. saving = "no" /\ pc \notin {"attach", "commit", "exec"}
    BY <1>5 DEF crash, At
  <2>2. stateFile' = stateFile
    BY <1>5, <2>1 DEF crash, Unfinished
  <2>. QED
    BY <1>5, <2>1, <2>2, RecoveryExit DEF crash
<1>. QED
  BY <1>1, <1>2, <1>3, <1>4, <1>5, RecoverySession, RecoveryLaunch, RecoveryHalt
     DEF Next, MainThread

\* If saving does not fail and nothing strikes inside of a save or between the
\* creation of a process and the record of its pid, a manager that is killed
\* anywhere else, any number of times, leaves every live container in the state
\* file, where load_state finds it.
THEOREM ContainersRecoverable ==
    ASSUME {"save", "realloc"} \cap Faults = {},
           SignalAt \cap {"attach", "commit", "exec", "save"} = {},
           CrashAt \cap {"attach", "commit", "exec", "save"} = {}
    PROVE  Spec => []Recoverable
<1>. DEFINE Inv == TypeInv /\ TrackingInv /\ RecoveryInv
<1>1. Init => Inv
  BY TypeInit, TrackingInit
     DEF Init, KernelInit, RecoveryInv, SavesInCalls, Synced, AliveFound
<1>2. Inv /\ [Next]_vars => Inv'
  BY TypeStep, TrackingStep, RecoveryStep
<1>3. Inv => Recoverable
  BY DEF RecoveryInv, AliveFound, Recoverable
<1>. QED
  BY <1>1, <1>2, <1>3, PTL DEF Spec
=============================================================================
