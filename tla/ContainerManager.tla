-------------------------- MODULE ContainerManager --------------------------
(***************************************************************************)
(* The container manager (container_manager.cpp), the command line and the *)
(* menu that call it (main.cpp) and the kernel objects it owns.            *)
(*                                                                         *)
(* One manager process at a time is modelled; it may exit, be interrupted  *)
(* by a signal or die, and be started again on the state file it left.     *)
(* A call into the manager takes a step for each thing that it changes     *)
(* outside its own memory, so that a signal or a crash may come between:   *)
(* a creation makes the cgroup, builds the root and adds the entry, a      *)
(* launch is clone, a sleep, the move into the cgroup and the record of    *)
(* the pid, a stop is kill and, up to five seconds later, reap, and every  *)
(* save of the table is a step of its own.  Errors that return before      *)
(* anything changed are not steps.                                         *)
(***************************************************************************)
EXTENDS Kernel, Sequences

CONSTANTS NewIds,      \* ids the user gives to new containers
          Args,        \* what the user types where a container id is expected
          MinimalFs,   \* values of fs_config.create_minimal_fs
          InitialMax,  \* container_manager_init's max_containers
          MaxTable,    \* bound on the number of containers in the table
          MaxId,       \* bound on generated ids
          MaxSessions, \* bound on the number of manager processes
          Faults,      \* steps that may fail
          SignalAt,    \* program points where a signal may come
          CrashAt      \* program points where the process may be killed

FaultKinds == {"save", "cgroup", "rootfs", "realloc", "clone", "attach"}

\* Where the manager's main thread is, or will be when the save in progress is
\* done.
\*   down      there is no manager process
\*   load      in load_state
\*   idle      initialised, or between two calls
\*   root      in create, the cgroup is made and the root is not
\*   add       in create, before add_container
\*   clone     in run or start, before clone
\*   attach    the process exists; the 1 ms sleep before the cgroup callback
\*   commit    the process is in its cgroup, its pid is not recorded
\*   wait      in handle_run, behind container_manager_run
\*   exec      in container_manager_exec, waiting for the forked process
\*   reap      in stop, between the kills and the end of the waitpid loop
\*   remove    in destroy, behind the stop
\*   stopping  in the loop of the signal handler or of menu option 0
\*   closing   in web_server->stop(), before container_manager_cleanup
\*   failed    a run command failed; main returns without any clean-up
\*   exit      behind the save of container_manager_cleanup
PCs == {"down", "load", "idle", "root", "add", "clone", "attach", "commit",
        "wait", "exec", "reap", "remove", "stopping", "closing", "failed", "exit"}

\* Where an interrupt may come: at those points, or inside a save.
Points == PCs \cup {"save"}

ASSUME ConstantsAssumption ==
    /\ NewIds \subseteq Ids
    /\ Args \subseteq Ids
    /\ MinimalFs \subseteq BOOLEAN
    /\ InitialMax \in Nat \ {0}
    /\ MaxTable \in Nat
    /\ MaxId \in Nat
    /\ MaxSessions \in Nat
    /\ Faults \subseteq FaultKinds
    /\ SignalAt \subseteq Points
    /\ CrashAt \subseteq Points

VARIABLES containers,     \* cm->containers[0 .. container_count - 1]
          max_containers, \* length of the array that holds them
          stateFile,      \* the records of the state file
          saving,         \* whether the main thread is in save_state
          buffer,         \* records of a save that a signal cut short
          rootfs,         \* ids for which a minimal root was built on disk
          pc,             \* where the manager's main thread is
          job,            \* locals of the call in progress
          mode,           \* how the manager process was started
          sessions        \* number of manager processes started so far

sessionVars == <<mode, sessions>>
fileVars == <<stateFile, saving, buffer>>
cmVars == <<containers, max_containers, fileVars, rootfs, pc, job, sessionVars>>
vars == <<kernelVars, cmVars>>

(***************************************************************************)
(* Types.                                                                  *)
(***************************************************************************)

\* The interactive menu makes any number of calls; the command line, and
\* mini-container-web, make at most one.
Modes == {"menu", "cli"}

NoPid == 0
NoArg == 0
States == {"CREATED", "RUNNING", "STOPPED"}

\* saved_config: a null pointer, a configuration with an empty command, or
\* one that can be executed.
SavedConfigs == {"null", "no_command", "command"}

Info == [id: Ids, pid: Pids \cup {NoPid}, state: States,
         saved_config: SavedConfigs]
FileRecord == [id: Ids, pid: Pids \cup {NoPid}, state: States]

\* op: the call; idx: the table entry it works on, or the next one of a loop;
\* arg: the id it was called with; pid: the process it has cloned or forked.
\* A signal handler runs on top of the call it interrupts, whose arg and pid
\* stay.
Ops == {"none", "load", "create", "run", "start", "exec", "stop", "destroy",
        "exit", "signal"}
Jobs == [op: Ops, idx: Nat, arg: Ids \cup {NoArg}, pid: Pids \cup {NoPid}]

Job(op, idx, arg, pid) == [op |-> op, idx |-> idx, arg |-> arg, pid |-> pid]
NoJob == Job("none", 0, NoArg, NoPid)

Init ==
    /\ KernelInit
    /\ containers = <<>>
    /\ max_containers = InitialMax
    /\ stateFile = <<>> /\ saving = "no" /\ buffer = <<>>
    /\ rootfs = {}
    /\ pc = "down"
    /\ job = NoJob
    /\ mode = "menu"
    /\ sessions = 0

(***************************************************************************)
(* The table.  A search returns the set that holds the index of the first  *)
(* match, or the empty set.                                                *)
(***************************************************************************)

\* extract_numeric_id succeeds.
IsNumeric(id) == id \notin Names

find_container(t, id) ==
    {i \in DOMAIN t : t[i].id = id /\ \A j \in 1..(i-1) : t[j].id # id}

find_container_by_pid(t, pid) ==
    {i \in DOMAIN t : t[i].pid = pid /\ \A j \in 1..(i-1) : t[j].pid # pid}

\* container_manager_get_info: an id, or else the decimal form of a pid.
get_info(t, arg) ==
    IF find_container(t, arg) # {} THEN find_container(t, arg)
    ELSE IF IsNumeric(arg) THEN find_container_by_pid(t, arg) ELSE {}

NumericIds(t) == {t[i].id : i \in {j \in DOMAIN t : IsNumeric(t[j].id)}}

\* Mutant of generate_container_id: the increment is missing.
LargestId(t) ==
    {n \in {0} \cup NumericIds(t) : \A m \in NumericIds(t) : m <= n}

\* The set that holds the id that follows the largest numeric one.
generate_container_id(t) ==
    {n \in {m + 1 : m \in {0} \cup NumericIds(t)} :
        \A m \in NumericIds(t) : m < n}

\* Mutant of Capacity: the comparison is off by one.
CapacityOffByOne(t, max) == IF Len(t) > max THEN 2 * max ELSE max

\* The array doubles when it is full.
Capacity(t, max) == IF Len(t) >= max THEN 2 * max ELSE max

add_container(info) ==
    /\ containers' = Append(containers, info)
    /\ max_containers' = Capacity(containers, max_containers)

\* remove_container shifts the entries behind the removed one.
remove_container(t, id) ==
    IF find_container(t, id) = {} THEN t
    ELSE [j \in 1..(Len(t) - 1) |->
            IF \E i \in find_container(t, id) : j < i THEN t[j] ELSE t[j + 1]]

\* The entries I are marked stopped; their pid stays.
MarkStopped(t, I) ==
    [i \in DOMAIN t |-> IF i \in I THEN [t[i] EXCEPT !.state = "STOPPED"] ELSE t[i]]

MarkRunning(t, i, p) ==
    [t EXCEPT ![i] = [@ EXCEPT !.pid = p, !.state = "RUNNING"]]

(***************************************************************************)
(* The state file.                                                         *)
(***************************************************************************)
ToFile(t) ==
    [i \in DOMAIN t |-> [id |-> t[i].id, pid |-> t[i].pid, state |-> t[i].state]]

\* A call has come to save_state: nothing else happens in the main thread
\* until it is done.
BeginSave == saving' = "yes" /\ UNCHANGED <<stateFile, buffer>>

\* The whole table is written, or the file cannot be opened and save_state
\* returns silently.
save_state ==
    /\ saving = "yes"
    /\ \/ stateFile' = ToFile(containers)
       \/ "save" \in Faults /\ UNCHANGED stateFile
    /\ saving' = "no"
    /\ UNCHANGED <<kernelVars, containers, max_containers, buffer, rootfs, pc, job,
                   sessionVars>>

\* What the file can be when the process dies: as it was before fopen, or
\* emptied by it and with the records that stdio had written out by then.
Unfinished ==
    {stateFile} \cup
    {SubSeq(ToFile(containers), 1, n) : n \in {k \in 0..Len(containers) : saving = "yes"}}

\* exit() writes out what a save that was cut short still has in memory, from
\* the start of the file; a longer file keeps its end.  n records replace n, or
\* fewer when those of the file are longer, which their times can make them.  (The
\* text of the table fits stdio's buffer here; longer ones are in StateFile.)
Flushed ==
    UNION {{SubSeq(buffer, 1, n) \o SubSeq(stateFile, m, Len(stateFile)) :
               m \in 1..(n + 1)} : n \in 0..Len(buffer)}

\* load_state skips a record whose container is stopped or has no process.
Loadable(r) ==
    \/ r.state = "CREATED"
    \/ r.state = "RUNNING" /\ PidAlive(r.pid)

\* It renames a container whose id is not a numeral; the saved
\* configuration is not in the file.
Loaded(t, r) ==
    {[id |-> n, pid |-> r.pid, state |-> r.state, saved_config |-> "null"] :
        n \in IF IsNumeric(r.id) THEN {r.id} ELSE generate_container_id(t)}

(***************************************************************************)
(* Start and end of the manager process.                                   *)
(***************************************************************************)
container_manager_init ==
    /\ pc = "down" /\ sessions < MaxSessions
    /\ pc' = "load" /\ job' = Job("load", 1, NoArg, NoPid)
    /\ mode' \in Modes /\ sessions' = sessions + 1
    /\ containers' = <<>> /\ max_containers' = InitialMax
    /\ UNCHANGED <<kernelVars, fileVars, rootfs>>

load_record ==
    /\ pc = "load" /\ job.idx <= Len(stateFile)
    /\ LET r == stateFile[job.idx] IN
       \/ Loadable(r) /\ \E info \in Loaded(containers, r) : add_container(info)
       \/ /\ \/ ~Loadable(r)
             \/ "realloc" \in Faults /\ Len(containers) >= max_containers
          /\ UNCHANGED <<containers, max_containers>>
    /\ job' = [job EXCEPT !.idx = @ + 1]
    /\ UNCHANGED <<kernelVars, fileVars, rootfs, pc, sessionVars>>

\* The job tells the save of container_manager_init from that of a call.
load_done ==
    /\ pc = "load" /\ job.idx > Len(stateFile)
    /\ IF containers # <<>> THEN BeginSave ELSE UNCHANGED fileVars
    /\ pc' = "idle" /\ job' = [NoJob EXCEPT !.op = "load"]
    /\ UNCHANGED <<kernelVars, containers, max_containers, rootfs, sessionVars>>

\* Where the main thread goes when a call has returned.
Returned == IF mode = "menu" THEN "idle" ELSE "closing"

\* A command that changes nothing, or that fails before it has changed
\* anything, or the main loop of mini-container-web, ends.  A run command skips
\* the clean-up.
command_done ==
    /\ pc = "idle" /\ mode = "cli"
    /\ pc' \in {"closing", "failed"}
    /\ UNCHANGED <<kernelVars, containers, max_containers, fileVars, rootfs,
                   job, sessionVars>>

\* The manager process is gone, and its memory with it.
Exit ==
    /\ ManagerDies
    /\ containers' = <<>> /\ max_containers' = InitialMax
    /\ saving' = "no" /\ buffer' = <<>>
    /\ pc' = "down" /\ job' = NoJob
    /\ UNCHANGED <<rootfs, sessionVars>>

container_manager_cleanup ==
    /\ pc = "closing"
    /\ BeginSave
    /\ pc' = "exit"
    /\ UNCHANGED <<kernelVars, containers, max_containers, rootfs, job, sessionVars>>

exit_process ==
    /\ pc \in {"failed", "exit"}
    /\ Exit
    /\ stateFile' \in Flushed

\* An interrupt can come at one of the points P.
At(P) == IF saving = "yes" THEN "save" \in P ELSE pc \in P

\* The manager is killed, or aborts.
crash ==
    /\ pc # "down" /\ At(CrashAt)
    /\ Exit
    /\ stateFile' \in Unfinished

(***************************************************************************)
(* Create and run.                                                         *)
(***************************************************************************)

\* Mutant of Creatable: no check for an existing container.
CreatableTwice(id) == pc = "idle" /\ Len(containers) < MaxTable

\* The call gets as far as resource_manager_create_cgroup.
Creatable(id) ==
    /\ pc = "idle"
    /\ find_container(containers, id) = {}
    /\ Len(containers) < MaxTable

\* The ids of new containers: given by the user, or generated.
FreshIds ==
    NewIds \cup {n \in generate_container_id(containers) : n <= MaxId}

NewInfo(id, config) ==
    [id |-> id, pid |-> NoPid, state |-> "CREATED", saved_config |-> config]

\* The command line runs a container only under a generated id; create by
\* itself is a call of the interface.
Callable(op, id) ==
    IF mode = "menu" THEN TRUE
    ELSE op = "run" /\ id \in generate_container_id(containers)

\* A run that fails on the command line ends the process without clean-up.
AfterFailure == IF mode = "menu" THEN "idle" ELSE "failed"

\* container_manager_create, also inside run, up to the cgroup.
container_manager_create(op, id) ==
    /\ Creatable(id) /\ Callable(op, id)
    /\ dirs' = dirs \cup {id}
    /\ pc' = "root" /\ job' = Job(op, 0, id, NoPid)
    /\ UNCHANGED <<procs, children, cgOf, containers, max_containers, fileVars,
                   rootfs, sessionVars>>

\* resource_manager_create_cgroup fails; with cgroup v1 the directory of the
\* first controller may be left.
create_cgroup_fails(op, id) ==
    /\ "cgroup" \in Faults
    /\ Creatable(id) /\ Callable(op, id)
    /\ dirs' \in {dirs, dirs \cup {id}}
    /\ pc' = AfterFailure /\ job' = NoJob
    /\ UNCHANGED <<procs, children, cgOf, containers, max_containers, fileVars,
                   rootfs, sessionVars>>

BuildRoot(minimal_fs) ==
    rootfs' = IF minimal_fs THEN rootfs \cup {job.arg} ELSE rootfs

fs_create_minimal_root(minimal_fs) ==
    /\ pc = "root"
    /\ BuildRoot(minimal_fs)
    /\ pc' = "add"
    /\ UNCHANGED <<kernelVars, containers, max_containers, fileVars, job, sessionVars>>

\* The root cannot be built, or the array cannot grow.
CreateFails(minimal_fs) ==
    \/ /\ pc = "root" /\ "rootfs" \in Faults /\ minimal_fs
       /\ BuildRoot(minimal_fs)
    \/ /\ pc = "add" /\ "realloc" \in Faults /\ Len(containers) >= max_containers
       /\ UNCHANGED rootfs

\* Mutant of create_fails: the error path forgets the cgroup.
create_leaks(minimal_fs) ==
    /\ CreateFails(minimal_fs)
    /\ pc' = AfterFailure /\ job' = NoJob
    /\ UNCHANGED <<kernelVars, containers, max_containers, fileVars, sessionVars>>

\* The cgroup is removed again, what was built of the root is not.
create_fails(minimal_fs) ==
    /\ CreateFails(minimal_fs)
    /\ dirs' = Rmdir(dirs, job.arg)
    /\ pc' = AfterFailure /\ job' = NoJob
    /\ UNCHANGED <<procs, children, cgOf, containers, max_containers, fileVars,
                   sessionVars>>

\* container_manager_run goes on to the clone with the entry that create has
\* made; when the menu's command line is empty, it destroys the entry again.
container_manager_run(config) ==
    /\ pc' = IF config = "command" THEN "clone" ELSE "remove"
    /\ job' = Job("run", Len(containers) + 1, job.arg, NoPid)

\* The end of container_manager_create, and of create inside run.
create_entry(config) ==
    /\ pc = "add"
    /\ config = "no_command" => mode = "menu"
    /\ add_container(NewInfo(job.arg, config))
    /\ BeginSave
    /\ IF job.op = "create" THEN pc' = "idle" /\ job' = NoJob
       ELSE container_manager_run(config)
    /\ UNCHANGED <<kernelVars, rootfs, sessionVars>>

(***************************************************************************)
(* Launching a container's process, for run and start.                     *)
(***************************************************************************)

\* Mutant of Startable: a running container can be started.
StartableRunning(i) == containers[i].saved_config # "null"

Startable(i) ==
    containers[i].state \in {"CREATED", "STOPPED"} /\ containers[i].saved_config # "null"

\* container_manager_start, up to the clone.  The cgroup is named after what
\* the user typed.
container_manager_start(arg) ==
    /\ pc = "idle"
    /\ \E i \in get_info(containers, arg) :
        Startable(i) /\ job' = Job("start", i, arg, NoPid)
    /\ dirs' = dirs \cup {arg}
    /\ pc' = "clone"
    /\ UNCHANGED <<procs, children, cgOf, containers, max_containers,
                   fileVars, rootfs, sessionVars>>

start_cgroup_fails(arg) ==
    /\ "cgroup" \in Faults
    /\ pc = "idle"
    /\ \E i \in get_info(containers, arg) : Startable(i)
    /\ dirs' \in {dirs, dirs \cup {arg}}
    /\ pc' = Returned /\ job' = NoJob
    /\ UNCHANGED <<procs, children, cgOf, containers, max_containers,
                   fileVars, rootfs, sessionVars>>

\* Mutant of clone_process: the cgroup callback is not called.
clone_without_callback(p) ==
    /\ pc = "clone"
    /\ containers[job.idx].saved_config = "command"
    /\ Spawn(p)
    /\ pc' = "commit"
    /\ job' = [job EXCEPT !.pid = p]
    /\ UNCHANGED <<dirs, containers, max_containers, fileVars, rootfs, sessionVars>>

clone_process(p) ==
    /\ pc = "clone"
    /\ containers[job.idx].saved_config = "command"
    /\ Spawn(p)
    /\ pc' = "attach"
    /\ job' = [job EXCEPT !.pid = p]
    /\ UNCHANGED <<dirs, containers, max_containers, fileVars, rootfs, sessionVars>>

\* start returns; run destroys the container it has created.
clone_fails ==
    /\ pc = "clone"
    /\ \/ "clone" \in Faults
       \/ containers[job.idx].saved_config # "command"
    /\ \/ job.op = "start" /\ pc' = Returned /\ job' = NoJob
       \/ job.op # "start" /\ pc' = "remove" /\ UNCHANGED job
    /\ UNCHANGED <<kernelVars, containers, max_containers, fileVars, rootfs, sessionVars>>

\* resource_manager_add_process: the write fails when the process has died
\* already or the cgroup is missing; the result is ignored.
add_to_cgroup ==
    /\ pc = "attach"
    /\ \/ /\ procs[job.pid] = "alive" /\ job.arg \in dirs
          /\ cgOf' = [cgOf EXCEPT ![job.pid] = job.arg]
       \/ /\ "attach" \in Faults \/ procs[job.pid] # "alive" \/ job.arg \notin dirs
          /\ UNCHANGED cgOf
    /\ pc' = "commit"
    /\ UNCHANGED <<procs, children, dirs, containers, max_containers, fileVars,
                   rootfs, job, sessionVars>>

\* Mutant of record_running: the state is not saved.
record_without_save ==
    /\ pc = "commit"
    /\ containers' = MarkRunning(containers, job.idx, job.pid)
    /\ IF job.op = "run" /\ mode = "cli"
       THEN pc' = "wait" /\ UNCHANGED job
       ELSE pc' = Returned /\ job' = NoJob
    /\ UNCHANGED <<kernelVars, max_containers, fileVars, rootfs, sessionVars>>

\* The pid and the state are recorded; the command line then waits.
record_running ==
    /\ pc = "commit"
    /\ containers' = MarkRunning(containers, job.idx, job.pid)
    /\ BeginSave
    /\ IF job.op = "run" /\ mode = "cli"
       THEN pc' = "wait" /\ UNCHANGED job
       ELSE pc' = Returned /\ job' = NoJob
    /\ UNCHANGED <<kernelVars, max_containers, rootfs, sessionVars>>

\* handle_run's waitpid returns; the entry is not touched.
foreground_wait ==
    /\ pc = "wait"
    /\ job.pid \in children /\ procs[job.pid] = "zombie"
    /\ Kill({}, {job.pid})
    /\ UNCHANGED <<dirs, cmVars>>

(***************************************************************************)
(* Exec.  The forked process joins the mount namespace of the container;   *)
(* it is neither in its PID namespace nor in its cgroup.                   *)
(***************************************************************************)
container_manager_exec(arg, p) ==
    /\ pc = "idle"
    /\ \E i \in find_container(containers, arg) : containers[i].state = "RUNNING"
    /\ Spawn(p)
    /\ pc' = "exec" /\ job' = Job("exec", 0, arg, p)
    /\ UNCHANGED <<dirs, containers, max_containers, fileVars, rootfs, sessionVars>>

\* Mutant of exec_return: waitpid(-1) collects any child.
exec_reaps_any ==
    /\ pc = "exec"
    /\ \E p \in children : procs[p] = "zombie" /\ Kill({}, {p})
    /\ pc' = Returned /\ job' = NoJob
    /\ UNCHANGED <<dirs, containers, max_containers, fileVars, rootfs, sessionVars>>

exec_return ==
    /\ pc = "exec"
    /\ procs[job.pid] = "zombie"
    /\ Kill({}, {job.pid})
    /\ pc' = Returned /\ job' = NoJob
    /\ UNCHANGED <<dirs, containers, max_containers, fileVars, rootfs, sessionVars>>

(***************************************************************************)
(* Stop and destroy.                                                       *)
(***************************************************************************)

\* Mutant of StopVictims: the signal goes to all children.
AllChildren(i) == children

\* What a stop kills first: everything in the entry's cgroup, and the
\* process whose pid is recorded.
StopVictims(i) ==
    Members(containers[i].id) \cup {p \in Pids : p = containers[i].pid}

\* Mutant of BeginStop: the state is not checked.
BeginStopInAnyState(op, i, arg) ==
    /\ Kill(StopVictims(i), {})
    /\ pc' = "reap" /\ job' = Job(op, i, arg, job.pid)
    /\ UNCHANGED <<dirs, containers, max_containers, fileVars, rootfs, sessionVars>>

\* A stop of the running entry i, up to the waitpid loop.
BeginStop(op, i, arg) ==
    /\ containers[i].state = "RUNNING"
    /\ Kill(StopVictims(i), {})
    /\ pc' = "reap" /\ job' = Job(op, i, arg, job.pid)
    /\ UNCHANGED <<dirs, containers, max_containers, fileVars, rootfs, sessionVars>>

container_manager_stop(arg) ==
    /\ pc = "idle"
    /\ \E i \in get_info(containers, arg) : BeginStop("stop", i, arg)

\* The process is collected if it is a child.  If it is not, the loop times
\* out, and whatever has the pid by then is killed.
AfterReap(op) ==
    CASE op = "stop" -> Returned [] op = "destroy" -> "remove" [] OTHER -> "stopping"

reap_and_record ==
    /\ pc = "reap"
    /\ LET p == containers[job.idx].pid
       IN IF p \in children THEN Kill({p}, {p}) ELSE Kill({p}, {})
    /\ containers' = MarkStopped(containers, {job.idx})
    /\ BeginSave
    /\ pc' = AfterReap(job.op)
    /\ job' = CASE job.op = "stop" -> NoJob
                [] job.op = "destroy" -> job
                [] OTHER -> [job EXCEPT !.idx = @ + 1]
    /\ UNCHANGED <<dirs, max_containers, rootfs, sessionVars>>

\* Mutant of container_manager_destroy: a running container is not stopped.
destroy_without_stop(arg) ==
    /\ pc = "idle"
    /\ \E i \in get_info(containers, arg) : job' = Job("destroy", i, arg, NoPid)
    /\ pc' = "remove"
    /\ UNCHANGED <<kernelVars, containers, max_containers, fileVars, rootfs,
                   sessionVars>>

\* The stop inside destroy looks the entry up again, by its id.
container_manager_destroy(arg) ==
    /\ pc = "idle"
    /\ \E i \in get_info(containers, arg) :
        \E k \in find_container(containers, containers[i].id) :
            IF containers[i].state = "RUNNING" /\ containers[k].state = "RUNNING"
            THEN BeginStop("destroy", k, arg)
            ELSE /\ pc' = "remove" /\ job' = Job("destroy", i, arg, NoPid)
                 /\ UNCHANGED <<kernelVars, containers, max_containers, fileVars,
                                rootfs, sessionVars>>

\* The rest of destroy: the cgroup is that of the entry, the removal looks for
\* the id that was typed.
finish_destroy ==
    /\ pc = "remove"
    /\ dirs' = Rmdir(dirs, containers[job.idx].id)
    /\ containers' = remove_container(containers, job.arg)
    /\ BeginSave
    /\ pc' = IF job.op = "run" THEN AfterFailure ELSE Returned
    /\ job' = NoJob
    /\ UNCHANGED <<procs, children, cgOf, max_containers, rootfs, sessionVars>>

(***************************************************************************)
(* Stopping everything: option 0 of the menu, and SIGINT or SIGTERM.       *)
(***************************************************************************)

\* Mutant of BeginStopAll: the loop misses the first entry.
BeginStopAllButFirst(op) ==
    /\ pc' = "stopping" /\ job' = Job(op, 2, job.arg, job.pid)
    /\ UNCHANGED <<kernelVars, containers, max_containers, rootfs, sessionVars>>

BeginStopAll(op) ==
    /\ pc' = "stopping" /\ job' = Job(op, 1, job.arg, job.pid)
    /\ UNCHANGED <<kernelVars, containers, max_containers, rootfs, sessionVars>>

menu_exit ==
    /\ pc = "idle" /\ mode = "menu"
    /\ BeginStopAll("exit")
    /\ UNCHANGED fileVars

\* main installs the handler behind container_manager_init, the save at the end
\* of load_state included.  Behind container_manager_cleanup the table is freed;
\* what a handler does with it then is in ContainerTable.
HandlerInstalled ==
    /\ pc \notin {"down", "load"}
    /\ pc = "exit" => saving = "yes"
    /\ pc = "idle" /\ job.op = "load" => saving = "no"

\* A signal, on top of whatever the main thread was doing; the handler never
\* returns to it.  A save is given up before the file is opened, or after that;
\* of several saves that handlers have cut short the first one is kept.  The
\* handler's first pass sends SIGTERM, on which a process may exit by itself
\* (ProcExit).
signal_handler ==
    /\ HandlerInstalled /\ At(SignalAt)
    /\ BeginStopAll("signal")
    /\ saving' = "no"
    /\ \/ UNCHANGED <<stateFile, buffer>>
       \/ /\ saving = "yes" /\ stateFile' = <<>>
          /\ buffer' = IF buffer = <<>> THEN ToFile(containers) ELSE buffer

\* container_manager_stop is called with the id of entry job.idx, and reaches
\* the first entry with that id; an earlier one is no longer running.
stop_next ==
    /\ pc = "stopping" /\ job.idx <= Len(containers)
    /\ IF /\ containers[job.idx].state = "RUNNING"
          /\ job.idx \in find_container(containers, containers[job.idx].id)
       THEN BeginStop(job.op, job.idx, job.arg)
       ELSE /\ job' = [job EXCEPT !.idx = @ + 1]
            /\ UNCHANGED <<kernelVars, containers, max_containers, fileVars,
                           rootfs, pc, sessionVars>>

\* The handler's last passes kill what is left in the cgroup of each entry that
\* has, or once had, a process, and mark the created entries.
SweepVictims ==
    UNION {Members(containers[i].id) :
              i \in {k \in DOMAIN containers : containers[k].pid # NoPid}}

stop_all_done ==
    /\ pc = "stopping" /\ job.idx > Len(containers)
    /\ IF job.op = "signal"
       THEN /\ Kill(SweepVictims, {})
            /\ containers' = MarkStopped(containers,
                   {i \in DOMAIN containers : containers[i].state = "CREATED"})
       ELSE UNCHANGED <<procs, children, cgOf, containers>>
    /\ pc' = "closing" /\ job' = Job("none", 0, job.arg, job.pid)
    /\ UNCHANGED <<dirs, max_containers, fileVars, rootfs, sessionVars>>

(***************************************************************************)
(* The specification.                                                      *)
(***************************************************************************)
Create ==
    \/ \E op \in {"create", "run"}, id \in FreshIds :
        container_manager_create(op, id) \/ create_cgroup_fails(op, id)
    \/ \E minimal_fs \in MinimalFs :
        fs_create_minimal_root(minimal_fs) \/ create_fails(minimal_fs)
    \/ \E config \in {"no_command", "command"} : create_entry(config)

Launch ==
    \/ \E arg \in Args : container_manager_start(arg) \/ start_cgroup_fails(arg)
    \/ \E p \in Pids : clone_process(p)
    \/ clone_fails
    \/ add_to_cgroup
    \/ record_running
    \/ foreground_wait

Exec ==
    \/ \E arg \in Args, p \in Pids : container_manager_exec(arg, p)
    \/ exec_return

Halt ==
    \/ \E arg \in Args : container_manager_stop(arg) \/ container_manager_destroy(arg)
    \/ reap_and_record
    \/ finish_destroy
    \/ menu_exit \/ stop_next \/ stop_all_done

Session ==
    \/ container_manager_init \/ load_record \/ load_done
    \/ command_done \/ container_manager_cleanup \/ exit_process

\* The main thread goes on when the save it is in is done.
MainThread ==
    \/ saving = "no" /\ (Session \/ Create \/ Launch \/ Exec \/ Halt)
    \/ save_state

Environment == KernelNext /\ UNCHANGED cmVars

Next == MainThread \/ signal_handler \/ crash \/ Environment

Spec == Init /\ [][Next]_vars

(***************************************************************************)
(* Properties.                                                             *)
(***************************************************************************)

\* Every variable has its type.
TypeOK ==
    /\ KernelTypeOK
    /\ containers \in Seq(Info)
    /\ max_containers \in Nat \ {0}
    /\ stateFile \in Seq(FileRecord)
    /\ saving \in {"no", "yes"}
    /\ buffer \in Seq(FileRecord)
    /\ rootfs \in SUBSET Ids
    /\ pc \in PCs
    /\ job \in Jobs
    /\ mode \in Modes
    /\ sessions \in Nat

Running(i) == i \in DOMAIN containers /\ containers[i].state = "RUNNING"
TableIds == {containers[i].id : i \in DOMAIN containers}
InTable(p) == \E i \in DOMAIN containers : Running(i) /\ containers[i].pid = p
InFile(p) ==
    \E k \in DOMAIN stateFile : stateFile[k].state = "RUNNING" /\ stateFile[k].pid = p

\* add_container never writes behind the end of the array: the table, also
\* one that load_state fills, fits into what was allocated.
TableWithinCapacity == Len(containers) <= max_containers

\* No live process is lost track of: a live child of the manager is the process
\* of a RUNNING entry, or the one that run, start or exec is working on.
AliveChildTracked ==
    \A p \in children : procs[p] = "alive" => InTable(p) \/ p = job.pid

\* As long as the manager that launched a container lives, the pid recorded for
\* a RUNNING entry cannot be given to another process: the entry's process is
\* alive, or it is a zombie.  Only the process that handle_run itself has
\* waited for (job.pid) is an exception.
PidPinned ==
    sessions <= 1 =>
        \A i \in DOMAIN containers :
            Running(i) => containers[i].pid \in children \cup {job.pid}

\* Without a restart, and but for that exception, no call kills a process of the
\* host: what stop, destroy, the menu's exit and the signal handler find under
\* a recorded pid or in a cgroup is the container's.
HostUntouched ==
    [][\A p \in Pids :
          sessions <= 1 /\ p # job.pid /\ procs[p] = "host" =>
              procs'[p] = "host" \/ (HostExit(p) /\ UNCHANGED cmVars)]_vars

\* A stop kills nothing but the process of the container it was asked to stop,
\* neither when it kills nor when it has waited.
StopsOnlyItsOwn ==
    [][(pc # "reap" /\ pc' = "reap") \/ reap_and_record =>
          LET i == IF pc = "reap" THEN job.idx ELSE job'.idx
          IN \A p \in Pids \ {containers[i].pid} :
                procs[p] = "alive" => procs'[p] = "alive"]_vars

\* Without a restart, the live process of a RUNNING container is in the cgroup
\* that carries the container's id, the one whose limits were set for it.
Confined ==
    sessions <= 1 =>
        \A i \in DOMAIN containers :
            Running(i) /\ procs[containers[i].pid] = "alive" =>
                cgOf[containers[i].pid] = containers[i].id

\* Without a restart, there is no cgroup without its container, except the one
\* that create has made and not yet entered into the table, or that a signal has
\* kept it from entering: failed calls and destroy remove what create has made.
\* Between two calls no cgroup is excepted, as there is no job.arg.
NoStrayCgroup == sessions <= 1 /\ pc # "down" => dirs \subseteq TableIds \cup {job.arg}

\* No two entries have the same id.
UniqueIds ==
    \A i, j \in DOMAIN containers : containers[i].id = containers[j].id => i = j

\* The manager may be killed and be started again: it finds every container that
\* is still alive, in its table or in the state file.  A kill inside save_state,
\* or between the clone of a process and its record, is outside of this.
Recoverable ==
    \A p \in Pids : procs[p] = "alive" => InTable(p) \/ InFile(p) \/ p = job.pid

\* When the loop over all containers in the signal handler or in the menu's
\* exit is done, no child is alive, except one that the interrupted call had
\* launched and not yet recorded.
StopAllComplete ==
    [][stop_all_done =>
          \A p \in children : procs'[p] = "alive" => p = job.pid]_vars

\* destroy takes the entry it has looked up out of the table and leaves no
\* live child behind.
DestroyComplete ==
    [][finish_destroy =>
          /\ Len(containers') = Len(containers) - 1
          /\ \A p \in children : procs'[p] = "alive" => InTable(p)' \/ p = job.pid]_vars

(***************************************************************************)
(* The inductive invariants behind the properties (their proofs are in     *)
(* ContainerManagerProofs).                                                *)
(***************************************************************************)

\* What a call in progress holds: the entry and the process it works on.
JobOK ==
    /\ pc \in {"clone", "attach", "commit", "reap", "remove"} =>
          job.idx \in DOMAIN containers
    /\ pc \in {"load", "stopping"} => job.idx >= 1
    /\ pc \in {"attach", "commit", "wait", "exec"} => job.pid \in Pids
    /\ pc \in {"root", "add"} =>
          /\ job.op \in {"create", "run"}
          /\ job.arg \in Ids /\ find_container(containers, job.arg) = {}
    /\ pc = "clone" => job.op \in {"run", "start"}
    /\ pc = "reap" => job.op \in {"stop", "destroy", "exit", "signal"}
    /\ pc = "stopping" => job.op \in {"exit", "signal"}

\* Only a call that has created a process, and a handler on top of it, hold one.
NoPidHeld ==
    pc \in {"down", "load", "idle", "root", "add", "clone", "remove", "failed"}
        \/ job.op \in {"stop", "destroy"} => job.pid = NoPid

\* A manager process has no children before its first call.
NoChildrenYet == pc \in {"down", "load"} => children = {}

\* The entry a launch is for has no process that its pid would overwrite.
LaunchTarget ==
    pc \in {"clone", "attach", "commit"} => containers[job.idx].state # "RUNNING"

\* What remove_container will take out is the entry that was stopped.
DestroyTarget ==
    /\ (pc = "clone" /\ job.op = "run") \/ (pc = "reap" /\ job.op = "destroy") =>
          find_container(containers, job.arg) \subseteq {job.idx}
    /\ pc = "remove" =>
          \A i \in find_container(containers, job.arg) : containers[i].state # "RUNNING"

TypeInv == TypeOK /\ JobOK
TrackingInv ==
    /\ NoPidHeld /\ NoChildrenYet /\ LaunchTarget /\ DestroyTarget
    /\ AliveChildTracked
=============================================================================
