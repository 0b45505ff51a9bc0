# A TLA+ verification of mini-container

mini-container is a small container runtime in C++: a manager process launches
commands in new namespaces, confines them with cgroups, keeps a table of them,
mirrors the table in a state file and shows it on a terminal and over HTTP. This
directory holds TLA+ models of it, TLC configurations and TLAPS proofs. Paths
below are relative to the repository; `x.cpp:n` is `src/x.cpp`, line n.

## 1. The system

| Component | State | Operations | Talks to |
|---|---|---|---|
| container manager (`container_manager.cpp`) | the table `containers`, `container_count`, `max_containers`; the state file | init, create, run, start, stop, destroy, exec, list, get_info, cleanup; save_state, load_state | resource manager, namespace handler, filesystem manager by calls; its containers by signals and `waitpid` |
| command line, menu, signal handler (`main.cpp`) | `running`, the terminal | one command per process, or any number from the menu; SIGINT and SIGTERM stop everything | the container manager; shares the table with the web server |
| resource manager (`resource_manager.cpp`) | cgroup version; directories and limits below `/sys/fs/cgroup` | create, add_process, destroy, get_stats | the kernel |
| namespace handler (`namespace_handler.cpp`) | none | clone, set up mounts in the child, join | calls the manager's cgroup callback 1 ms after the clone |
| filesystem manager (`filesystem_manager.cpp`) | a directory per minimal root | create, populate, mount, cleanup; chroot | the container manager calls create and populate; the others are interface only |
| web server (`web_server_simple.cpp`, `web_server_main.cpp`) | a thread, a socket, CPU samples by container id | start, stop, three GET requests | reads the manager's table from its own thread |
| monitors, formatting, self tests (`main.cpp`) | none that others read | read only, or never called | |

What is hard here:

* **Processes come and go by themselves.** The manager polls nothing. The pid in
  an entry may be alive, a zombie, free, or somebody else's.
* **A launch is not atomic.** clone, a sleep, the move into the cgroup, the pid
  in the table, the save: a signal or a crash may come between any two.
* **The manager restarts.** Containers outlive it; the state file has no
  configurations, and loading renames and drops records.
* **Three lookups.** Containers are found by id or by pid, stopped by id, removed
  by what was typed; stopped entries keep their old pid.
* **Every step may fail**, and each error path must undo the steps before it.
* **Threads and a handler share the table** without a lock.

What makes each component correct:

* container manager: no live process is lost, no foreign process is killed, stop
  and destroy reach what they were asked for, ids are unique, a new manager finds
  what the old one left, the table stays in its array;
* resource manager: the process of a container is in its own cgroup, none is left
  over, the limits written are the ones asked for;
* namespace handler: a child that could not be isolated never executes its
  command, its mounts do not reach the host;
* web server: requests that read no freed memory although they take no lock, a
  shutdown that ends;
* command line and handler: after a shutdown no container is alive.

The hazards, each at its line, are in `PROJECT.json`.

## 2. Modules

| Module | What it is |
|---|---|
| `Kernel` | process table, children of the manager, cgroups: what the manager uses of Linux, external |
| `ContainerManager` | the manager, its callers and its state file; properties and inductive invariants |
| `Lifecycle` | abstract: the documented states of a container, one step per call |
| `ContainerTable`, `TableSpec` | the table as memory, store by store, with the server thread and the handler; abstract: a list |
| `StateFile` | save_state and load_state, line by line, with crashes and several managers |
| `ContainerIds` | ids as C ints |
| `Configurations` | who owns the memory of a configuration; the menu's memory and CPU test |
| `ResourceManager`, `CgroupSpec` | directories, limits and memberships on cgroup v2 and two v1 layouts; abstract: one group per container |
| `Limits` | from the numbers a user types to the limits in the cgroup |
| `NamespaceHandler` | the child between clone and exec; the joins of `container_manager_exec` |
| `FilesystemManager` | building, populating, mounting and cleaning a root |
| `WebServer` | server thread, main thread, signal handler: start, stop, shutdown |
| `Dashboard`, `SystemInfo` | the samples behind `/api/containers` and `/api/system` |
| `Terminal` | raw mode, cursor and keys of the menu and the monitor |
| `MCContainerManager`, `MCWebServer`, `MCRecords`, `MCIsolation`, `MCConsole` | instances for TLC |
| `DocumentedClaims` | sentences of the documents that the code does not live up to |
| `ContainerManagerProofs` | theorems: types, capacity, children tracked |
| `RecoveryProofs` | theorems about ids, shutdown and the state file |
| `SessionProofs` | theorems about pids, cgroups, stop and destroy |
| `LifecycleProofs` | theorem: the manager implements `Lifecycle` |
| `RecordsProofs` | theorems about `ContainerTable` and `StateFile` |
| `IsolationProofs` | theorems about `NamespaceHandler`, `ResourceManager` and `FilesystemManager` |
| `WebServerProofs` | theorems about `WebServer`, `Dashboard` and `SystemInfo` |
| `ConsoleProofs` | theorems about `Terminal`, `Limits`, `ContainerIds` and `Configurations` |

`ContainerManager` is the composition: it has every call of the manager with
processes, cgroups and the state file. The other modules take one of its
abstractions and model the code below it in finer steps:

* a table that changes in one step: `ContainerTable` (refines `TableSpec`);
* a state file of whole records: `StateFile` has the lines, and writes by parts;
* one cgroup per container: `ResourceManager` (refines `CgroupSpec`, which is
  `Kernel`'s view);
* a process that runs its command once it is cloned: `NamespaceHandler`;
* a root that is built or not: `FilesystemManager`;
* numbers without a width: `ContainerIds`, `Limits`;
* a server that is not there: `WebServer`, `Dashboard`, `SystemInfo`.

### Kernel

`procs[p]` is what pid p stands for: `free`, `host` (an unrelated process),
`alive` (a container's process, or the one `exec` has forked) or `zombie`.
`children` are the pids whose parent is the manager, `cgOf[p]` the container
cgroup that p was moved to, `dirs` the container cgroups that exist. A process
stands for the tree below it: the first process of a PID namespace takes its
tree with it. A pid is free for anybody as soon as its process is dead and
collected; a dead child of the manager is collected by the manager only, any
other by init. `rmdir` of a cgroup with processes fails. A pid may be reused at
once: Linux hands pids out in a cycle, and the model leaves out how long a
round takes.

### ContainerManager

| Variable | Code |
|---|---|
| `containers` | `cm->containers[0 .. container_count-1]`: id, pid, state, saved_config (null, without a command, with one) |
| `max_containers` | the length of that array |
| `stateFile` | the records of `containers.json` |
| `saving` | whether the main thread is in `save_state` |
| `buffer` | the records of a save that a signal cut short, which stdio still holds |
| `rootfs` | ids for which `fs_create_minimal_root` built a root; nothing removes one |
| `pc`, `job` | where the main thread is, and the locals of the call in progress |
| `mode` | whether the process shows the menu or executes one command |
| `sessions` | manager processes so far |

A call has a step wherever a signal or a crash in between would be noticed: where
it sleeps or waits, between the cgroup, the root and the entry of a create, and
before and after every save.

| Actions | Code |
|---|---|
| `container_manager_init`, `load_record`, `load_done` | `container_manager_init` and `load_state`, a step per record |
| `container_manager_create`, `create_cgroup_fails`, `fs_create_minimal_root`, `create_entry`, `create_fails` | `container_manager_create`, also for run: the cgroup, or its failure, which on v1 may leave a directory; the root; the entry; the undoing of the first two |
| `container_manager_run`, `container_manager_start`, `start_cgroup_fails` | up to the clone |
| `clone_process`, `clone_fails`, `add_to_cgroup`, `record_running` | `namespace_create_container_with_cgroup`, its callback, the record of pid and state |
| `BeginSave`, `save_state` | the end of every call that saves, and the save itself |
| `foreground_wait` | `handle_run`'s `waitpid`; with `-d`, or while the process lives, it does not happen |
| `container_manager_exec`, `exec_return` | fork, then `waitpid` |
| `container_manager_stop`, `reap_and_record` | the kills; then the end of the loop of up to 5 s, the record |
| `container_manager_destroy`, `finish_destroy` | the stop inside; then cgroup and removal |
| `menu_exit`, `signal_handler`, `stop_next`, `stop_all_done` | option 0 of the menu; the handler, entry by entry, and its last passes |
| `command_done`, `container_manager_cleanup`, `exit_process`, `crash` | the ways a manager process ends |
| `Environment` | processes end, host processes appear and end |

Choices worth knowing:

* An id that is a decimal numeral is modelled by its value, since the code mixes
  ids, pids and generated numbers; other ids are model values. `007` and `7` are
  one id here and two strings in the code.
* A call that returns an error before it has changed anything is no step, except
  that it may end a command-line process (`command_done`).
* The handler never returns to the call it interrupts. `job.pid` keeps the
  process which that call had launched, so that properties can name it. The
  handler's first pass sends SIGTERM, which a process may follow or ignore; a
  process may end at any time anyway, so the pass is not a step of its own.
* A collected child has `waitpid`'s result and the entry's update in one step.
  For a process that is not a child the loop times out, and the pid is killed
  again; meanwhile it may have gone to somebody else.
* `save_state` truncates the file at `fopen` and has stdio write it until `fclose`.
  A crash inside it leaves the old file, or any number of the new records from none
  on (`Unfinished`). A signal inside it leaves what was not written in stdio's
  buffer, and `exit()` writes that over whatever the handler's own save has put
  into the file (`Flushed`); of several saves that were cut short, the first is
  kept. `fopen` may fail, silently; a full disk is not modelled.
* A signal behind the handler's cleanup is in `ContainerTable` and `WebServer`, where
  the memory it would meet is.
* `container_manager_create` is called by run only, but is a public function
  (docs/api.md); the model lets the menu call it by itself too, which adds
  CREATED containers that can be started later.
* The web server is in `WebServer`; `closing` is where the main thread joins it.
* One cgroup directory stands for the v2 directory, or for the v1 ones together;
  `ResourceManager` shows what the layouts make of it.

Constants bound the instance: `MaxTable` containers, generated ids up to `MaxId`,
`MaxSessions` processes, `Pids`. `Faults` are the steps that may fail, `SignalAt` and
`CrashAt` the program points where a signal may strike and where the process may be
killed; "save" is the inside of a save. The theorems hold for every value of all of them, within the hypotheses they state.

### The finer models

**WebServer.** A thread is a stack of frames; a signal pushes a frame of
`signal_handler` on the main thread or on the server thread, wherever it is.
`stop()` is four steps (check, clear the flag, close, join), the destructor,
`delete` and the pointer have their own. `struck` is history: the points of the
main thread where signals have come. Destroying a joinable `std::thread`
aborts, use of a freed object is undefined; `process` records both. A request may
also end the program by the exception that `std::stoul` throws at
`web_server_simple.cpp:180` (fault "stoul", `process` is then "uncaught"). Closing a
descriptor does not wake a thread that is blocked in accept. `mode` is how the
program was started: menu, a command, run, or mini-container-web.

**ContainerTable.** Arrays and entries are blocks that are allocated or freed;
`add_container` and `remove_container` take a step per store. The server thread
copies count and pointers, then follows them. Using a freed block is recorded in
`fault`, and the behaviour ends there. `cause` is history: what has happened to the
current request that may lead to it, which is "broken" (it began while the table was
not whole), "moved" (the array was freed before the entries were collected) or
"freed" (an entry it was still to read).

**StateFile.** A record is three lines; brackets are left out, as load_state
skips them. `save_open` empties the file, `save_write` writes what the buffer
holds, whole or cut in a line, at this process's own offset. Managers share the
file and nothing else, and each takes ids of its own. `chunked` is chosen at the
start: whether the file is longer than the buffer of stdio and written in parts.
`together` is history: two managers have been up at the same time.

**ContainerIds.** An int has the values -`Half` .. `Half`-1; the code's `Half` is
2^31. Only its order and its wrap matter, so `Half` = 4 shows both sides.

**Configurations.** Blocks are pairs of an owner and a field. The test of the
menu (option 9) fills a configuration, run copies it field by field, the test
frees its own; any allocation and any call may fail.

**ResourceManager.** A call is one step with the sets of controllers for which
mkdir or a write fails. `forget` is a restart of the manager that does not bring
the container back; its directories stay. `dropped` is history: the names whose last
container was forgotten, or destroyed while a process held a directory.

**Limits.** Both conversions are int products. TLC's integers are no wider, so
memory is counted in MB and the product of shares and period in units of 32; the
wraps are those of 2^32. Options come in any number and order.

**NamespaceHandler.** A mount namespace maps each target to the owner of the file
system on top. `shared` are the containers that are still peers of the host: what
they mount, the host sees. A busy target (EBUSY) is skipped, any other failure
ends the child. `parent` is chosen at the start: whether the manager has launched
the containers itself, so that their pids stay taken until it waits for them.

**FilesystemManager.** `mkdir_p` keeps its stack of frames; each system call is a
step that may fail. The lists are cut down to their shape: a directory inside
another, devices, files, mount points. `users` is history: who has used the path.

**Dashboard, SystemInfo.** The counters are small numbers, a negative difference
is the unsigned wrap. Samples carry the second they were taken in; within the same
second nothing is shown and the sample is replaced all the same, and the clock, which
is the time of day, may be set back. Ids are used again. `truth` and `suspect` are
history: the counter and the time of the last request that found this very container
running; whether iowait was taken back in the interval of the answer. A read that fails leaves 0, as in the code.

**Terminal.** `menu_old` and `monitor_old` are the two local variables `old_term`.
The monitor reads one key in a turn of five seconds. `killed` is set when the
handler ends the program.

## 3. Runs

Each takes less than three minutes; counts are distinct states.

| Run | Instance | Checks |
|---|---|---|
| `lifecycle` (751 000) | 1 session, 2 pids, up to 3 containers, first array of length 1, numerals that are no pids; clone and realloc fail; signals and crashes anywhere | `TypeOK`, `Confined`, `NoStrayCgroup`, `StopsOnlyItsOwn`, `DestroyComplete`, `ImplementsLifecycle` |
| `faults` (1 740 000) | 1 session, pids 2 and 3, which are possible ids and arguments as well; every fault but a failing save; signals and crashes anywhere | `PidPinned`, `HostUntouched`, `StopAllComplete` |
| `recovery` (467 000) | 3 sessions, a named and numbered containers, signals and crashes anywhere but inside a save, between clone and record, and in exec | `TableWithinCapacity`, `Recoverable` |
| `stale_file` (1 789 000) | 2 sessions, saves and reallocs fail, crashes anywhere, signals anywhere but inside a save, numeric ids | `AliveChildTracked`, `UniqueIds` |
| `web_server` (1 216 000) | scenes `life`, `page`, `host` | `Graceful`, `QuietAtCleanup`, `SocketReleased`, `ShutdownEnds`; `UsageExact`; `PercentInRange` |
| `records` (2 018 000) | scenes `memory`, `disk` | `TableSound`, `RequestSafe`, `HandlerSafe`, `ImplementsTable`; `LoadedWasSaved`, `SavedWhenIdle` |
| `isolation` (115 000) | scenes `groups`, `spaces`, `root` | `LimitsInForce`, `MemoryConfined`, `LimitsOwned`, `ImplementsCgroups`; `HostMountsUntouched`, `CommandIsolated`, `ExecReachesContainer`; `FailsOnlyOnFault`, `RootUsable` |
| `console` (199 000) | scenes `keys`, `numbers`, `names`, `test` | `TerminalRestored`, `QuitEndsMonitor`; `CpuProportional`, `MemoryAsAsked`; `RefusedOnlyAtLimit`; `NothingLeaks` |

The last four put several modules into one run. The MC module extends the modules
themselves, so that the runs check the very definitions the theorems state. A
behaviour chooses one *scene*, that is one of the modules, and stays in it; the
variables of the others keep their initial values. The modules in a run share no
state, and every property speaks of one of them, so this explores exactly what a
run per module would.

| Scene | Module | Bounds (states) |
|---|---|---|
| `life` | `WebServer` | 4 ways to start, 2 signals anywhere, 2 clients, all faults (184 000) |
| `page` | `Dashboard` | 2 ids, used again and again, counters up to 2, reads that fail, a clock of 3 seconds that may be set back (1 027 000) |
| `host` | `SystemInfo` | 6 ticks (5 500) |
| `memory` | `ContainerTable` | 3 entries, array doubled twice, handler between calls and up to the count in add_container, one request at a time at any point of any call (735 000) |
| `disk` | `StateFile` | 2 managers, killed anywhere, 3 starts, 2 containers, a file that is longer than the buffer or not (1 282 000) |
| `groups` | `ResourceManager` | 2 names, 1 process, 3 layouts, every mkdir and attach may fail (54 200) |
| `spaces` | `NamespaceHandler` | 2 containers, every mount may fail, the manager is the parent or pids may be reused (4 700) |
| `root` | `FilesystemManager` | 2 processes with 4 calls in all, every call may fail (55 900) |
| `keys` | `Terminal` | menu and monitor, 5 keys, signals (139 000) |
| `numbers` | `Limits` | 0 to 2047 MB, 0 to 21474 shares, 2 containers, every write may fail (49 100) |
| `names` | `ContainerIds` | 4 non-negative ints, numerals on both sides, 3 entries (11 200) |
| `test` | `Configurations` | 2 tests of 3 containers (480) |

Two pids and two or three containers are enough for what can go wrong between
containers: an entry shadowing another, one process taking the pid of another,
a shift of the table below a running loop, an array that has to grow. A third
session is enough for a record to be loaded, saved by the load and loaded again.
Two signals are enough for a handler on top of a handler; two samples and a third
request for an error that would stay; three seconds for two requests in one second, in
two, and in the wrong order.

The limits of these instances say where the code's guarantees end:

* `NoStrayCgroup` allows the directory of a create in progress, also of one that a
  signal ends; it does not hold when the creation of a cgroup fails half-way on v1.
* `Confined`, `NoStrayCgroup`, `DestroyComplete` and `ImplementsLifecycle` hold for
  containers that are addressed by id, in one session. They fail when a pid is
  typed, and after a restart renamed containers no longer have the id their
  cgroup is named after.
* `PidPinned` and `HostUntouched` hold as long as the manager that launched the
  containers lives, and not for the process `handle_run` has waited for.
* `Recoverable` needs signals and crashes to stay out of the window between clone and
  record and out of a save, and saves that succeed. A process that exec has forked is
  in no file, so a crash during exec is outside too.
* `UniqueIds` needs ids that are numerals and no signals inside a save, or a single
  session.
* `Graceful` and `QuietAtCleanup` are stated for behaviours with at most one signal,
  at one of `SafePoints` (`Calm`): before the server is started, at work, before
  `stop()`, before it has cleared its flag, and behind the join up to the release of
  the object. Excluded are the creation of the thread, the points of `stop()` behind
  the flag, everything behind the menu's delete, where the pointer is stale, and the
  handler itself. A signal at any of these breaks `Graceful`. The end by an
  exception in a request is not excluded by it: it is no shutdown.
* `HandlerSafe` holds between calls and in add_container up to the count. Behind
  it the new slot is empty, and inside remove_container an entry is freed or there
  twice.
* `RequestSafe` does not say that requests are safe: it says that what breaks one is one
  of the three causes in `cause`, and that no other overlap of a request with calls,
  failing calls and signals does. `ListReturned`, without the causes, is refuted.
* `SavedWhenIdle` says something as long as no two managers have been up at once,
  and `LoadedWasSaved` also then, unless the file is written in parts.
* `ExecReachesContainer` promises the right container while the manager is the
  parent, `FailsOnlyOnFault` a build that works as long as nobody else has used the
  path, `TerminalRestored` a sane terminal after the menu, unless a signal ends it. The
  `monitor` and `htop` commands do end in raw mode when they are left by 'q'
  (`main.cpp:618`, 1969-1974): nothing restores what the loop's `break` skips.
* `LimitsOwned` leaves out names whose last container was forgotten or destroyed while
  a process held a directory: the next one takes its limits over.
* `UsageExact` leaves out the answer behind a counter that could not be read, and the
  first answer about an id that was given out again; `CpuProportional` ends at
  21474 shares and `MemoryAsAsked` at 2047 MB, the largest values whose products
  fit an int.

### Fairness

Two properties are of liveness. `ShutdownEnds` assumes weak fairness of the main
thread and of the server thread, which the system schedules independently, and of
the browser: the page polls by itself (`setInterval`, `web_server_simple.cpp:514`),
and whoever has connected sends a request or closes. Without
the browser the property fails (`claim_shutdown_ends`). `QuitEndsMonitor` assumes
weak fairness of the main thread only; keys and signals are never forced. No
other property needs fairness.

Deadlock is checked in the four runs of `ContainerManager`; in the others the
program may end, or a bound on keys, calls or starts is reached.

### Refinements

* `ImplementsLifecycle`: the table of `ContainerManager`, seen as a function from
  ids to states, only takes the steps of `Lifecycle`. A container that is RUNNING
  never leaves the table without a stop, and a shutdown retires containers only
  when nothing runs.
* `ImplementsTable`: the stores of add_container and remove_container are one
  append or one removal that keeps the order; while a call is in progress the
  abstract list is the one before it.
* `ImplementsCgroups`: a group exists when all directories that carry limits do,
  and a process is in it when it is in all of them; creation, attachment and
  removal with any failures are steps of one group per container.

### Claims that do not hold

Four runs state a sentence of the documents or of a message and end with a
behaviour of the code that contradicts it.

| Run | What happens |
|---|---|
| `claim_unique_ids` | The table holds `n1` and `1`. After a restart, `n1` is renamed to 1 and the record of 1 is loaded behind it. |
| `claim_all_stopped_at_exit` | SIGINT after the clone and before the record: the handler marks the entry stopped and exits, the process lives on. |
| `claim_stop_kills_containers_only` | `run` in the foreground waits for its process; the kernel reuses the pid; on SIGINT the handler stops the entry, which is still RUNNING, and kills the new owner of the pid. |
| `claim_shutdown_ends` | Nobody connects any more: the server thread stays in accept, and the shutdown in join. |

Nor does the code have the following properties. They are in no run; each is
refuted within seconds when it is checked on its module with the constants given
here. "Without" a condition means the property of section 3 with that condition
left out.

| Module, property | Constants | What happens |
|---|---|---|
| `DocumentedClaims`, `RunningIsActive` | 1 pid, 1 container | A process ends by itself: its entry stays RUNNING. |
| `DocumentedClaims`, `StoppedRestartable` | 2 sessions | A reloaded container that is stopped has no configuration to start from. |
| `DocumentedClaims`, `DedicatedCgroup` | `Pids` = {2, 3}, `Args` = {1, 2} | Container 1 is started by its old pid 2 and joins the cgroup of container 2. |
| `ContainerManager`, `DestroyComplete` | `Args` with a pid | destroy by pid stops the container and leaves its entry. |
| `ContainerManager`, `NoStrayCgroup` | `Faults` = {"cgroup"} | On v1 the second directory cannot be made: create fails and leaves the first. |
| `ContainerManager`, `Recoverable` | `CrashAt` = {"save"} | The manager is killed between the `fopen` and the `fclose` of a save: the records of live containers are gone. |
| `WebServer`, `Graceful` without `Calm` | `SignalAt` = {"join"} | A signal in the menu's `stop()` deletes an object whose thread is joinable. |
| `WebServer`, `Graceful` without `Calm` | `SignalAt` = {"null"} or {"cleanup"} | The menu has deleted the server and not yet left: the handler stops and deletes it again. |
| `WebServer`, `QuietAtCleanup` without `Calm` | `SignalAt` = {"assign"} | The thread runs and `server_thread_` does not refer to it yet: the handler does not join it. |
| `WebServer`, `Graceful` without `Calm` | `MaxSignals` = 2, `SignalAt` = {"work"} | The second handler runs on the server thread, or on top of the first. |
| `ContainerTable`, `ListReturned` | 2 entries | A request reads an entry or array that the main thread has freed. |
| `ContainerTable`, `HandlerSafe` | `InterruptAt` = {"shift"} | The handler meets a freed entry. |
| `StateFile`, `LoadedWasSaved` without its condition | 2 managers | Each writes a long file in parts, over the other's: the next manager loads a record that has an id and no pid, which then counts as CREATED. |
| `StateFile`, `StaysListed` | 2 managers, or 1 with crashes | A manager overwrites the other's records; a killed one leaves an empty file. |
| `ContainerIds`, `AutoIdFresh` | `Half` = 4, `Typed` = {3} | Behind the largest int the second unnamed container is refused. |
| `Limits`, `MemoryAsAsked` | `Mbs` with 4096 | 4096 MB wrap to 0, which is no limit. |
| `Limits`, `CpuProportional` | `Shares` with 21475 | The quota wraps and becomes a hundredth of a core. |
| `ResourceManager`, `CpuConfined` | "v1_split", `AttachFaults` = {"cpu"} | A process in the cpuacct group only counts as attached. |
| `ResourceManager`, `DedicatedLimits` | 1 name | A directory is taken over with limits that were not asked for. |
| `NamespaceHandler`, `ExecInContainer` | any | exec joins the namespaces of the process that has the pid now. |
| `NamespaceHandler`, `ExecInPidNamespace` | any | setns moves later children, not the command itself. |
| `FilesystemManager`, `FailsOnlyOnFault` without `Alone` | 2 builders, no faults | The second mkdir of mkdir_p takes the other's directory for an error. |
| `FilesystemManager`, `CleanupRemovesRoot` | 1 builder | rmdir of a root that is not empty is taken for success. |
| `Dashboard`, `NoWrap` | 1 id | The sample of a destroyed container is subtracted from its successor's. |
| `Dashboard`, `RequestAnswered` | `Quotas` with FALSE | `std::stoul("max")` throws in the server thread. |
| `SystemInfo`, `PercentAlways` | any | A receding iowait counter wraps. |
| `Terminal`, `TerminalRestored` without `program = "menu"` | `Programs` = {"monitor"} | 'q' leaves the loop of the monitor command in raw mode, and the program ends. |
| `Terminal`, `TerminalRestored` without `~killed` | `Signals` = TRUE | The handler exits with the terminal in raw mode. |
| `Configurations`, `CallsReturn` | `AllocFaults` with "text", or `RootPaths` with "garbage" | A failed copy frees the words twice; the copy follows a pointer nobody has set. |
| `Configurations`, `TestTellsTheTruth` | `AllocFaults` = {"caller"} | The test reports success whatever failed. |

### Mutants

Every property of a passing run has a mutant, directly in front of the
definition it alters: a missing increment, guard, save, callback, join or undo, a
wider kill, a swapped order, an off-by-one. TLC refutes the property on each.

## 4. Proofs

Thirty-eight theorems hold for all values of the constants: any numbers of pids,
ids, containers, entries, sessions, managers, clients and keys, files of any length,
any faults, any points of interruption. Every invariant that a run checks is one
of them.
They rest on the named assumptions of the modules (pids are positive, names are
not numbers, the first array is not empty, "host" is not a container, constants
have their types). A theorem that needs more says so as a hypothesis, and the
instance of the run satisfies it.

| Theorem | Property | Hypotheses |
|---|---|---|
| `ContainerManagerProofs` | | |
| `TypeCorrect` | `TypeOK` | |
| `CapacityRespected` | `TableWithinCapacity` | |
| `ChildrenTracked` | `AliveChildTracked` | |
| `RecoveryProofs` | | |
| `IdsUnique` | `UniqueIds` | `NewIds \cap Names = {}` and "save" not in `SignalAt`; or `MaxSessions <= 1` |
| `EverythingStopped` | `StopAllComplete` | the same |
| `ContainersRecoverable` | `Recoverable` | no faults "save" and "realloc"; `SignalAt` and `CrashAt` without "attach", "commit", "exec", "save" |
| `SessionProofs` | | |
| `PidsPinned` | `PidPinned` | |
| `HostsSpared` | `HostUntouched` | |
| `DestroysCompletely` | `DestroyComplete` | `Args \cap Pids = {}` |
| `NoCgroupLeft` | `NoStrayCgroup` | the same, no fault "cgroup" |
| `ProcessesConfined` | `Confined` | `Args \cap Pids = {}`, no fault "attach" |
| `StopIsSelective` | `StopsOnlyItsOwn` | `Args \cap Pids = {}`, `MaxSessions <= 1` |
| `LifecycleProofs` | | |
| `LifecycleImplemented` | `ImplementsLifecycle` | `Args \cap Pids = {}`, `MaxSessions <= 1` |
| `RecordsProofs` | | |
| `TableStaysSound` | `TableSound` | |
| `RequestsAreSafe` | `RequestSafe` | |
| `HandlerIsSafe` | `HandlerSafe` | `InterruptAt` within "idle", "realloc", "resize", "count" |
| `TableImplemented` | `ImplementsTable` | |
| `LoadsWhatWasSaved` | `LoadedWasSaved` | |
| `TableIsSaved` | `SavedWhenIdle` | |
| `IsolationProofs` | | |
| `LimitsAreInForce` | `LimitsInForce` | |
| `LimitsAreOwned` | `LimitsOwned` | |
| `MemoryIsConfined` | `MemoryConfined` | |
| `CgroupsImplemented` | `ImplementsCgroups` | |
| `MountsContained` | `HostMountsUntouched` | |
| `CommandsIsolated` | `CommandIsolated` | |
| `ExecReaches` | `ExecReachesContainer` | |
| `BuiltRootsUsable` | `RootUsable` | |
| `RetriesSucceed` | `FailsOnlyOnFault` | |
| `WebServerProofs` | | |
| `SpecSocketReleased` | `SocketReleased` | |
| `SpecGraceful` | `Graceful` | |
| `SpecQuietAtCleanup` | `QuietAtCleanup` | |
| `HostPercentInRange` | `PercentInRange` | |
| `PageUsageExact` | `UsageExact` | |
| `ConsoleProofs` | | |
| `MenuRestoresTerminal` | `TerminalRestored` | |
| `MemoryReachesCgroup` | `MemoryAsAsked` | all of `Mbs` at most 2047 |
| `SharesReachCgroup` | `CpuProportional` | all of `Shares` at most 21474 |
| `TestLeavesNothing` | `NothingLeaks` | |
| `AutoIdsFreshBelowLimit` | `RefusedOnlyAtLimit` | |

The hypotheses mark where the code's guarantees end; behind each of them but one there
is a behaviour of the code that breaks the property (section 3).

* *No names, or one session*: `load_state` renames a container whose id is not a
  number, possibly to an id that a later record has.
* *No pid is typed*: `container_manager_get_info` finds containers by pid as well,
  the other lookups do not, and a numeral may be the id of one container and the
  pid of another.
* *One session*: a reloaded container may have another id than its cgroup, and
  its pid is not pinned by a parent.
* *No signal inside a save*: what it leaves in stdio's buffer is written at exit, over
  the file that the handler has written since. How many of its records that replaces
  depends on their lengths in bytes; `Flushed` allows any number up to
  the number that is written, and with some of them, and a handler whose saves fail, the file would
  have an id twice. This is the one hypothesis that may be stronger than the code needs.
* *Saves, reallocs, signals, crashes*: a failed save leaves an older file, a failed
  realloc drops the rest of the file, a signal or crash between clone and record
  loses the process, and one inside a save loses records. All other points are
  allowed.
* *The cgroup*: when its creation fails on v1, the directory that was made first stays.
* *The attach*: the callback's result is ignored, so a process whose attach failed
  runs outside its cgroup.
* *Program points of the handler*: at "assign" the pointer dangles, at "store" the
  last slot is empty, at "shift" an entry is freed or there twice.
* *2047 and 21474*: with the next number the int product wraps.

Conditions that depend on the behaviour and not on the constants (`Calm`, `cause`,
`dropped`, `together`, `parent`, `Alone`, `killed`, `suspect`, the histories in `truth`) are part of the properties, so that the run
and the theorem speak of the same formula.

### The container manager

**Types.** `TypeOK` is not inductive: `reap_and_record` indexes the table with
`job.idx`, `record_running` writes `job.pid` into it. `TypeInv` adds `JobOK`, which
says that a call in progress works on an entry that exists and on a pid that the
kernel can have. The delicate step is the removal of an entry: no call is in
progress behind it that still holds an index.

**Children.** `AliveChildTracked` says that a live child is the process of a
RUNNING entry or held by the call in progress. `TrackingInv` strengthens it by
what each kind of step needs:

* `NoPidHeld`: a call that ends forgets no process, since only run, start, exec
  and a handler on top of them hold one;
* `NoChildrenYet`: a manager that is loading has no children;
* `LaunchTarget`: the entry whose pid a launch overwrites is not RUNNING, so no
  process is dropped from the table by `record_running`;
* `DestroyTarget`: the entry that `remove_container` will find under the typed id
  is not RUNNING. destroy has stopped the entry found by id or pid, so if the
  typed id finds anything at all, it is the same entry.

The last two are where the three lookups meet; `ChildrenTracked` holds also with
duplicate ids, lookups by pid and stale files.

**Ids.** `UniqueInv` adds to `UniqueIds` that the records of the file have distinct
ids too, and that while `load_state` runs, the entries it has made come from the
records in front of its position: the next record cannot have the id of one of
them. That needs ids that are not renamed (`NumericOnly`), or a file that is empty
because the session is the first (`FirstFile`). What a crash leaves of a save is a
first part of the table's records, and so has each id once; `SavesInCalls` says that no
buffer of an earlier save is there to be mixed with it. A generated id is larger than
every number in the table.

**Shutdown.** `StoppedSoFar` says that the loop over all containers leaves no
RUNNING entry in front of its index. Each turn looks its entry up again by id,
which reaches the entry itself as ids are unique. At the end no entry is RUNNING,
and by `ChildrenTracked` no child is alive but the one in the interrupted call's
hands.

**Recovery.** `RecoveryInv` says that every RUNNING entry is RUNNING in the file, or a
save is about to put it there (`Synced`), and where a live process is found, depending on where the manager is
(`AliveFound`): in the file while there is no manager, in the loaded part of the
table or in a record still to be read while it loads, afterwards in the table or
in the hands of a launch. Together they carry a process through a crash and the
next load, any number of times.

**Pids and host processes.** `PinInv` says, for the first session, that a RUNNING
entry has a pid of its own (`OwnPid`), that the process has not been waited for
(`NotCollected`), and that a process in a launch's or an exec's hands is no entry's
(`HeldPid`). What a kill reaches is then a child, and not the host's. Both
properties are stated for the first session and leave out the process that
`handle_run` has waited for; within that they need no hypothesis.

**Cgroups, stop and destroy.** `TargetNamed` says that the entry a call works on has
the id it was given: what a destroy has stopped is what it removes. With it,
`CgroupInv` accounts for the cgroups of the first session: every directory belongs
to an entry, or to a create that has made it and has not come to its entry, or was
ended by a signal before (`Pending`, `DirsKnown`); a process in one is that of the
RUNNING entry with this id or is being launched (`CgroupOwned`), and it is alone there
(`CgroupExclusive`), so that the rmdir behind a stop succeeds and a stop that kills the members of the cgroup kills
nobody else. `ConfinedInv` adds that a process is attached before its pid is
recorded.

**Refinement.** `LifecycleImplemented` maps the table to the function from the ids
a user can name to the states of their entries, "absent" for those that have none.
Each action is matched with a step of `Lifecycle` or a stutter; the invariants above
supply that the action finds the container in the state which the abstract step
asks for, and that no other container changes.

### The table as memory

`MemoryInv` describes the table at every program point between the stores: `Shape`
for pointer and length, `Contents` for what is in the slots: all allocated blocks,
each once (`Holds`); all but the new entry, with the list from before the call
(`Began`); or, inside remove_container, the old list with the entries behind the
removed one moved up as far as the index (`Removing`). `TableSound` is its instance
between calls, and the two steps that change the abstract list are read off at the
last store (`AddStoreMemory`, `RemoveCountMemory`).

For the server thread, `WebInv` says what a request without a cause for a fault has
before it (`Undisturbed`): the entries it has collected and not rendered are `Alive`,
that is allocated, and not the one which a failing add_container is about to free; and
while it still collects, its array is the allocated one and every slot up to its count
holds an entry that is alive (`Collecting`). Each store of a call is shown to keep
that or to be one of the causes: an add fills a slot behind the request's count, a
shift puts a live entry in the place of another, a free takes an entry that the request
is behind, or is a cause. The count may have fallen below the request's meanwhile; the
slots behind it keep their old entries. For the handler, `HandlerInv` says that what it walked over at
a safe point is still there when `container_manager_cleanup` frees it.

### The state file

`FileInv` has two parts. `FileShape` holds unless two managers write a long file in
parts: the file is `Regular`, which means that every id line has its own pid line
and brace behind it, as far as the file goes, and that lines which lost their
beginning stand where an id would. `Solo` holds as long as no two managers have
been up at once: the file is a first part of what one save writes (`Writing`), no id
is in it twice, and a table holds live containers, each once.

`load_state` is a recursive function over the lines of the file. That such a
function exists for every file (`LoopDefined`), and what it has read after n lines
(`RecordStep`, `LoadedRecords`), is an induction over n; the provers cannot
instantiate the library's induction rule, so `UpTo` derives induction over a set of
numbers from the smallest counterexample, which well-foundedness provides. From a
regular file it loads pairs of an id and its own pid only; from the `Lines` of a
table of live containers it loads that table (`LoadWhatWasSaved`). `WriteFacts` and
`OverwriteRegular` say what a write at an offset makes of the file.

### Cgroups

`ResourceInv` are types, `LimitsInForce`, `MemoryConfined` and `LimitsOwned` together. A
create that fails has written no limit, so what it leaves is unlimited, and a destroy
of a group without processes removes the limits with the directories. The
refinement needs one more fact, which the code gets from the kernel: where a
process is in all directories of a group, no rmdir succeeds, so a group that
confines a process stays complete.

### Namespaces

`HostMountsUntouched` is not inductive: a mount by a peer of the host would show
on the host. `MountInv` adds `OwnMounts`: a process that has begun to mount is no
peer any more, and has its own file system on every target it is behind. A mount
then changes one namespace only (`MountStep`), and at the last step every target
is behind the process, which is `CommandIsolated`.

For exec, `ExecInv` adds that the forked process still looks at the host's mounts,
and so at the host's `/proc`, until both joins are done: the PID
namespace is joined first, and with the other order it would look up the pid below the
container's own `/proc`.

### Roots

`RootInv` says of every job which directories and devices it is behind (`Progress`);
no step of another process removes one of them, as only the root itself is ever
removed and that only when it is empty. Under `Alone` the stack of `mkdir_p` is a
chain of missing parents (`Missing`): a frame that tries again finds its parent made
and its own directory not made. Another process can break that chain, which is why
`FailsOnlyOnFault` needs `Alone` and `RootUsable` does not.

### The web server

Stacks make these proofs long; `StackInv` says which frame may be where: the first of
main, the first of the server thread, handlers above. `SocketInv` gives
`SocketReleased` under any signals: a socket is open only while the thread that
opened it is there, and its number is not forgotten meanwhile. `ShutdownInv` is
conditional on `Calm`: there is one handler at most, on top of a main thread that
waits at a safe point (`OneHandler`); the thread can be joined only while the flag is
up or the top of main is about to join it (`ThreadInv`), so the destructor never
finds a joinable thread; and what is freed tells how far the top of main has come
(`FreeInv`), so that nobody frees twice and the table goes last. The invariant is
about the top of the main thread, whoever that is, as the handler does not return
into what it has interrupted.

For the pages, `PageInv` relates the sample that the server keeps, and its time, to the
true counter at the last request that found this very container (`SampleOf`), and `SampleInv` the last totals to the present ones; busy time
never shrinks, idle time only if the kernel has taken iowait back.

### The console

`RestoreInv` carries the settings that the menu has saved through monitors that change
them again. `LimitsInv` says that the configuration always is the conversion of what
was last typed, whatever came before; the two theorems are then about the
conversions, below the numbers where they wrap. `HeapInv` gives every block an owner
(`Owned`) and every container of the table all of its blocks (`Whole`), field by
field of the copy. For ids, `MaxIdIsLargest` shows that the loop of
`generate_container_id` finds the largest number (from a smallest distance to the
bound), and `TakenOnlyAtLimit` that the number behind it can be taken only if it has
wrapped.

### What stays with TLC

The proofs have one step per action. Out of the prover's reach are the two properties
of liveness, `ShutdownEnds` and `QuitEndsMonitor`.

## 5. Not modelled

* `generateHTML` and all formatting, of the terminal and of JSON; what the
  monitors print, and the memory figures of `/api/system`: they read and write out.
* `fs_setup_chroot`, `resource_manager_remove_process`, `run_tests` and
  `init_containers`, which nothing calls.
* The `quota_us` that the memory and CPU test sets directly: no product, written as
  it is.
* Two managers that hand out the same id: those of `StateFile` take ids of their
  own, and `ContainerManager` has one manager at a time.
* How long things take: a timeout may or may not have come.

## 6. Plan

What is left, in this order:

1. Two managers that hand out the same id, in `StateFile`: a record then needs an
   owner besides its id and pid.
2. `StopIsSelective` and `LifecycleImplemented` for later sessions, where a reloaded
   container has no saved configuration and may have been renamed: the abstract
   specification needs a step for a restart.
