-------------------------- MODULE ResourceManager --------------------------
(***************************************************************************)
(* resource_manager.cpp on the three layouts of /sys/fs/cgroup it meets:   *)
(* cgroup v2; v1 with cpu and cpuacct in one hierarchy, where cpu and      *)
(* cpuacct are links to cpu,cpuacct; v1 with two hierarchies, where        *)
(* cpu,cpuacct does not exist.                                             *)
(*                                                                         *)
(* Every mkdir and every write may fail.  A call is one step; the sets F   *)
(* (mkdir, or writes of a pid) and W (writes of limits) are the controllers*)
(* for which it fails.                                                     *)
(***************************************************************************)
EXTENDS Naturals

CONSTANTS Ids,     \* container ids
          Pids,    \* processes of containers
          Layouts, \* layouts of the host
          Limits,  \* limits a container may be given; 0 asks for none
          MkdirFaults, WriteFaults, AttachFaults
                   \* controllers for which mkdir, the write of a limit and the
                   \* write of a pid may fail

NoGroup == 0
Unlimited == 0

ASSUME ResourceAssumption ==
    /\ NoGroup \notin Ids
    /\ Layouts \subseteq {"v2", "v1_joint", "v1_split"}
    /\ Limits \subseteq Nat
    /\ MkdirFaults \cup AttachFaults \subseteq {"cpu", "cpuacct", "memory"}
    /\ WriteFaults \subseteq {"cpu", "memory"}

VARIABLES layout,   \* the layout of this host
          dirs,     \* pairs of a hierarchy and a container that has a directory
          members,  \* triples of a hierarchy, a container and a process in it
          limit,    \* <<controller, container>> -> the limit in force
          wanted,   \* what the manager asked for, for the containers it knows
          attached, \* process -> the container add_process reported success for
          dropped   \* names whose last container went without its directories

resourceVars == <<layout, dirs, members, limit, wanted, attached, dropped>>

(***************************************************************************)
(* Hierarchies.                                                            *)
(***************************************************************************)
Controllers == {"cpu", "memory"}

\* The hierarchy that carries a controller.
HierarchyOf(controller) ==
    CASE layout = "v2" -> "unified"
      [] layout = "v1_joint" /\ controller # "memory" -> "cpu,cpuacct"
      [] OTHER -> controller

Hierarchies == {HierarchyOf(c) : c \in {"cpu", "cpuacct", "memory"}}

Dirs(id) == {h \in Hierarchies : <<h, id>> \in dirs}
MembersOf(h, id) == {p \in Pids : <<h, id, p>> \in members}

\* saved: the limit was written without an error.
NoContainer == [known |-> FALSE, value |-> [c \in Controllers |-> Unlimited],
                saved |-> [c \in Controllers |-> FALSE]]

ResourceInit ==
    /\ layout \in Layouts
    /\ dirs = {} /\ members = {}
    /\ limit = [x \in Controllers \X Ids |-> Unlimited]
    /\ wanted = [id \in Ids |-> NoContainer]
    /\ attached = [p \in Pids |-> NoGroup]
    /\ dropped = {}

(***************************************************************************)
(* resource_manager_create_cgroup.                                         *)
(***************************************************************************)

\* The hierarchies in which the directory is made; an existing one is no error.
\* Behind a failure, nothing more is made.
Made(F) ==
    IF "cpu" \in F THEN {}
    ELSE {HierarchyOf("cpu")}
            \cup (IF "cpuacct" \in F THEN {} ELSE {HierarchyOf("cpuacct")})
            \cup (IF "memory" \in F THEN {} ELSE {HierarchyOf("memory")})

Created(F) ==
    /\ "cpu" \notin F
    /\ layout = "v2" \/ "memory" \notin F

\* Mutant of Written: the limits of a directory that exists are left alone.
WrittenIfNew(id, c, value, W) ==
    value[c] # Unlimited /\ c \notin W /\ HierarchyOf(c) \notin Dirs(id)

\* set_cpu_limits and set_memory_limits are called for a positive limit only;
\* an error is a warning.
Written(id, c, value, W) == value[c] # Unlimited /\ c \notin W

\* Mutant of LimitAfter: a limit is written as soon as its directory is there,
\* also by a call that fails later.
LimitWrittenEarly(id, c, value, F, W) ==
    IF HierarchyOf(c) \in Made(F) /\ Written(id, c, value, W) THEN value[c]
    ELSE IF HierarchyOf(c) \in Dirs(id) THEN limit[<<c, id>>] ELSE Unlimited

LimitAfter(id, c, value, F, W) ==
    IF Created(F) /\ Written(id, c, value, W) THEN value[c]
    ELSE IF HierarchyOf(c) \in Dirs(id) THEN limit[<<c, id>>] ELSE Unlimited

create_cgroup(id, value, F, W) ==
    /\ ~wanted[id].known
    /\ dirs' = dirs \cup {<<h, id>> : h \in Made(F)}
    /\ limit' = [x \in Controllers \X Ids |->
                    IF x[2] = id THEN LimitAfter(id, x[1], value, F, W) ELSE limit[x]]
    /\ wanted' = IF ~Created(F) THEN wanted
                 ELSE [wanted EXCEPT ![id] =
                          [known |-> TRUE, value |-> value,
                           saved |-> [c \in Controllers |-> c \notin W]]]
    /\ UNCHANGED <<layout, members, attached, dropped>>

(***************************************************************************)
(* resource_manager_add_process.                                           *)
(***************************************************************************)

\* The write of the pid into the group of controller c succeeds.
Joins(id, c, F) == HierarchyOf(c) \in Dirs(id) /\ c \notin F

\* In v1, one of cpu,cpuacct, cpu and cpuacct is enough to go on.
CpuJoined(id, F) ==
    IF layout = "v1_split" THEN Joins(id, "cpu", F) \/ Joins(id, "cpuacct", F)
    ELSE Joins(id, "cpu", F)

JoinedHierarchies(id, F) ==
    CASE layout = "v2" -> {h \in {"unified"} : Joins(id, "cpu", F)}
      [] layout = "v1_joint" /\ ~Joins(id, "cpu", F) -> {}
      [] OTHER -> {HierarchyOf(c) : c \in
                      {d \in {"cpu", "cpuacct"} : Joins(id, d, F)}
                        \cup {d \in {"memory"} : CpuJoined(id, F) /\ Joins(id, d, F)}}

\* Mutant of Added: a failing write to the memory group is not an error.
AddedToCpu(id, F) == CpuJoined(id, F)

Added(id, F) == CpuJoined(id, F) /\ (layout = "v2" \/ Joins(id, "memory", F))

\* In each hierarchy the process leaves the group it was in.
add_process(p, id, F) ==
    /\ wanted[id].known /\ \A m \in members : m[3] # p
    /\ members' = members \cup {<<h, id, p>> : h \in JoinedHierarchies(id, F)}
    /\ attached' = [attached EXCEPT ![p] = IF Added(id, F) THEN id ELSE NoGroup]
    /\ UNCHANGED <<layout, dirs, limit, wanted, dropped>>

(***************************************************************************)
(* resource_manager_destroy_cgroup, and what happens without it.           *)
(***************************************************************************)

\* Mutant of Removed: the directory goes although a process is in it.
RemovedAnyway(id) == Hierarchies

\* rmdir is tried everywhere and fails where a process is.
Removed(id) == {h \in Hierarchies : MembersOf(h, id) = {}}

destroy_cgroup(id) ==
    /\ wanted[id].known
    /\ dirs' = dirs \ {<<h, id>> : h \in Removed(id)}
    /\ limit' = [x \in Controllers \X Ids |->
                    IF <<HierarchyOf(x[1]), x[2]>> \in dirs' THEN limit[x] ELSE Unlimited]
    /\ wanted' = [wanted EXCEPT ![id] = NoContainer]
    /\ dropped' = IF Removed(id) = Hierarchies THEN dropped \ {id} ELSE dropped \cup {id}
    /\ UNCHANGED <<layout, members, attached>>

\* The manager is started again and drops the record of a stopped container; its
\* directories stay.
forget(id) ==
    /\ wanted[id].known /\ \A h \in Hierarchies : MembersOf(h, id) = {}
    /\ wanted' = [wanted EXCEPT ![id] = NoContainer]
    /\ dropped' = dropped \cup {id}
    /\ UNCHANGED <<layout, dirs, members, limit, attached>>

member_ends(p) ==
    /\ \E m \in members : m[3] = p
    /\ members' = {m \in members : m[3] # p}
    /\ attached' = [attached EXCEPT ![p] = NoGroup]
    /\ UNCHANGED <<layout, dirs, limit, wanted, dropped>>

ResourceNext ==
    \/ \E id \in Ids, value \in [Controllers -> Limits],
          F \in SUBSET MkdirFaults, W \in SUBSET WriteFaults :
             create_cgroup(id, value, F, W)
    \/ \E p \in Pids, id \in Ids, F \in SUBSET AttachFaults : add_process(p, id, F)
    \/ \E id \in Ids : destroy_cgroup(id) \/ forget(id)
    \/ \E p \in Pids : member_ends(p)

ResourceSpec == ResourceInit /\ [][ResourceNext]_resourceVars

(***************************************************************************)
(* Properties.                                                             *)
(***************************************************************************)

\* A container that was created has a directory wherever its limits are written,
\* and a limit that was written without an error is in force, whatever an
\* earlier container of its name has left behind.
LimitsInForce ==
    \A id \in Ids, c \in Controllers : wanted[id].known =>
        /\ HierarchyOf(c) \in Dirs(id)
        /\ wanted[id].value[c] # Unlimited /\ wanted[id].saved[c] =>
              limit[<<c, id>>] = wanted[id].value[c]

\* When add_process reports success, the process is in the group its memory
\* limit was written to.
MemoryConfined ==
    \A p \in Pids : attached[p] # NoGroup =>
        <<HierarchyOf("memory"), attached[p], p>> \in members

\* A limit in force under a name is the one that the container of that name was
\* given, unless the container before it was forgotten by a restart or destroyed
\* while a process held a directory.  In particular, what a create that fails half
\* way leaves behind passes no limit on to the container that takes it over.
LimitsOwned ==
    \A id \in Ids \ dropped, c \in Controllers :
        limit[<<c, id>>] # Unlimited =>
            wanted[id].known /\ limit[<<c, id>>] = wanted[id].value[c]

Confining(id, p) == \A c \in Controllers : <<HierarchyOf(c), id, p>> \in members
CS == INSTANCE CgroupSpec WITH
        groups <- {id \in Ids : \A c \in Controllers : HierarchyOf(c) \in Dirs(id)},
        in <- [p \in Pids |->
                  IF \E id \in Ids : Confining(id, p)
                  THEN CHOOSE id \in Ids : Confining(id, p) ELSE NoGroup]

\* Whatever fails, the directories of the three layouts behave as one group per
\* container: it exists when all directories for limits do, and confines the
\* processes that are in all of them.
ImplementsCgroups == CS!Spec

\* "Each container gets a dedicated Cgroup for CPU and Memory controllers."
\* (README.md)  In v1 the process may be in the cpuacct group only.
CpuConfined ==
    \A p \in Pids : attached[p] # NoGroup =>
        <<HierarchyOf("cpu"), attached[p], p>> \in members

\* The same sentence: a container without a limit has the limit of the container
\* whose directory it has taken over.
DedicatedLimits ==
    \A id \in Ids, c \in Controllers :
        wanted[id].known /\ wanted[id].value[c] = Unlimited => limit[<<c, id>>] = Unlimited
=============================================================================
