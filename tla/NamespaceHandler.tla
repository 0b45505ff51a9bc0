-------------------------- MODULE NamespaceHandler --------------------------
(***************************************************************************)
(* namespace_handler.cpp: what the process of a new container does between *)
(* clone and execvp, and how container_manager_exec joins the namespaces   *)
(* of a running container.  Both run beside each other: a container is     *)
(* recorded as RUNNING about a millisecond after its clone, wherever its   *)
(* process has got to by then.                                             *)
(***************************************************************************)
EXTENDS Naturals

CONSTANTS Containers,
          Busy,        \* targets where the host has the same file system mounted
          MountFaults  \* targets whose mount may fail

\* In this order.
Targets == {"/proc", "/sys", "/tmp", "/dev"}

ASSUME NamespaceAssumption ==
    /\ "host" \notin Containers
    /\ Busy \subseteq {"/sys", "/dev"}
    /\ MountFaults \subseteq Targets

VARIABLES parent, \* the manager has started the containers itself: their pids
                  \* stay taken; a manager that has loaded them is no parent
          child,  \* what each container's first process does next
          mounts, \* mount namespace -> target -> whose file system is on top
          shared, \* containers whose mounts still propagate to the host
          exec    \* the process that container_manager_exec has forked

spaceVars == <<parent, child, mounts, shared, exec>>

Spaces == Containers \cup {"host"}

\* "private", a target and "exec" are the steps still to be taken, "command" is
\* the container's command.  "gone" has ended; "reused": and its pid is that of
\* some process of the host now.
ChildAt == {"none", "private", "exec", "command", "gone", "reused"} \cup Targets

\* mnt: the mount namespace it is in; pid: the PID namespace it is in; kids: the
\* PID namespace its children would be in.
ExecAt == {"idle", "join_pid", "join_mnt", "exec", "command", "failed"}
NoExec == [at |-> "idle", of |-> "host", mnt |-> "host", pid |-> "host", kids |-> "host"]

SpaceInit ==
    /\ parent \in BOOLEAN
    /\ child = [c \in Containers |-> "none"]
    /\ mounts = [s \in Spaces |-> [t \in Targets |-> "host"]]
    /\ shared = {}
    /\ exec = NoExec

(***************************************************************************)
(* The container's process.                                                *)
(***************************************************************************)
Advance(c, l) == child' = [child EXCEPT ![c] = l]

\* clone: the mount namespace is a copy of the host's, and a peer of it.
clone_process(c) ==
    /\ child[c] = "none"
    /\ Advance(c, "private")
    /\ mounts' = [mounts EXCEPT ![c] = mounts["host"]]
    /\ shared' = shared \cup {c}
    /\ UNCHANGED <<parent, exec>>

\* Mutant of make_private: without MS_REC only the mount on / is made private.
make_root_private(c) ==
    /\ child[c] = "private"
    /\ Advance(c, "/proc")
    /\ UNCHANGED <<parent, mounts, shared, exec>>

make_private(c) ==
    /\ child[c] = "private"
    /\ \/ Advance(c, "/proc") /\ shared' = shared \ {c}
       \/ Advance(c, "gone") /\ UNCHANGED shared
    /\ UNCHANGED <<parent, mounts, exec>>

AfterMount(t) ==
    CASE t = "/proc" -> "/sys" [] t = "/sys" -> "/tmp" [] t = "/tmp" -> "/dev"
      [] OTHER -> "exec"

\* A mount in c is seen by the host as long as they are peers.
Mounted(c, t) ==
    mounts' = [s \in Spaces |->
                  IF s = c \/ (c \in shared /\ s \in shared \cup {"host"})
                  THEN [mounts[s] EXCEPT ![t] = c] ELSE mounts[s]]

\* Mutant of mount_target: no error ends the process.
mount_or_go_on(c, t) ==
    /\ child[c] = t
    /\ Advance(c, AfterMount(t))
    /\ \/ t \notin Busy /\ Mounted(c, t)
       \/ t \in Busy \cup MountFaults /\ UNCHANGED mounts
    /\ UNCHANGED <<parent, shared, exec>>

\* mount_or_ignore_ebusy, and its callers.
mount_target(c, t) ==
    /\ child[c] = t
    /\ \/ Advance(c, AfterMount(t)) /\ t \notin Busy /\ Mounted(c, t)
       \/ Advance(c, AfterMount(t)) /\ t \in Busy /\ UNCHANGED mounts
       \/ Advance(c, "gone") /\ t \in MountFaults /\ UNCHANGED mounts
    /\ UNCHANGED <<parent, shared, exec>>

execute(c) ==
    /\ child[c] = "exec"
    /\ Advance(c, "command") \/ Advance(c, "gone")
    /\ UNCHANGED <<parent, mounts, shared, exec>>

\* The process ends, or is killed.
process_ends(c) ==
    /\ child[c] \notin {"none", "gone", "reused"}
    /\ Advance(c, "gone")
    /\ UNCHANGED <<parent, mounts, shared, exec>>

pid_reused(c) ==
    /\ ~parent /\ child[c] = "gone"
    /\ Advance(c, "reused")
    /\ UNCHANGED <<parent, mounts, shared, exec>>

(***************************************************************************)
(* container_manager_exec: the child it has forked.                        *)
(***************************************************************************)

\* Mutant of exec_begin: the mount namespace is joined first.
exec_mount_first(c) ==
    /\ exec.at = "idle" /\ child[c] # "none"
    /\ exec' = [NoExec EXCEPT !.at = "join_pid", !.of = c,
                              !.mnt = IF child[c] \in {"gone", "reused"} THEN "host" ELSE c]
    /\ UNCHANGED <<parent, child, mounts, shared>>

\* The entry is RUNNING, whatever has become of its process.
exec_begin(c) ==
    /\ exec.at = "idle" /\ child[c] # "none"
    /\ exec' = [NoExec EXCEPT !.at = "join_pid", !.of = c]
    /\ UNCHANGED <<parent, child, mounts, shared>>

\* What open finds below /proc/<pid>/ns: the pid is one of the host's, so the
\* /proc on top must be the host's, and the process must exist.
Found(e) ==
    IF mounts[e.mnt]["/proc"] # "host" \/ child[e.of] = "gone" THEN {}
    ELSE IF child[e.of] = "reused" THEN {"host"}
    ELSE {e.of}

\* namespace_join with CLONE_NEWPID: only children are in the new namespace.
join_pid ==
    /\ exec.at = "join_pid"
    /\ exec' = IF Found(exec) = {} THEN [exec EXCEPT !.at = "failed"]
               ELSE [exec EXCEPT !.at = "join_mnt", !.kids = CHOOSE s \in Found(exec) : TRUE]
    /\ UNCHANGED <<parent, child, mounts, shared>>

\* namespace_join with CLONE_NEWNS.
join_mnt ==
    /\ exec.at = "join_mnt"
    /\ exec' = IF Found(exec) = {} THEN [exec EXCEPT !.at = "failed"]
               ELSE [exec EXCEPT !.at = "exec", !.mnt = CHOOSE s \in Found(exec) : TRUE]
    /\ UNCHANGED <<parent, child, mounts, shared>>

exec_command ==
    /\ exec.at = "exec"
    /\ exec' = [exec EXCEPT !.at = "command"]
    /\ UNCHANGED <<parent, child, mounts, shared>>

\* waitpid returns.
exec_return ==
    /\ exec.at \in {"failed", "command"}
    /\ exec' = NoExec
    /\ UNCHANGED <<parent, child, mounts, shared>>

SpaceNext ==
    \/ \E c \in Containers :
          \/ clone_process(c) \/ make_private(c) \/ execute(c) \/ process_ends(c)
          \/ pid_reused(c) \/ exec_begin(c)
          \/ \E t \in Targets : mount_target(c, t)
    \/ join_pid \/ join_mnt \/ exec_command \/ exec_return

SpaceSpec == SpaceInit /\ [][SpaceNext]_spaceVars

(***************************************************************************)
(* Properties.                                                             *)
(***************************************************************************)

\* Every variable has its type.
MountTypeOK ==
    /\ child \in [Containers -> ChildAt]
    /\ mounts \in [Spaces -> [Targets -> Spaces]]
    /\ shared \in SUBSET Containers
SpaceTypeOK ==
    /\ MountTypeOK
    /\ parent \in BOOLEAN
    /\ exec \in [at: ExecAt, of: Spaces, mnt: Spaces, pid: Spaces, kids: Spaces]

\* No container mounts anything where the host, or another container, sees it,
\* although each begins as a peer of the host.
HostMountsUntouched ==
    \A s \in Spaces, t \in Targets : mounts[s][t] \in {"host", s}

\* A container's command never starts with the host's /proc or /tmp: what could
\* not be mounted ended the process.  Where the host's own file system is in
\* the way (EBUSY), the container keeps it.
CommandIsolated ==
    \A c \in Containers : child[c] = "command" =>
        c \notin shared /\ \A t \in Targets \ Busy : mounts[c][t] = c

\* An exec is refused only if the container's process has ended: joining the
\* namespaces works at every point of its start.
ExecFailsOnlyIfEnded == exec.at = "failed" => child[exec.of] \in {"gone", "reused"}

\* The command of an exec has the mounts, and its children the pids, of the
\* container it was meant for.
ExecInContainer == exec.at = "command" => exec.mnt = exec.of /\ exec.kids = exec.of

\* An exec is refused only if the container's process has ended; and while the
\* manager is the parent, so that the pid stays taken, an exec works in its own
\* container, also if that ends between the two joins (container_manager_exec,
\* namespace_join).
ExecReachesContainer == ExecFailsOnlyIfEnded /\ (parent => ExecInContainer)

(***************************************************************************)
(* What the proofs of HostMountsUntouched and CommandIsolated need besides. *)
(***************************************************************************)
\* The targets that a process at step l is behind.
Behind(l) ==
    CASE l \in {"private", "/proc"} -> {} [] l = "/sys" -> {"/proc"}
      [] l = "/tmp" -> {"/proc", "/sys"} [] l = "/dev" -> {"/proc", "/sys", "/tmp"}
      [] OTHER -> Targets

\* A process that mounts, or that has mounted, is no longer a peer of the host,
\* and has its own file system on every target it is behind.
OwnMounts ==
    \A c \in Containers : child[c] \in Targets \cup {"exec", "command"} =>
        /\ c \notin shared
        /\ \A t \in Behind(child[c]) \ Busy : mounts[c][t] = c

MountInv == MountTypeOK /\ OwnMounts /\ HostMountsUntouched

\* "To execute commands in existing containers, the system joins the existing
\* namespace" (docs/technical_report.md)  setns moves the children of the caller
\* into the PID namespace, not the caller.
ExecInPidNamespace == exec.at = "command" => exec.pid = exec.of
=============================================================================
