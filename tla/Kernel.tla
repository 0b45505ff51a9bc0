------------------------------- MODULE Kernel -------------------------------
(***************************************************************************)
(* What the container manager uses of the Linux kernel: the process table, *)
(* who the manager is the parent of, and which cgroup a process is in.     *)
(*                                                                         *)
(* A process of this model is the first process of a container (PID 1 of   *)
(* its PID namespace, with the tree below it, which dies with it) or a     *)
(* process of the host that has nothing to do with the manager.            *)
(***************************************************************************)
EXTENDS Naturals

CONSTANTS Pids,   \* the process ids the kernel hands out
          Names   \* container ids that are not decimal numerals

ASSUME PidsAssumption == Pids \subseteq Nat \ {0}
ASSUME NamesAssumption == Names \cap Nat = {}

VARIABLES procs,     \* pid -> what the pid stands for
          children,  \* pids whose parent is the running manager process
          cgOf,      \* pid -> name of the container cgroup it was moved to
          dirs       \* names of the container cgroups that exist

kernelVars == <<procs, children, cgOf, dirs>>

\* A container id: a decimal numeral, modelled by its value, or a name.
Ids == Names \cup (Nat \ {0})

\* "free": no such process.  "host": an unrelated process.  "alive": a
\* container's process.  "zombie": a dead container process that the manager,
\* its parent, has not waited for; its pid is still taken.
ProcStatus == {"free", "host", "alive", "zombie"}

\* cgOf of a process that is in no container cgroup.
NoCgroup == 0

KernelTypeOK ==
    /\ procs \in [Pids -> ProcStatus]
    /\ children \in SUBSET Pids
    /\ cgOf \in [Pids -> Ids \cup {NoCgroup}]
    /\ dirs \in SUBSET Ids

KernelInit ==
    /\ procs = [p \in Pids |-> "free"]
    /\ children = {}
    /\ cgOf = [p \in Pids |-> NoCgroup]
    /\ dirs = {}

\* The processes that cgroup.procs of cgroup d lists.
Members(d) == {p \in Pids : cgOf[p] = d}

\* The cgroups that are left after rmdir of cgroup d: rmdir of a cgroup that
\* has processes fails with EBUSY.
Rmdir(D, d) == IF Members(d) = {} THEN D \ {d} ELSE D

\* kill(p, 0) succeeds: also for a zombie, and for any process of the host.
PidAlive(p) == p \in Pids /\ procs[p] # "free"

(***************************************************************************)
(* Effects of the manager's system calls.                                  *)
(***************************************************************************)

\* The processes V are killed; the manager then waits for its children W, which
\* are dead.  A dead child it does not wait for stays a zombie; the pid of any
\* other dead process is free again.
Kill(V, W) ==
    /\ procs' = [p \in Pids |->
                    IF p \in children \cap W THEN "free"
                    ELSE IF p \notin V \/ procs[p] = "free" THEN procs[p]
                    ELSE IF p \in children THEN "zombie" ELSE "free"]
    /\ children' = children \ W
    /\ cgOf' = [p \in Pids |-> IF p \in V \cup (children \cap W) THEN NoCgroup ELSE cgOf[p]]

\* The manager process ends: its live children are inherited by init, which
\* also collects the dead ones.
ManagerDies ==
    /\ procs' = [p \in Pids |-> IF procs[p] = "zombie" THEN "free" ELSE procs[p]]
    /\ children' = {}
    /\ UNCHANGED <<cgOf, dirs>>

\* clone() with a free pid: a child of the manager, in the manager's cgroup.
Spawn(p) ==
    /\ procs[p] = "free"
    /\ procs' = [procs EXCEPT ![p] = "alive"]
    /\ children' = children \cup {p}
    /\ cgOf' = [cgOf EXCEPT ![p] = NoCgroup]

(***************************************************************************)
(* What happens by itself.                                                 *)
(***************************************************************************)

\* A container's process ends: its command finished, exec or a mount failed,
\* or the memory limit killed it.
ProcExit(p) ==
    /\ procs[p] = "alive"
    /\ procs' = [procs EXCEPT ![p] = IF p \in children THEN "zombie" ELSE "free"]
    /\ cgOf' = [cgOf EXCEPT ![p] = NoCgroup]
    /\ UNCHANGED <<children, dirs>>

\* The kernel gives a free pid to an unrelated process.
HostFork(p) ==
    /\ procs[p] = "free"
    /\ procs' = [procs EXCEPT ![p] = "host"]
    /\ UNCHANGED <<children, cgOf, dirs>>

HostExit(p) ==
    /\ procs[p] = "host"
    /\ procs' = [procs EXCEPT ![p] = "free"]
    /\ UNCHANGED <<children, cgOf, dirs>>

KernelNext == \E p \in Pids : ProcExit(p) \/ HostFork(p) \/ HostExit(p)
=============================================================================
