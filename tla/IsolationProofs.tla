-------------------------- MODULE IsolationProofs --------------------------
(***************************************************************************)
(* Theorems about what a container is made of besides its process: its     *)
(* mounts and the exec that joins them (NamespaceHandler), its cgroups     *)
(* (ResourceManager) and its root (FilesystemManager), for any containers, *)
(* processes, limits, builders and failures.                               *)
(***************************************************************************)
EXTENDS NamespaceHandler, ResourceManager, FilesystemManager, Integers, TLAPS

(***************************************************************************)
(* Mounts.  The invariant is MountInv: a process that has begun to mount   *)
(* is no peer of the host any more (OwnMounts), so that a mount changes    *)
(* its own namespace only.                                                 *)
(***************************************************************************)

\* Initially every namespace has the host's mounts and nobody is a peer.
LEMMA MountInvInit ==
    ASSUME SpaceInit
    PROVE  MountInv
BY NamespaceAssumption DEF SpaceInit, MountInv, MountTypeOK, OwnMounts, HostMountsUntouched,
       Spaces, ChildAt, Targets

\* A step of a process that mounts nothing: one of its own, with the mounts as
\* they are and no new peers.
LEMMA NoMountStep ==
    ASSUME MountInv, NEW c \in Containers, NEW l \in ChildAt,
           child' = [child EXCEPT ![c] = l], mounts' = mounts,
           shared' \subseteq shared,
           l \in Targets \cup {"exec", "command"} =>
               /\ c \notin shared'
               /\ \A t \in Behind(l) \ Busy : mounts[c][t] = c
    PROVE  MountInv'
<1>1. MountTypeOK'
  BY DEF MountInv, MountTypeOK
<1>2. OwnMounts'
  BY DEF MountInv, MountTypeOK, OwnMounts
<1>3. HostMountsUntouched'
  BY DEF MountInv, HostMountsUntouched
<1> QED  BY <1>1, <1>2, <1>3 DEF MountInv

\* The step behind a mount is a step of the process, and is behind exactly this
\* target more.
LEMMA AfterMountStep ==
    ASSUME NEW t \in Targets
    PROVE  /\ AfterMount(t) \in ChildAt
           /\ AfterMount(t) \in Targets \cup {"exec", "command"}
           /\ Behind(AfterMount(t)) = Behind(t) \cup {t}
BY DEF Targets, AfterMount, Behind, ChildAt

\* clone_process copies the host's mounts, which are the host's own.
LEMMA CloneStep ==
    ASSUME MountInv, NEW c \in Containers, clone_process(c)
    PROVE  MountInv'
<1>1. MountTypeOK'
  BY DEF MountInv, MountTypeOK, clone_process, Advance, Spaces, ChildAt
<1>2. OwnMounts'
  BY DEF MountInv, MountTypeOK, OwnMounts, clone_process, Advance, Targets, Spaces
<1>3. \A t \in Targets : mounts["host"][t] = "host"
  BY DEF MountInv, HostMountsUntouched, Spaces
<1>4. HostMountsUntouched'
  BY <1>3 DEF MountInv, MountTypeOK, HostMountsUntouched, clone_process, Spaces
<1> QED  BY <1>1, <1>2, <1>4 DEF MountInv

\* A mount by a process that is no peer of the host changes its own namespace.
LEMMA MountStep ==
    ASSUME MountInv, NEW c \in Containers, NEW t \in Targets,
           child[c] = t, child' = [child EXCEPT ![c] = AfterMount(t)],
           Mounted(c, t), shared' = shared
    PROVE  MountInv'
<1>1. c \notin shared /\ \A u \in Behind(t) \ Busy : mounts[c][u] = c
  BY DEF MountInv, OwnMounts
<1>2. mounts' = [mounts EXCEPT ![c] = [mounts[c] EXCEPT ![t] = c]]
  BY <1>1 DEF Mounted, MountInv, MountTypeOK, Spaces
<1>3. MountTypeOK'
  BY <1>2, AfterMountStep DEF MountInv, MountTypeOK, Spaces
<1>4. mounts'[c][t] = c /\ \A u \in Targets \ {t} : mounts'[c][u] = mounts[c][u]
  BY <1>2 DEF MountInv, MountTypeOK, Spaces
<1>5. \A u \in Behind(AfterMount(t)) \ Busy : mounts'[c][u] = c
  <2>1. Behind(t) \subseteq Targets
    BY DEF Behind, Targets
  <2> QED  BY <1>1, <1>4, <2>1, AfterMountStep
<1>6. OwnMounts'
  BY <1>1, <1>2, <1>5 DEF MountInv, MountTypeOK, OwnMounts, Spaces
<1>7. HostMountsUntouched'
  BY <1>2, <1>4 DEF MountInv, MountTypeOK, HostMountsUntouched, Spaces
<1> QED  BY <1>3, <1>6, <1>7 DEF MountInv

\* mount_target, mounted, busy or failed.
LEMMA MountTargetStep ==
    ASSUME MountInv, NEW c \in Containers, NEW t \in Targets,
           mount_target(c, t)
    PROVE  MountInv'
<1>1. CASE Advance(c, AfterMount(t)) /\ Mounted(c, t)
  BY <1>1, MountStep DEF mount_target, Advance
<1>2. CASE Advance(c, AfterMount(t)) /\ t \in Busy /\ UNCHANGED mounts
  <2>1. c \notin shared /\ \A u \in Behind(t) \ Busy : mounts[c][u] = c
    BY DEF mount_target, MountInv, OwnMounts
  <2>2. \A u \in Behind(AfterMount(t)) \ Busy : mounts[c][u] = c
    BY <1>2, <2>1, AfterMountStep
  <2> QED  BY <1>2, <2>1, <2>2, AfterMountStep, NoMountStep DEF mount_target, Advance
<1>3. CASE Advance(c, "gone") /\ UNCHANGED mounts
  BY <1>3, NoMountStep DEF mount_target, Advance, ChildAt, Targets
<1> QED  BY <1>1, <1>2, <1>3 DEF mount_target

\* Every step keeps MountInv.
LEMMA MountInvNext ==
    ASSUME MountInv, [SpaceNext]_spaceVars
    PROVE  MountInv'
<1>1. ASSUME NEW c \in Containers, clone_process(c) PROVE MountInv'
  BY <1>1, CloneStep
<1>2. ASSUME NEW c \in Containers, make_private(c) PROVE MountInv'
  <2>1. CASE Advance(c, "/proc") /\ shared' = shared \ {c}
    BY <1>2, <2>1, NoMountStep DEF make_private, Advance, ChildAt, Targets, Behind
  <2>2. CASE Advance(c, "gone") /\ UNCHANGED shared
    BY <1>2, <2>2, NoMountStep DEF make_private, Advance, ChildAt, Targets
  <2> QED  BY <1>2, <2>1, <2>2 DEF make_private
<1>3. ASSUME NEW c \in Containers, execute(c) PROVE MountInv'
  <2>1. c \notin shared /\ \A t \in Behind("command") \ Busy : mounts[c][t] = c
    BY <1>3 DEF execute, MountInv, OwnMounts, Behind
  <2> QED  BY <1>3, <2>1, NoMountStep DEF execute, Advance, ChildAt, Targets
<1>4. ASSUME NEW c \in Containers, process_ends(c) PROVE MountInv'
  BY <1>4, NoMountStep DEF process_ends, Advance, ChildAt, Targets
<1>5. ASSUME NEW c \in Containers, pid_reused(c) PROVE MountInv'
  BY <1>5, NoMountStep DEF pid_reused, Advance, ChildAt, Targets
<1>6. ASSUME NEW c \in Containers, NEW t \in Targets, mount_target(c, t) PROVE MountInv'
  BY <1>6, MountTargetStep
<1>7. CASE UNCHANGED <<child, mounts, shared>>
  BY <1>7 DEF MountInv, MountTypeOK, OwnMounts, HostMountsUntouched
<1>8. CASE \E c \in Containers : exec_begin(c)
  BY <1>7, <1>8 DEF exec_begin
<1>9. CASE join_pid \/ join_mnt \/ exec_command \/ exec_return \/ UNCHANGED spaceVars
  BY <1>7, <1>9 DEF join_pid, join_mnt, exec_command, exec_return, spaceVars
<1> QED  BY <1>1, <1>2, <1>3, <1>4, <1>5, <1>6, <1>8, <1>9 DEF SpaceNext

LEMMA MountInvHolds ==
    SpaceSpec => []MountInv
<1>1. SpaceInit => MountInv  BY MountInvInit
<1>2. MountInv /\ [SpaceNext]_spaceVars => MountInv'  BY MountInvNext
<1> QED  BY <1>1, <1>2, PTL DEF SpaceSpec

\* No container ever mounts anything where the host, or another container, sees
\* it (setup_container_filesystem): each begins as a peer of the host, and none
\* mounts before it has made its mounts private.
THEOREM MountsContained ==
    SpaceSpec => []HostMountsUntouched
<1>1. MountInv => HostMountsUntouched  BY DEF MountInv
<1> QED  BY <1>1, MountInvHolds, PTL

\* A container's command never starts before all its mounts are its own, but
\* for those where the host's file system is in the way
\* (setup_container_filesystem, container_child).
THEOREM CommandsIsolated ==
    SpaceSpec => []CommandIsolated
<1>1. MountInv => CommandIsolated
  BY DEF MountInv, OwnMounts, CommandIsolated, Behind, Targets
<1> QED  BY <1>1, MountInvHolds, PTL

(***************************************************************************)
(* exec.  The forked process looks below the host's /proc until both joins *)
(* are done, and there finds its container as long as the pid is taken.    *)
(***************************************************************************)
ExecInv ==
    /\ parent \in BOOLEAN
    /\ exec \in [at: ExecAt, of: Spaces, mnt: Spaces, pid: Spaces, kids: Spaces]
    /\ exec.at # "idle" => exec.of \in Containers
    /\ exec.at \in {"join_pid", "join_mnt"} => exec.mnt = "host"
    /\ ExecFailsOnlyIfEnded
    /\ parent = TRUE =>
          /\ \A c \in Containers : child[c] # "reused"
          /\ exec.at \in {"join_mnt", "exec", "command"} => exec.kids = exec.of
          /\ exec.at \in {"exec", "command"} => exec.mnt = exec.of

\* What an exec finds that has not left the host's mounts.
LEMMA FoundInHost ==
    ASSUME MountInv, ExecInv, exec.at \in {"join_pid", "join_mnt"}
    PROVE  /\ exec.of \in Containers
           /\ Found(exec) = {} => child[exec.of] = "gone"
           /\ Found(exec) # {} => /\ (CHOOSE s \in Found(exec) : TRUE) \in Spaces
                                  /\ parent = TRUE => (CHOOSE s \in Found(exec) : TRUE) = exec.of
  <1>1. mounts["host"]["/proc"] = "host"
    BY DEF MountInv, HostMountsUntouched, Spaces, Targets
  <1>2. exec.of \in Containers /\ exec.mnt = "host"
    BY DEF ExecInv
  <1>3. Found(exec) = IF child[exec.of] = "gone" THEN {}
                      ELSE IF child[exec.of] = "reused" THEN {"host"} ELSE {exec.of}
    BY <1>1, <1>2 DEF Found
  <1>4. Found(exec) \subseteq Spaces
    BY <1>2, <1>3 DEF Spaces
  <1>5. parent = TRUE => child[exec.of] # "reused"
    BY <1>2 DEF ExecInv
  <1>6. parent = TRUE => Found(exec) \subseteq {exec.of}
    BY <1>3, <1>5
  <1>7. Found(exec) # {} => (CHOOSE s \in Found(exec) : TRUE) \in Found(exec)
    OBVIOUS
  <1> QED BY <1>2, <1>3, <1>4, <1>6, <1>7

\* Steps of a container's process do not disturb an exec: what has ended stays so,
\* and a pid that the manager's own child has had is not given away.
LEMMA ProcessStepKeepsExec ==
    ASSUME MountInv, ExecInv, NEW c \in Containers, NEW l \in ChildAt, Advance(c, l),
           child[c] \in {"gone", "reused"} => l \in {"gone", "reused"},
           parent = TRUE => l # "reused",
           UNCHANGED <<parent, exec>>
    PROVE  ExecInv'
  <1>1. child \in [Containers -> ChildAt] /\ child' = [child EXCEPT ![c] = l]
    BY DEF MountInv, MountTypeOK, Advance
  <1>2. \A d \in Containers : child[d] \in {"gone", "reused"} => child'[d] \in {"gone", "reused"}
    BY <1>1
  <1>3. ExecFailsOnlyIfEnded'
    BY <1>2 DEF ExecInv, ExecFailsOnlyIfEnded
  <1>4. parent = TRUE => \A d \in Containers : child'[d] # "reused"
    BY <1>1 DEF ExecInv
  <1> QED BY <1>3, <1>4 DEF ExecInv

LEMMA ExecInvNext ==
    ASSUME MountInv, ExecInv, [SpaceNext]_spaceVars
    PROVE  ExecInv'
  <1>1. ASSUME NEW c \in Containers,
               clone_process(c) \/ make_private(c) \/ execute(c) \/ process_ends(c)
        PROVE  ExecInv'
    <2>1. PICK l \in {"private", "/proc", "gone", "command"} : Advance(c, l)
      BY <1>1 DEF clone_process, make_private, execute, process_ends
    <2>2. child[c] \notin {"gone", "reused"} /\ UNCHANGED <<parent, exec>>
      BY <1>1 DEF clone_process, make_private, execute, process_ends
    <2>3. l \in ChildAt /\ l # "reused"
      BY <2>1 DEF ChildAt, Targets
    <2> QED BY <2>1, <2>2, <2>3, ProcessStepKeepsExec
  <1>2. ASSUME NEW c \in Containers, pid_reused(c)
        PROVE  ExecInv'
    <2>1. Advance(c, "reused") /\ parent # TRUE /\ UNCHANGED <<parent, exec>>
      BY <1>2 DEF pid_reused
    <2>2. "reused" \in ChildAt
      BY DEF ChildAt
    <2> QED BY <2>1, <2>2, ProcessStepKeepsExec
  <1>3. ASSUME NEW c \in Containers, NEW t \in Targets, mount_target(c, t)
        PROVE  ExecInv'
    <2>1. PICK l \in {AfterMount(t), "gone"} : Advance(c, l)
      BY <1>3 DEF mount_target
    <2>2. child[c] \notin {"gone", "reused"} /\ UNCHANGED <<parent, exec>>
      BY <1>3 DEF mount_target, Targets
    <2>3. AfterMount(t) \in ChildAt /\ AfterMount(t) # "reused" /\ "gone" \in ChildAt
      BY AfterMountStep DEF ChildAt, Targets
    <2> QED BY <2>1, <2>2, <2>3, ProcessStepKeepsExec
  <1>4. ASSUME NEW c \in Containers, exec_begin(c)
        PROVE  ExecInv'
    <2>1. /\ exec' = [NoExec EXCEPT !.at = "join_pid", !.of = c]
          /\ UNCHANGED <<parent, child>>
      BY <1>4 DEF exec_begin
    <2>2. exec' = [at |-> "join_pid", of |-> c, mnt |-> "host", pid |-> "host", kids |-> "host"]
      BY <2>1 DEF NoExec
    <2>3. /\ exec'.at = "join_pid" /\ exec'.of = c /\ exec'.mnt = "host"
          /\ exec' \in [at: ExecAt, of: Spaces, mnt: Spaces, pid: Spaces, kids: Spaces]
      BY <2>2 DEF ExecAt, Spaces
    <2>4. ExecFailsOnlyIfEnded'
      BY <2>3 DEF ExecFailsOnlyIfEnded
    <2> QED BY <2>1, <2>3, <2>4 DEF ExecInv
  <1> DEFINE s0 == CHOOSE s \in Found(exec) : TRUE
  <1>5. CASE join_pid
    <2>1. exec.at = "join_pid" /\ UNCHANGED <<parent, child>>
      BY <1>5 DEF join_pid
    <2>2. CASE Found(exec) = {}
      <3>1. exec' = [exec EXCEPT !.at = "failed"] /\ child[exec.of] = "gone"
        BY <1>5, <2>1, <2>2, FoundInHost DEF join_pid
      <3> QED BY <2>1, <3>1 DEF ExecInv, ExecAt, ExecFailsOnlyIfEnded
    <2>3. CASE Found(exec) # {}
      <3>1. exec' = [exec EXCEPT !.at = "join_mnt", !.kids = s0]
        BY <1>5, <2>3 DEF join_pid
      <3>2. s0 \in Spaces /\ (parent = TRUE => s0 = exec.of)
        BY <2>1, <2>3, FoundInHost
      <3> HIDE DEF s0
      <3> QED BY <2>1, <3>1, <3>2 DEF ExecInv, ExecAt, ExecFailsOnlyIfEnded
    <2> QED BY <2>2, <2>3
  <1>6. CASE join_mnt
    <2>1. exec.at = "join_mnt" /\ UNCHANGED <<parent, child>>
      BY <1>6 DEF join_mnt
    <2>2. CASE Found(exec) = {}
      <3>1. exec' = [exec EXCEPT !.at = "failed"] /\ child[exec.of] = "gone"
        BY <1>6, <2>1, <2>2, FoundInHost DEF join_mnt
      <3> QED BY <2>1, <3>1 DEF ExecInv, ExecAt, ExecFailsOnlyIfEnded
    <2>3. CASE Found(exec) # {}
      <3>1. exec' = [exec EXCEPT !.at = "exec", !.mnt = s0]
        BY <1>6, <2>3 DEF join_mnt
      <3>2. s0 \in Spaces /\ (parent = TRUE => s0 = exec.of)
        BY <2>1, <2>3, FoundInHost
      <3> HIDE DEF s0
      <3> QED BY <2>1, <3>1, <3>2 DEF ExecInv, ExecAt, ExecFailsOnlyIfEnded
    <2> QED BY <2>2, <2>3
  <1>7. CASE exec_command
    BY <1>7 DEF exec_command, ExecInv, ExecAt, ExecFailsOnlyIfEnded
  <1>8. CASE exec_return
    BY <1>8 DEF exec_return, NoExec, ExecInv, ExecAt, Spaces, ExecFailsOnlyIfEnded
  <1>9. CASE UNCHANGED spaceVars
    BY <1>9 DEF spaceVars, ExecInv, ExecFailsOnlyIfEnded
  <1> QED BY <1>1, <1>2, <1>3, <1>4, <1>5, <1>6, <1>7, <1>8, <1>9 DEF SpaceNext

\* An exec is refused only if the container has ended, wherever in its start the
\* container is, and while the manager is its parent an exec works in the mounts
\* and the PID namespace it was meant for, also if the container ends between the
\* two joins (container_manager_exec, namespace_join).
THEOREM ExecReaches ==
    SpaceSpec => []ExecReachesContainer
  <1>1. SpaceInit => ExecInv
    BY DEF SpaceInit, NoExec, ExecInv, ExecAt, Spaces, ExecFailsOnlyIfEnded
  <1>2. MountInv /\ ExecInv /\ [SpaceNext]_spaceVars => ExecInv'
    BY ExecInvNext
  <1>3. ExecInv => ExecReachesContainer
    BY DEF ExecInv, ExecReachesContainer, ExecInContainer
  <1> QED BY <1>1, <1>2, <1>3, MountInvHolds, PTL DEF SpaceSpec

(***************************************************************************)
(* Cgroups: the limits that were written are in force, an attached process *)
(* is under its memory limit, and the directories of every layout          *)
(* implement one group per container (CgroupSpec).                         *)
(***************************************************************************)
(***************************************************************************)
(* The inductive invariants.                                               *)
(***************************************************************************)
Parts == {"cpu", "cpuacct", "memory"}

Requests == [known: BOOLEAN, value: [Controllers -> Nat], saved: [Controllers -> BOOLEAN]]

ResourceTypeOK ==
    /\ layout \in {"v2", "v1_joint", "v1_split"}
    /\ dirs \in SUBSET (Hierarchies \X Ids)
    /\ members \in SUBSET (Hierarchies \X Ids \X Pids)
    /\ limit \in [Controllers \X Ids -> Nat]
    /\ wanted \in [Ids -> Requests]
    /\ attached \in [Pids -> Ids \cup {NoGroup}]

ResourceInv == ResourceTypeOK /\ LimitsInForce /\ MemoryConfined /\ LimitsOwned

(***************************************************************************)
(* Types.                                                                  *)
(***************************************************************************)

\* The layout stays, and the hierarchies with it.
LEMMA SameLayout ==
    ASSUME UNCHANGED layout
    PROVE  Hierarchies' = Hierarchies /\ \A c \in Parts : HierarchyOf(c)' = HierarchyOf(c)
  BY DEF Hierarchies, HierarchyOf, Parts

LEMMA ControllerHierarchy ==
    \A c \in Parts : HierarchyOf(c) \in Hierarchies
  BY DEF Parts, Hierarchies

LEMMA TypeStep ==
    ASSUME ResourceTypeOK, [ResourceNext]_resourceVars
    PROVE  ResourceTypeOK' /\ UNCHANGED layout
<1>. USE DEF ResourceTypeOK
<1>1. CASE UNCHANGED resourceVars
  BY <1>1, SameLayout DEF resourceVars
<1>2. ASSUME NEW id \in Ids, NEW value \in [Controllers -> Limits],
             NEW F \in SUBSET MkdirFaults, NEW W \in SUBSET WriteFaults,
             create_cgroup(id, value, F, W)
      PROVE  ResourceTypeOK' /\ UNCHANGED layout
  <2>1. UNCHANGED <<layout, members, attached>> /\ Hierarchies' = Hierarchies
    BY <1>2, SameLayout DEF create_cgroup
  <2>2. Made(F) \subseteq Hierarchies
    BY ControllerHierarchy DEF Made, Parts
  <2>3. dirs' \in SUBSET (Hierarchies \X Ids)
    BY <1>2, <2>2 DEF create_cgroup
  <2>4. value \in [Controllers -> Nat]
    BY ResourceAssumption
  <2>5. limit' \in [Controllers \X Ids -> Nat]
    <3>1. \A x \in Controllers \X Ids : LimitAfter(id, x[1], value, F, W) \in Nat
      <4>. SUFFICES ASSUME NEW c \in Controllers
                    PROVE  LimitAfter(id, c, value, F, W) \in Nat
        OBVIOUS
      <4>. QED
        BY <2>4 DEF LimitAfter, Unlimited
    <3>. QED
      BY <1>2, <3>1 DEF create_cgroup
  <2>6. wanted' \in [Ids -> Requests]
    <3>1. [known |-> TRUE, value |-> value, saved |-> [c \in Controllers |-> c \notin W]]
             \in Requests
      BY <2>4 DEF Requests
    <3>. QED
      BY <1>2, <3>1 DEF create_cgroup
  <2>. QED
    BY <2>1, <2>3, <2>5, <2>6
<1>3. ASSUME NEW p \in Pids, NEW id \in Ids, NEW F \in SUBSET AttachFaults, add_process(p, id, F)
      PROVE  ResourceTypeOK' /\ UNCHANGED layout
  <2>1. UNCHANGED <<layout, dirs, limit, wanted>> /\ Hierarchies' = Hierarchies
    BY <1>3, SameLayout DEF add_process
  <2>2. JoinedHierarchies(id, F) \subseteq Hierarchies
    BY ControllerHierarchy DEF JoinedHierarchies, Parts, HierarchyOf, Hierarchies
  <2>. QED
    BY <1>3, <2>1, <2>2 DEF add_process
<1>4. ASSUME NEW id \in Ids, destroy_cgroup(id) \/ forget(id)
      PROVE  ResourceTypeOK' /\ UNCHANGED layout
  <2>1. UNCHANGED <<layout, members, attached>> /\ Hierarchies' = Hierarchies
    BY <1>4, SameLayout DEF destroy_cgroup, forget
  <2>2. NoContainer \in Requests
    BY DEF NoContainer, Requests, Unlimited
  <2>3. wanted' \in [Ids -> Requests]
    BY <1>4, <2>2 DEF destroy_cgroup, forget
  <2>4. limit' \in [Controllers \X Ids -> Nat]
    <3>1. CASE forget(id)
      BY <3>1 DEF forget
    <3>2. CASE destroy_cgroup(id)
      BY <3>2 DEF destroy_cgroup, Unlimited
    <3>. QED
      BY <1>4, <3>1, <3>2
  <2>5. dirs' \subseteq dirs
    BY <1>4 DEF destroy_cgroup, forget
  <2>. QED
    BY <2>1, <2>3, <2>4, <2>5
<1>5. ASSUME NEW p \in Pids, member_ends(p)
      PROVE  ResourceTypeOK' /\ UNCHANGED layout
  BY <1>5, SameLayout DEF member_ends
<1>. QED
  BY <1>1, <1>2, <1>3, <1>4, <1>5 DEF ResourceNext

(***************************************************************************)
(* Limits.                                                                 *)
(***************************************************************************)

\* A create that succeeds has made every directory that carries a limit.
LEMMA CreatedMade ==
    ASSUME NEW F, Created(F), ResourceTypeOK
    PROVE  \A c \in Controllers : HierarchyOf(c) \in Made(F)
  BY DEF Created, Made, Controllers, HierarchyOf, ResourceTypeOK

LEMMA LimitsStep ==
    ASSUME ResourceTypeOK, LimitsInForce, [ResourceNext]_resourceVars
    PROVE  LimitsInForce'
<1>. USE DEF ResourceTypeOK
<1>0. UNCHANGED layout /\ Hierarchies' = Hierarchies
      /\ \A c \in Controllers : HierarchyOf(c)' = HierarchyOf(c) /\ HierarchyOf(c) \in Hierarchies
  BY TypeStep, SameLayout, ControllerHierarchy DEF Controllers, Parts
<1>. SUFFICES ASSUME NEW i \in Ids, NEW c \in Controllers, wanted'[i].known
              PROVE  /\ <<HierarchyOf(c), i>> \in dirs'
                     /\ wanted'[i].value[c] # Unlimited /\ wanted'[i].saved[c] =>
                           limit'[<<c, i>>] = wanted'[i].value[c]
  BY <1>0 DEF LimitsInForce, Dirs
<1>h. wanted[i].known =>
        /\ <<HierarchyOf(c), i>> \in dirs
        /\ wanted[i].value[c] # Unlimited /\ wanted[i].saved[c] =>
              limit[<<c, i>>] = wanted[i].value[c]
  BY DEF LimitsInForce, Dirs
<1>1. CASE UNCHANGED <<dirs, limit, wanted>>
  BY <1>1, <1>h
<1>2. ASSUME NEW id \in Ids, NEW value \in [Controllers -> Limits],
             NEW F \in SUBSET MkdirFaults, NEW W \in SUBSET WriteFaults,
             create_cgroup(id, value, F, W)
      PROVE  /\ <<HierarchyOf(c), i>> \in dirs'
             /\ wanted'[i].value[c] # Unlimited /\ wanted'[i].saved[c] =>
                   limit'[<<c, i>>] = wanted'[i].value[c]
  <2>1. CASE i # id
    <3>1. wanted'[i] = wanted[i] /\ limit'[<<c, i>>] = limit[<<c, i>>] /\ dirs \subseteq dirs'
      BY <1>2, <2>1 DEF create_cgroup
    <3>. QED
      BY <3>1, <1>h
  <2>2. CASE i = id
    <3>1. Created(F)
      BY <1>2, <2>2 DEF create_cgroup
    <3>2. wanted'[i] = [known |-> TRUE, value |-> value,
                        saved |-> [d \in Controllers |-> d \notin W]]
      BY <1>2, <2>2, <3>1 DEF create_cgroup
    <3>3. limit'[<<c, i>>] = LimitAfter(id, c, value, F, W)
      BY <1>2, <2>2 DEF create_cgroup
    <3>4. HierarchyOf(c) \in Made(F) /\ dirs' = dirs \cup {<<h, i>> : h \in Made(F)}
      BY <1>2, <2>2, <3>1, CreatedMade DEF create_cgroup
    <3>5. <<HierarchyOf(c), i>> \in dirs'
      BY <3>4
    <3>6. wanted'[i].value = value
      BY <3>2
    <3>7. wanted'[i].saved = [d \in Controllers |-> d \notin W]
      BY <3>2
    <3>8. wanted'[i].saved[c] = (c \notin W)
      BY <3>7, Zenon
    <3>9. ASSUME value[c] # Unlimited, c \notin W
          PROVE  limit'[<<c, i>>] = value[c]
      <4>1. Written(id, c, value, W)
        BY <3>9 DEF Written
      <4>2. LimitAfter(id, c, value, F, W) = value[c]
        BY <3>1, <4>1 DEF LimitAfter
      <4>. QED
        BY <3>3, <4>2
    <3>. QED
      BY <3>5, <3>6, <3>8, <3>9
  <2>. QED
    BY <2>1, <2>2
<1>3. ASSUME NEW id \in Ids, destroy_cgroup(id)
      PROVE  /\ <<HierarchyOf(c), i>> \in dirs'
             /\ wanted'[i].value[c] # Unlimited /\ wanted'[i].saved[c] =>
                   limit'[<<c, i>>] = wanted'[i].value[c]
  <2>1. i # id /\ wanted'[i] = wanted[i]
    BY <1>3 DEF destroy_cgroup, NoContainer
  <2>2. <<HierarchyOf(c), i>> \in dirs'
    BY <1>3, <1>h, <2>1 DEF destroy_cgroup
  <2>3. limit'[<<c, i>>] = limit[<<c, i>>]
    BY <1>3, <2>2 DEF destroy_cgroup
  <2>. QED
    BY <1>h, <2>1, <2>2, <2>3
<1>4. ASSUME NEW id \in Ids, forget(id)
      PROVE  /\ <<HierarchyOf(c), i>> \in dirs'
             /\ wanted'[i].value[c] # Unlimited /\ wanted'[i].saved[c] =>
                   limit'[<<c, i>>] = wanted'[i].value[c]
  <2>1. wanted'[i] = wanted[i]
    BY <1>4 DEF forget, NoContainer
  <2>. QED
    BY <1>4, <1>h, <2>1 DEF forget
<1>. QED
  BY <1>1, <1>2, <1>3, <1>4 DEF ResourceNext, add_process, member_ends, resourceVars

\* Only a create that succeeds writes a limit, and a destroy that removes every
\* directory leaves none.
LEMMA OwnedStep ==
    ASSUME ResourceTypeOK, LimitsOwned, [ResourceNext]_resourceVars
    PROVE  LimitsOwned'
<1>. USE DEF ResourceTypeOK
<1>. SUFFICES ASSUME NEW i \in Ids, i \notin dropped', NEW c \in Controllers,
                     limit'[<<c, i>>] # Unlimited
              PROVE  wanted'[i].known /\ limit'[<<c, i>>] = wanted'[i].value[c]
  BY DEF LimitsOwned
<1>h. i \notin dropped /\ limit[<<c, i>>] # Unlimited =>
        wanted[i].known /\ limit[<<c, i>>] = wanted[i].value[c]
  BY DEF LimitsOwned
<1>1. CASE UNCHANGED <<limit, wanted, dropped>>
  BY <1>1, <1>h
<1>2. ASSUME NEW id \in Ids, NEW value \in [Controllers -> Limits],
             NEW F \in SUBSET MkdirFaults, NEW W \in SUBSET WriteFaults,
             create_cgroup(id, value, F, W)
      PROVE  wanted'[i].known /\ limit'[<<c, i>>] = wanted'[i].value[c]
  <2>0. dropped' = dropped /\ ~wanted[id].known
    BY <1>2 DEF create_cgroup
  <2>1. CASE i # id
    <3>1. wanted'[i] = wanted[i] /\ limit'[<<c, i>>] = limit[<<c, i>>]
      BY <1>2, <2>1 DEF create_cgroup
    <3>. QED
      BY <2>0, <3>1, <1>h
  <2>2. CASE i = id
    <3>1. limit'[<<c, i>>] = LimitAfter(id, c, value, F, W)
      BY <1>2, <2>2 DEF create_cgroup
    <3>2. limit[<<c, i>>] = Unlimited
      BY <1>h, <2>0, <2>2
    <3>3. Created(F) /\ limit'[<<c, i>>] = value[c]
      BY <2>2, <3>1, <3>2 DEF LimitAfter
    <3>4. wanted'[i] = [known |-> TRUE, value |-> value,
                        saved |-> [d \in Controllers |-> d \notin W]]
      BY <1>2, <2>2, <3>3 DEF create_cgroup
    <3>. QED
      BY <3>3, <3>4
  <2>. QED
    BY <2>1, <2>2
<1>3. ASSUME NEW id \in Ids, destroy_cgroup(id)
      PROVE  wanted'[i].known /\ limit'[<<c, i>>] = wanted'[i].value[c]
  <2>1. limit'[<<c, i>>] = limit[<<c, i>>] /\ <<HierarchyOf(c), i>> \in dirs'
    BY <1>3 DEF destroy_cgroup
  <2>2. i # id
    <3>. SUFFICES ASSUME i = id PROVE FALSE
      OBVIOUS
    <3>1. Removed(i) = Hierarchies
      BY <1>3 DEF destroy_cgroup
    <3>2. HierarchyOf(c) \in Hierarchies
      BY ControllerHierarchy DEF Controllers, Parts
    <3>3. dirs' = dirs \ {<<h, i>> : h \in Removed(i)}
      BY <1>3 DEF destroy_cgroup
    <3>. QED
      BY <2>1, <3>1, <3>2, <3>3
  <2>3. wanted'[i] = wanted[i] /\ i \notin dropped
    BY <1>3, <2>2 DEF destroy_cgroup
  <2>. QED
    BY <1>h, <2>1, <2>3
<1>4. ASSUME NEW id \in Ids, forget(id)
      PROVE  wanted'[i].known /\ limit'[<<c, i>>] = wanted'[i].value[c]
  <2>1. i # id /\ i \notin dropped /\ wanted'[i] = wanted[i] /\ limit' = limit
    BY <1>4 DEF forget
  <2>. QED
    BY <1>h, <2>1
<1>. QED
  BY <1>1, <1>2, <1>3, <1>4 DEF ResourceNext, add_process, member_ends, resourceVars

(***************************************************************************)
(* Memberships.                                                            *)
(***************************************************************************)

\* What a successful add_process has joined.
LEMMA AddedJoins ==
    ASSUME ResourceTypeOK, NEW id, NEW F, Added(id, F)
    PROVE  HierarchyOf("memory") \in JoinedHierarchies(id, F)
  BY DEF Added, CpuJoined, Joins, JoinedHierarchies, HierarchyOf, ResourceTypeOK

\* A process only joins directories that exist.
LEMMA JoinedExist ==
    ASSUME ResourceTypeOK, NEW id, NEW F
    PROVE  \A h \in JoinedHierarchies(id, F) : <<h, id>> \in dirs
  BY DEF Joins, JoinedHierarchies, HierarchyOf, ResourceTypeOK, Dirs

\* A process that joins is in no other group, and its new groups are these.
LEMMA JoinMembers ==
    ASSUME ResourceTypeOK, NEW p \in Pids, NEW id \in Ids, NEW F, add_process(p, id, F)
    PROVE  \A h \in Hierarchies, i \in Ids, q \in Pids :
             <<h, i, q>> \in members' <=>
                IF q = p THEN i = id /\ h \in JoinedHierarchies(id, F)
                ELSE <<h, i, q>> \in members
<1>. SUFFICES ASSUME NEW h \in Hierarchies, NEW i \in Ids, NEW q \in Pids
              PROVE  <<h, i, q>> \in members' <=>
                        IF q = p THEN i = id /\ h \in JoinedHierarchies(id, F)
                        ELSE <<h, i, q>> \in members
  OBVIOUS
<1>1. members' = members \cup {<<g, id, p>> : g \in JoinedHierarchies(id, F)}
  BY DEF add_process
<1>2. <<h, i, p>> \notin members
  BY DEF add_process
<1>. QED
  BY <1>1, <1>2

LEMMA EndMembers ==
    ASSUME NEW p, member_ends(p), NEW h, NEW i, NEW q
    PROVE  <<h, i, q>> \in members' <=> <<h, i, q>> \in members /\ q # p
  BY DEF member_ends

LEMMA ConfinedStep ==
    ASSUME ResourceTypeOK, MemoryConfined, [ResourceNext]_resourceVars
    PROVE  MemoryConfined'
<1>. USE DEF ResourceTypeOK
<1>0. HierarchyOf("memory")' = HierarchyOf("memory") /\ HierarchyOf("memory") \in Hierarchies
  BY TypeStep, SameLayout, ControllerHierarchy DEF Parts
<1>1. CASE UNCHANGED <<members, attached>>
  BY <1>0, <1>1 DEF MemoryConfined
<1>2. ASSUME NEW p \in Pids, NEW id \in Ids, NEW F \in SUBSET AttachFaults, add_process(p, id, F)
      PROVE  MemoryConfined'
  <2>. SUFFICES ASSUME NEW q \in Pids, attached'[q] # NoGroup
                PROVE  <<HierarchyOf("memory"), attached'[q], q>> \in members'
    BY <1>0 DEF MemoryConfined
  <2>1. members \subseteq members'
    BY <1>2 DEF add_process
  <2>2. CASE q # p
    BY <1>2, <2>1, <2>2 DEF add_process, MemoryConfined
  <2>3. CASE q = p
    <3>1. attached'[q] = id /\ Added(id, F)
      BY <1>2, <2>3 DEF add_process
    <3>. QED
      BY <1>0, <1>2, <2>3, <3>1, AddedJoins, JoinMembers
  <2>. QED
    BY <2>2, <2>3
<1>3. ASSUME NEW p \in Pids, member_ends(p)
      PROVE  MemoryConfined'
  <2>. SUFFICES ASSUME NEW q \in Pids, attached'[q] # NoGroup
                PROVE  <<HierarchyOf("memory"), attached'[q], q>> \in members'
    BY <1>0 DEF MemoryConfined
  <2>1. q # p /\ attached'[q] = attached[q]
    BY <1>3 DEF member_ends
  <2>. QED
    BY <1>3, <2>1, EndMembers DEF MemoryConfined
<1>. QED
  BY <1>1, <1>2, <1>3 DEF ResourceNext, create_cgroup, destroy_cgroup, forget, resourceVars

(***************************************************************************)
(* The invariants hold.                                                    *)
(***************************************************************************)
LEMMA ResourceInitial ==
    ASSUME ResourceInit
    PROVE  ResourceInv
<1>1. NoContainer \in Requests /\ ~NoContainer.known
  BY DEF NoContainer, Requests, Unlimited
<1>2. ResourceTypeOK
  BY <1>1, ResourceAssumption DEF ResourceInit, ResourceTypeOK, Unlimited
<1>3. LimitsInForce
  BY <1>1 DEF ResourceInit, LimitsInForce
<1>. QED
  BY <1>2, <1>3 DEF ResourceInit, ResourceInv, MemoryConfined, LimitsOwned

LEMMA ResourceStep ==
    ASSUME ResourceInv, [ResourceNext]_resourceVars
    PROVE  ResourceInv'
  BY TypeStep, LimitsStep, OwnedStep, ConfinedStep DEF ResourceInv

\* A container that was created has a directory wherever its limits are written,
\* and every limit that was written without an error is in force, for any ids,
\* limits and failures and in every layout, whatever an earlier container of the
\* same name has left behind.
THEOREM LimitsAreInForce == ResourceSpec => []LimitsInForce
<1>1. ResourceInv => LimitsInForce
  BY DEF ResourceInv
<1>. QED
  BY <1>1, ResourceInitial, ResourceStep, PTL DEF ResourceSpec

\* A limit in force under a name is the one its container was given, in every
\* layout and whatever has failed, until a container of that name is forgotten or
\* destroyed while a process holds a directory.
THEOREM LimitsAreOwned == ResourceSpec => []LimitsOwned
<1>1. ResourceInv => LimitsOwned
  BY DEF ResourceInv
<1>. QED
  BY <1>1, ResourceInitial, ResourceStep, PTL DEF ResourceSpec

\* A process for which add_process reported success is in the group its memory
\* limit was written to, whichever of the other writes failed.
THEOREM MemoryIsConfined == ResourceSpec => []MemoryConfined
<1>1. ResourceInv => MemoryConfined
  BY DEF ResourceInv
<1>. QED
  BY <1>1, ResourceInitial, ResourceStep, PTL DEF ResourceSpec

(***************************************************************************)
(* The directories implement one group per container.                      *)
(***************************************************************************)
Complete == {id \in Ids : \A c \in Controllers : HierarchyOf(c) \in Dirs(id)}
GroupOf(p) == IF \E id \in Ids : Confining(id, p)
              THEN CHOOSE id \in Ids : Confining(id, p) ELSE NoGroup
In == [p \in Pids |-> GroupOf(p)]

LEMMA GroupConfines ==
    ASSUME NEW p \in Pids, NEW id \in Ids, GroupOf(p) = id
    PROVE  Confining(id, p)
  BY ResourceAssumption DEF GroupOf

\* Processes whose memberships do not change stay where they are.
LEMMA GroupStays ==
    ASSUME UNCHANGED layout, NEW p \in Pids,
           \A h \in Hierarchies, i \in Ids : <<h, i, p>> \in members' <=> <<h, i, p>> \in members
    PROVE  GroupOf(p)' = GroupOf(p)
<1>1. \A i \in Ids : Confining(i, p)' <=> Confining(i, p)
  BY SameLayout, ControllerHierarchy DEF Confining, Controllers, Parts
<1>. QED
  BY <1>1 DEF GroupOf

LEMMA CreateMakes ==
    ASSUME ResourceInv, NEW id \in Ids, NEW value, NEW F, NEW W, create_cgroup(id, value, F, W)
    PROVE  In' = In /\ Complete' \in {Complete, Complete \cup {id}}
<1>1. UNCHANGED <<layout, members>> /\ dirs' = dirs \cup {<<h, id>> : h \in Made(F)}
  BY DEF create_cgroup
<1>2. \A p \in Pids : GroupOf(p)' = GroupOf(p)
  BY <1>1, GroupStays
<1>3. \A i \in Ids, c \in Controllers :
        HierarchyOf(c)' \in Dirs(i)' <=> HierarchyOf(c) \in Dirs(i) \/ (i = id /\ HierarchyOf(c) \in Made(F))
  <2>1. \A c \in Controllers : HierarchyOf(c)' = HierarchyOf(c) /\ HierarchyOf(c) \in Hierarchies
    BY <1>1, SameLayout, ControllerHierarchy DEF Controllers, Parts
  <2>2. Hierarchies' = Hierarchies
    BY <1>1, SameLayout
  <2>. QED
    BY <1>1, <2>1, <2>2 DEF Dirs
<1>. QED
  BY <1>2, <1>3 DEF In, Complete

LEMMA AddAttaches ==
    ASSUME ResourceInv, NEW p \in Pids, NEW id \in Ids, NEW F, add_process(p, id, F)
    PROVE  /\ Complete' = Complete
           /\ \/ In' = In
              \/ id \in Complete /\ In' = [In EXCEPT ![p] = id]
<1>. USE DEF ResourceInv
<1>1. UNCHANGED <<layout, dirs>>
  BY DEF add_process
<1>2. \A c \in Controllers : HierarchyOf(c)' = HierarchyOf(c) /\ HierarchyOf(c) \in Hierarchies
  BY <1>1, SameLayout, ControllerHierarchy DEF Controllers, Parts
<1>3. Complete' = Complete
  BY <1>1, <1>2, SameLayout DEF Complete, Dirs
<1>4. \A q \in Pids \ {p} : GroupOf(q)' = GroupOf(q)
  BY <1>1, JoinMembers, GroupStays
<1>5. GroupOf(p) = NoGroup
  BY <1>2 DEF GroupOf, Confining, add_process, Controllers
<1>6. \A i \in Ids : Confining(i, p)' <=>
          i = id /\ \A c \in Controllers : HierarchyOf(c) \in JoinedHierarchies(id, F)
  BY <1>2, JoinMembers DEF Confining, Controllers
<1>7. CASE \A c \in Controllers : HierarchyOf(c) \in JoinedHierarchies(id, F)
  <2>1. GroupOf(p)' = id
    BY <1>6, <1>7 DEF GroupOf
  <2>2. id \in Complete
    BY <1>2, <1>7, JoinedExist DEF Complete, Dirs
  <2>3. In' = [In EXCEPT ![p] = id]
    BY <1>4, <2>1 DEF In
  <2>. QED
    BY <1>3, <2>2, <2>3
<1>8. CASE ~ \A c \in Controllers : HierarchyOf(c) \in JoinedHierarchies(id, F)
  <2>1. GroupOf(p)' = NoGroup
    BY <1>6, <1>8 DEF GroupOf
  <2>. QED
    BY <1>3, <1>4, <1>5, <2>1 DEF In
<1>. QED
  BY <1>7, <1>8

LEMMA DestroyRemoves ==
    ASSUME ResourceInv, NEW id \in Ids, destroy_cgroup(id)
    PROVE  /\ In' = In
           /\ \/ Complete' = Complete
              \/ Complete' = Complete \ {id} /\ \A p \in Pids : In[p] # id
<1>1. UNCHANGED <<layout, members>> /\ dirs' = dirs \ {<<h, id>> : h \in Removed(id)}
  BY DEF destroy_cgroup
<1>2. \A c \in Controllers : HierarchyOf(c)' = HierarchyOf(c) /\ HierarchyOf(c) \in Hierarchies
  BY <1>1, SameLayout, ControllerHierarchy DEF Controllers, Parts
<1>3. In' = In
  BY <1>1, GroupStays DEF In
<1>4. \A i \in Ids, c \in Controllers :
        HierarchyOf(c)' \in Dirs(i)' <=> HierarchyOf(c) \in Dirs(i) /\ ~(i = id /\ HierarchyOf(c) \in Removed(id))
  BY <1>1, <1>2, SameLayout DEF Dirs
<1>5. ASSUME NEW p \in Pids, In[p] = id
      PROVE  Complete' = Complete
  <2>1. Confining(id, p)
    BY <1>5, GroupConfines DEF In
  <2>2. \A c \in Controllers : HierarchyOf(c) \notin Removed(id)
    BY <2>1 DEF Removed, MembersOf, Confining
  <2>. QED
    BY <1>4, <2>2 DEF Complete
<1>6. Complete' \in {Complete, Complete \ {id}}
  BY <1>4 DEF Complete
<1>. QED
  BY <1>3, <1>5, <1>6

LEMMA EndLeaves ==
    ASSUME ResourceInv, NEW p \in Pids, member_ends(p)
    PROVE  Complete' = Complete /\ In' = [In EXCEPT ![p] = NoGroup]
<1>1. UNCHANGED <<layout, dirs>>
  BY DEF member_ends
<1>2. Complete' = Complete
  BY <1>1, SameLayout DEF Complete, Dirs, Controllers, Parts
<1>3. \A q \in Pids \ {p} : GroupOf(q)' = GroupOf(q)
  BY <1>1, EndMembers, GroupStays
<1>4. GroupOf(p)' = NoGroup
  BY EndMembers DEF GroupOf, Confining, Controllers
<1>. QED
  BY <1>2, <1>3, <1>4 DEF In

\* Whatever mkdir, write or rmdir fails, the directories of the three layouts
\* behave as one group per container: it exists when every directory that carries
\* a limit does, it confines the processes that are in all of them, and it stays
\* as long as it confines one.
THEOREM CgroupsImplemented == ResourceSpec => ImplementsCgroups
<1>1. ResourceInit => CS!Init
  <2>. SUFFICES ASSUME ResourceInit
                PROVE  Complete = {} /\ In = [p \in Pids |-> NoGroup]
    BY DEF CS!Init, Complete, In, GroupOf
  <2>. QED
    BY DEF ResourceInit, Complete, In, GroupOf, Dirs, Confining, Controllers
<1>2. ASSUME ResourceInv, [ResourceNext]_resourceVars
      PROVE  [CS!Next]_<<Complete, In>>
  <2>. DEFINE Step == \/ UNCHANGED <<Complete, In>>
                      \/ \E id \in Ids : Complete' = Complete \cup {id} /\ In' = In
                      \/ \E id \in Ids : /\ \A p \in Pids : In[p] # id
                                         /\ Complete' = Complete \ {id} /\ In' = In
                      \/ \E id \in Complete, p \in Pids : In' = [In EXCEPT ![p] = id] /\ Complete' = Complete
                      \/ \E p \in Pids : In' = [In EXCEPT ![p] = NoGroup] /\ Complete' = Complete
  <2>1. ASSUME UNCHANGED <<layout, dirs, members>>
        PROVE  Step
    <3>1. Complete' = Complete
      BY <2>1, SameLayout DEF Complete, Dirs, Controllers, Parts
    <3>2. In' = In
      BY <2>1, GroupStays DEF In
    <3>. QED
      BY <3>1, <3>2
  <2>2. Step
    BY <1>2, <2>1, CreateMakes, AddAttaches, DestroyRemoves, EndLeaves
       DEF ResourceNext, resourceVars, forget
  <2>3. Complete \subseteq Ids
    BY DEF Complete
  <2>. QED
    BY <2>2, <2>3 DEF CS!Next, CS!Make, CS!Remove, CS!Attach, CS!Leave, Complete, In, GroupOf
<1>. QED
  BY <1>1, <1>2, ResourceInitial, ResourceStep, PTL
     DEF ResourceSpec, ImplementsCgroups, CS!Spec, Complete, In, GroupOf

(***************************************************************************)
(* The root.  A directory other than the root itself is never removed, so  *)
(* what a builder has made stays made; and mkdir_p's frames, innermost     *)
(* first, are a chain of parents that are missing, unless somebody else    *)
(* makes them in the meantime.                                             *)
(***************************************************************************)
Paths == {"root", "bin", "usr", "usr/bin", "dev"}
Frames == [path : Paths, again : BOOLEAN]

JobAt == {"idle", "dirs", "devices", "files", "mounts", "unmounts", "rmdir",
          "built", "failed", "cleaned"}
Jobs == [at : JobAt, i : Nat, stack : Seq(Frames), hurt : BOOLEAN]

\* Directories hang together, and /tmp is always there.
Tree(D) == "tmp" \in D /\ \A p \in D \ {"tmp"} : p \in Paths /\ Parent(p) \in D

DirsUpTo(n, D) == \A k \in 1..n : essential_dirs[k] \in D
NodesUpTo(n, N) == \A k \in 1..n : essential_devices[k] \in N

\* What a job has made so far: D are the directories, N the devices.
Progress(j, D, N) ==
    /\ j.at = "dirs" => /\ j.i \in 1..4 /\ DirsUpTo(j.i - 1, D)
                        /\ Len(j.stack) > 0
                        /\ j.stack[Len(j.stack)].path = essential_dirs[j.i]
    /\ j.at \in {"devices", "files", "built", "mounts"} => DirsUpTo(4, D)
    /\ j.at = "devices" => j.i \in 1..2 /\ NodesUpTo(j.i - 1, N)
    /\ j.at \in {"files", "built", "mounts"} => NodesUpTo(2, N)

\* The frames s of a job that is alone: each waits for its parent, and no frame
\* that is to try again finds its directory made, or its parent missing.
Missing(s, D) ==
    /\ \A k \in 1..(Len(s) - 1) :
          s[k].path = Parent(s[k + 1].path) /\ s[k + 1].again = TRUE
    /\ \A k \in 1..Len(s) : s[k].again = TRUE => s[k].path \notin D
    /\ s[1].again = TRUE => Parent(s[1].path) \in D

Undisturbed(j, D) ==
    /\ j.at = "failed" => j.hurt = TRUE
    /\ j.at = "dirs" => Missing(j.stack, D)

RootInv ==
    /\ Tree(rootDirs)
    /\ job \in [Builders -> Jobs] /\ users \subseteq Builders
    /\ \A b \in Builders : b \notin users => job[b].at = "idle"
    /\ \A b \in Builders : Progress(job[b], rootDirs, nodes)
    /\ \A b \in Builders : users \subseteq {b} => Undisturbed(job[b], rootDirs)

LEMMA EssentialFacts ==
    /\ Len(essential_dirs) = 4 /\ DOMAIN essential_dirs = 1..4
    /\ essential_dirs[1] = "bin"
    /\ \A k \in 1..4 : essential_dirs[k] \in Paths /\ essential_dirs[k] # "root"
    /\ Len(essential_devices) = 2 /\ DOMAIN essential_devices = 1..2
    /\ Len(essential_files) = 2 /\ Len(mount_points) = 4
  <1>1. /\ Len(essential_dirs) = 4 /\ DOMAIN essential_dirs = 1..4 /\ essential_dirs[1] = "bin"
        /\ Len(essential_devices) = 2 /\ DOMAIN essential_devices = 1..2
        /\ Len(essential_files) = 2 /\ Len(mount_points) = 4
    BY DEF essential_dirs, essential_devices, essential_files, mount_points
  <1>2. \A k \in 1..4 : essential_dirs[k] \in {"bin", "usr", "usr/bin", "dev"}
    BY DEF essential_dirs
  <1> QED BY <1>1, <1>2 DEF Paths

\* More directories, but for the root, and more devices undo nothing.
LEMMA ProgressStays ==
    ASSUME NEW j \in Jobs, NEW D, NEW N, NEW D2, NEW N2, Progress(j, D, N),
           D \ {"root"} \subseteq D2, N \subseteq N2
    PROVE  Progress(j, D2, N2)
  <1>1. ASSUME NEW n \in Int, n <= 4, DirsUpTo(n, D)
        PROVE  DirsUpTo(n, D2)
    BY <1>1, EssentialFacts DEF DirsUpTo
  <1>2. ASSUME NEW n \in Int, NodesUpTo(n, N)
        PROVE  NodesUpTo(n, N2)
    BY <1>2 DEF NodesUpTo
  <1>3. j.i \in Nat
    BY DEF Jobs
  <1>4. j.at = "dirs" => j.i - 1 \in Int /\ j.i - 1 <= 4
    BY DEF Progress
  <1> QED BY <1>1, <1>2, <1>3, <1>4 DEF Progress

\* A step of builder b, to job j: after it, the others are no longer alone.
LEMMA BuilderStep ==
    ASSUME RootInv, NEW b \in Builders, NEW j \in Jobs,
           job' = [job EXCEPT ![b] = j], users' = users \cup {b},
           Tree(rootDirs'), rootDirs \ {"root"} \subseteq rootDirs', nodes \subseteq nodes',
           Progress(j, rootDirs', nodes'),
           users' \subseteq {b} => Undisturbed(j, rootDirs')
    PROVE  RootInv'
  <1>1. job' \in [Builders -> Jobs] /\ users' \subseteq Builders
    BY DEF RootInv
  <1>2. job'[b] = j /\ \A a \in Builders \ {b} : job'[a] = job[a]
    BY DEF RootInv
  <1>3. \A a \in Builders : a \notin users' => job'[a].at = "idle"
    BY <1>2 DEF RootInv
  <1>4. ASSUME NEW a \in Builders
        PROVE  Progress(job'[a], rootDirs', nodes')
    <2>1. CASE a = b
      BY <2>1, <1>2
    <2>2. CASE a # b
      <3>1. job'[a] = job[a] /\ job[a] \in Jobs /\ Progress(job[a], rootDirs, nodes)
        BY <2>2, <1>2 DEF RootInv
      <3> QED BY <3>1, ProgressStays
    <2> QED BY <2>1, <2>2
  <1>5. ASSUME NEW a \in Builders, users' \subseteq {a}
        PROVE  Undisturbed(job'[a], rootDirs')
    <2>1. a = b
      BY <1>5
    <2> QED BY <2>1, <1>2, <1>5
  <1> QED BY <1>1, <1>3, <1>4, <1>5 DEF RootInv

(***************************************************************************)
(* The frames of mkdir_p.                                                  *)
(***************************************************************************)

LEMMA EmptyLength == Len(<<>>) = 0
  OBVIOUS

\* The second part of two sequences in a row.
LEMMA SecondPart ==
    ASSUME NEW S, NEW a \in Seq(S), NEW u \in Seq(S),
           NEW k \in Int, Len(a) < k, k <= Len(a) + Len(u)
    PROVE  (a \o u)[k] = u[k - Len(a)]
  OBVIOUS

\* A frame and the one that is to be tried again, in place of the innermost.
LEMMA PushedFrames ==
    ASSUME NEW s \in Seq(Frames), Len(s) > 0, NEW f \in Frames, NEW g \in Frames,
           NEW t, t = <<f, g>> \o Tail(s)
    PROVE  /\ t \in Seq(Frames) /\ Len(t) = Len(s) + 1 /\ t[1] = f /\ t[2] = g
           /\ \A k \in 3..Len(t) : t[k] = s[k - 1]
  <1>1. Tail(s) \in Seq(Frames) /\ Len(Tail(s)) = Len(s) - 1
    OBVIOUS
  <1>2. \A k \in 1..(Len(s) - 1) : Tail(s)[k] = s[k + 1]
    OBVIOUS
  <1>3. <<f, g>> \in Seq(Frames) /\ Len(<<f, g>>) = 2
    OBVIOUS
  <1> DEFINE a == <<f, g>>
             u == Tail(s)
  <1>4. a[1] = f /\ a[2] = g
    OBVIOUS
  <1> HIDE DEF a, u
  <1>5. a \in Seq(Frames) /\ u \in Seq(Frames) /\ t = a \o u /\ Len(a) = 2 /\ Len(u) = Len(s) - 1
    BY <1>1, <1>3 DEF a, u
  <1>6. t \in Seq(Frames) /\ Len(t) = Len(s) + 1
    BY <1>5
  <1>7. t[1] = f /\ t[2] = g
    BY <1>4, <1>5
  <1>8. ASSUME NEW k \in 3..Len(t)
        PROVE  t[k] = s[k - 1]
    <2>1. t[k] = u[k - 2]
      <3>1. k \in Int /\ Len(a) < k /\ k <= Len(a) + Len(u)
        BY <1>5, <1>6
      <3>2. (a \o u)[k] = u[k - Len(a)]
        BY <1>5, <3>1, SecondPart
      <3> QED BY <1>5, <3>2
    <2>2. k - 2 \in 1..(Len(s) - 1)
      BY <1>6
    <2>3. u[k - 2] = s[(k - 2) + 1]
      BY <1>2, <2>2 DEF u
    <2> QED BY <2>1, <2>3
  <1> QED BY <1>6, <1>7, <1>8

\* A chain of parents has no loop and at most three frames.
LEMMA ChainIsShort ==
    ASSUME NEW s \in Seq(Frames), Len(s) > 0,
           \A k \in 1..(Len(s) - 1) : s[k].path = Parent(s[k + 1].path)
    PROVE  Len(s) <= 3 /\ \A k \in 2..Len(s) : s[k].path # s[1].path
  <1>1. \A k \in 1..Len(s) : s[k].path \in Paths
    <2>1. \A k \in 1..Len(s) : s[k] \in Frames
      OBVIOUS
    <2>2. \A f \in Frames : f.path \in Paths
      BY DEF Frames
    <2> QED BY <2>1, <2>2
  <1>2. \A p \in Paths : Parent(p) # p /\ (Parent(p) \in Paths => Parent(Parent(p)) # p)
    BY DEF Paths, Parent
  <1>3. Len(s) <= 3
    <2> SUFFICES ASSUME Len(s) >= 4
                 PROVE  FALSE
      OBVIOUS
    <2>1. /\ s[3].path = Parent(s[4].path) /\ s[2].path = Parent(s[3].path)
          /\ s[1].path = Parent(s[2].path)
      OBVIOUS
    <2>2. s[1].path \in Paths /\ s[2].path \in Paths /\ s[3].path \in Paths /\ s[4].path \in Paths
      BY <1>1
    <2> QED BY <2>1, <2>2 DEF Paths, Parent
  <1>4. ASSUME NEW k \in 2..Len(s)
        PROVE  s[k].path # s[1].path
    <2>1. CASE k = 2
      <3>1. s[1].path = Parent(s[2].path) /\ s[2].path \in Paths
        BY <1>1, <2>1
      <3> QED BY <2>1, <3>1, <1>2
    <2>2. CASE k = 3
      <3>1. /\ s[1].path = Parent(s[2].path) /\ s[2].path = Parent(s[3].path)
            /\ s[2].path \in Paths /\ s[3].path \in Paths
        BY <1>1, <2>2
      <3> QED BY <2>2, <3>1, <1>2
    <2>3. k = 2 \/ k = 3
      BY <1>3
    <2> QED BY <2>1, <2>2, <2>3
  <1> QED BY <1>3, <1>4

\* mkdir_p has returned for the innermost frame, whose directory is in D now.
LEMMA ReturnStep ==
    ASSUME RootInv, NEW b \in Builders, job[b].at = "dirs", NEW D,
           rootDirs \subseteq D, Head(job[b].stack).path \in D
    PROVE  /\ Returned(job[b]) \in Jobs
           /\ Progress(Returned(job[b]), D, nodes)
           /\ (/\ Undisturbed(job[b], rootDirs)
               /\ \A k \in 2..Len(job[b].stack) : job[b].stack[k].path \notin D)
              => Undisturbed(Returned(job[b]), D)
  <1> DEFINE j == job[b]
             s == job[b].stack
             r == Returned(job[b])
  <1>1. /\ j \in Jobs /\ s \in Seq(Frames) /\ Len(s) \in Nat /\ Len(s) > 0
        /\ j.i \in 1..4 /\ DirsUpTo(j.i - 1, rootDirs) /\ s[Len(s)].path = essential_dirs[j.i]
        /\ Head(s) = s[1] /\ j.at = "dirs"
    BY DEF RootInv, Progress, Jobs
  <1>2. DirsUpTo(j.i - 1, D)
    BY <1>1 DEF DirsUpTo
  <1>3. CASE Tail(s) # <<>>
    <2>1. r = [j EXCEPT !.stack = Tail(s)]
      BY <1>3 DEF Returned
    <2>2. Tail(s) \in Seq(Frames) /\ Len(Tail(s)) = Len(s) - 1 /\ Len(s) > 1
      BY <1>1, <1>3
    <2>3. \A k \in 1..(Len(s) - 1) : Tail(s)[k] = s[k + 1]
      BY <1>1
    <2> DEFINE t == Tail(s)
    <2>4. /\ r.at = "dirs" /\ r.i = j.i /\ r.stack = t /\ r.hurt = j.hurt /\ r \in Jobs
      BY <1>1, <2>1, <2>2 DEF Jobs
    <2>5. t[Len(t)] = s[Len(s)] /\ Len(t) > 0
      BY <2>2, <2>3, <1>1
    <2>6. Progress(r, D, nodes)
      BY <1>1, <1>2, <2>4, <2>5 DEF Progress
    <2>7. ASSUME Undisturbed(j, rootDirs), \A k \in 2..Len(s) : s[k].path \notin D
          PROVE  Missing(t, D)
      <3>1. /\ \A k \in 1..(Len(s) - 1) : s[k].path = Parent(s[k + 1].path) /\ s[k + 1].again = TRUE
        BY <2>7, <1>1 DEF Undisturbed, Missing
      <3>2. \A k \in 1..(Len(t) - 1) : t[k].path = Parent(t[k + 1].path) /\ t[k + 1].again = TRUE
        BY <3>1, <2>2, <2>3, <1>1
      <3>3. \A k \in 1..Len(t) : t[k].path \notin D
        BY <2>7, <2>2, <2>3, <1>1
      <3>4. Parent(t[1].path) \in D
        BY <3>1, <2>2, <2>3, <1>1
      <3> HIDE DEF t
      <3> QED BY <3>2, <3>3, <3>4 DEF Missing
    <2> QED BY <2>4, <2>6, <2>7 DEF Undisturbed
  <1>4. CASE Tail(s) = <<>>
    <2>1. Len(s) = 1
      <3>1. Len(Tail(s)) = Len(s) - 1
        BY <1>1
      <3>2. Len(Tail(s)) = 0
        BY <1>4, Zenon, EmptyLength
      <3> QED BY <1>1, <3>1, <3>2
    <2>2. essential_dirs[j.i] \in D
      BY <1>1, <2>1
    <2>3. DirsUpTo(j.i, D)
      BY <1>1, <1>2, <2>2 DEF DirsUpTo
    <2>4. CASE j.i < 4
      <3> DEFINE t == <<Frame(essential_dirs[j.i + 1])>>
      <3>1. r = [j EXCEPT !.i = j.i + 1, !.stack = t]
        BY <1>4, <2>4, EssentialFacts DEF Returned
      <3>2. essential_dirs[j.i + 1] \in Paths
        BY <1>1, <2>4, EssentialFacts
      <3>3. t \in Seq(Frames) /\ Len(t) = 1 /\ t[1].path = essential_dirs[j.i + 1] /\ t[1].again = FALSE
        BY <3>2 DEF Frame, Frames
      <3> HIDE DEF t, r, j
      <3>4. r.at = "dirs" /\ r.i = j.i + 1 /\ r.stack = t /\ r \in Jobs
        <4>1. j.i + 1 \in Nat
          BY <1>1
        <4>2. r.at = "dirs" /\ r.i = j.i + 1 /\ r.stack = t
          BY <1>1, <3>1 DEF Jobs
        <4>3. r \in Jobs
          BY <1>1, <3>1, <3>3, <4>1 DEF Jobs
        <4> QED BY <4>2, <4>3
      <3>5. Progress(r, D, nodes)
        <4>1. r.i \in 1..4 /\ r.i - 1 = j.i
          BY <1>1, <2>4, <3>4
        <4>2. DirsUpTo(r.i - 1, D)
          BY <4>1, <2>3
        <4>3. Len(r.stack) > 0 /\ r.stack[Len(r.stack)].path = essential_dirs[r.i]
          <5>1. r.stack[1].path = essential_dirs[j.i + 1] /\ Len(r.stack) = 1
            BY <3>3, <3>4
          <5>2. r.i = j.i + 1
            BY <3>4
          <5> QED BY <5>1, <5>2
        <4> QED BY <3>4, <4>1, <4>2, <4>3 DEF Progress
      <3>6. Undisturbed(r, D)
        <4>1. Len(r.stack) = 1 /\ r.stack[1].again = FALSE
          BY <3>3, <3>4
        <4>2. Missing(r.stack, D)
          BY <4>1 DEF Missing
        <4> QED BY <4>2, <3>4 DEF Undisturbed
      <3> QED BY <3>4, <3>5, <3>6 DEF r
    <2>5. CASE j.i = 4
      <3>1. r = [j EXCEPT !.at = "devices", !.i = 1, !.stack = <<>>]
        BY <1>4, <2>5, EssentialFacts DEF Returned
      <3> HIDE DEF r, j
      <3>2. r.at = "devices" /\ r.i = 1 /\ r \in Jobs
        <4>1. <<>> \in Seq(Frames) /\ "devices" \in JobAt
          BY DEF JobAt
        <4> QED BY <1>1, <3>1, <4>1 DEF Jobs
      <3>3. Progress(r, D, nodes) /\ Undisturbed(r, D)
        BY <2>3, <2>5, <3>2 DEF Progress, NodesUpTo, Undisturbed
      <3> QED BY <3>2, <3>3 DEF r
    <2> QED BY <1>1, <2>4, <2>5
  <1> QED BY <1>3, <1>4

(***************************************************************************)
(* The steps of a builder.                                                 *)
(***************************************************************************)

LEMMA Working ==
    ASSUME RootInv, NEW b \in Builders
    PROVE  /\ job[b] \in Jobs /\ Progress(job[b], rootDirs, nodes)
           /\ users \subseteq {b} => Undisturbed(job[b], rootDirs)
           /\ job[b].at # "idle" => users = users \cup {b}
           /\ job \in [Builders -> Jobs] /\ Tree(rootDirs)
  BY DEF RootInv

\* A step that leaves the files as they are.
LEMMA QuietStep ==
    ASSUME RootInv, NEW b \in Builders, NEW j \in Jobs,
           job' = [job EXCEPT ![b] = j], users' = users \cup {b},
           rootDirs' = rootDirs, nodes' = nodes,
           Progress(j, rootDirs, nodes),
           users \subseteq {b} => Undisturbed(j, rootDirs)
    PROVE  RootInv'
  <1>1. Tree(rootDirs') /\ rootDirs \ {"root"} \subseteq rootDirs' /\ nodes \subseteq nodes'
    BY Working
  <1>2. Progress(j, rootDirs', nodes')
    OBVIOUS
  <1>3. users' \subseteq {b} => Undisturbed(j, rootDirs')
    OBVIOUS
  <1> QED BY <1>1, <1>2, <1>3, BuilderStep

\* A call that fails, and says so, loses nothing.
LEMMA FaultStep ==
    ASSUME RootInv, NEW b \in Builders, job[b].at # "idle",
           job' = [job EXCEPT ![b].at = "failed", ![b].hurt = TRUE],
           UNCHANGED <<rootDirs, nodes, users>>
    PROVE  RootInv'
  <1> DEFINE j == [job[b] EXCEPT !.at = "failed", !.hurt = TRUE]
  <1>1. job[b] \in Jobs /\ job \in [Builders -> Jobs] /\ users' = users \cup {b}
    BY Working
  <1>2. job' = [job EXCEPT ![b] = j]
    BY <1>1
  <1>3. j \in Jobs /\ j.at = "failed" /\ j.hurt = TRUE
    BY <1>1 DEF Jobs, JobAt
  <1> HIDE DEF j
  <1>4. Progress(j, rootDirs, nodes) /\ Undisturbed(j, rootDirs)
    BY <1>3 DEF Progress, Undisturbed
  <1> QED BY <1>1, <1>2, <1>3, <1>4, QuietStep

\* A failure of mkdir_p that is no fault: never met by a process that is alone.
LEMMA FailStep ==
    ASSUME RootInv, NEW b \in Builders, job[b].at # "idle", Fail(b),
           UNCHANGED <<rootDirs, nodes, users>>,
           ~(users \subseteq {b})
    PROVE  RootInv'
  <1> DEFINE j == [job[b] EXCEPT !.at = "failed"]
  <1>1. job[b] \in Jobs /\ job \in [Builders -> Jobs] /\ users' = users \cup {b}
    BY Working
  <1>2. job' = [job EXCEPT ![b] = j]
    BY <1>1 DEF Fail
  <1>3. j \in Jobs /\ j.at = "failed"
    BY <1>1 DEF Jobs, JobAt
  <1> HIDE DEF j
  <1>4. Progress(j, rootDirs, nodes)
    BY <1>3 DEF Progress
  <1> QED BY <1>1, <1>2, <1>3, <1>4, QuietStep

\* The frames of a job in mkdir_p.
LEMMA TopFrame ==
    ASSUME RootInv, NEW b \in Builders, job[b].at = "dirs", NEW s, s = job[b].stack
    PROVE  /\ s \in Seq(Frames) /\ Len(s) \in Nat /\ Len(s) > 0
           /\ Head(s) = s[1] /\ s[1] \in Frames
           /\ s[1].path \in Paths /\ s[1].again \in BOOLEAN
           /\ users \subseteq {b} => Missing(s, rootDirs)
  <1>1. s \in Seq(Frames) /\ Len(s) > 0
    BY Working DEF Jobs, Progress
  <1>2. Head(s) = s[1] /\ s[1] \in Frames /\ Len(s) \in Nat
    BY <1>1
  <1>3. s[1].path \in Paths /\ s[1].again \in BOOLEAN
    BY <1>2 DEF Frames
  <1>4. users \subseteq {b} => Missing(s, rootDirs)
    BY Working DEF Undisturbed
  <1> QED BY <1>1, <1>2, <1>3, <1>4

LEMMA MkdirExistsStep ==
    ASSUME RootInv, NEW b \in Builders, mkdir_exists(b)
    PROVE  RootInv'
  <1> DEFINE s == job[b].stack
  <1>1. /\ job[b].at = "dirs" /\ Head(s).path \in rootDirs
        /\ UNCHANGED <<rootDirs, nodes, users>>
    BY DEF mkdir_exists
  <1>2. /\ s \in Seq(Frames) /\ Len(s) \in Nat /\ Len(s) > 0 /\ Head(s) = s[1]
        /\ s[1].again \in BOOLEAN
        /\ users \subseteq {b} => Missing(s, rootDirs)
    BY <1>1, TopFrame
  <1>3. CASE s[1].again = TRUE
    <2>1. Fail(b)
      BY <1>2, <1>3 DEF mkdir_exists
    <2>2. ~Missing(s, rootDirs)
      BY <1>1, <1>2, <1>3 DEF Missing
    <2> QED BY <1>1, <1>2, <2>1, <2>2, FailStep
  <1>4. CASE s[1].again = FALSE
    <2>1. job' = [job EXCEPT ![b] = Returned(job[b])]
      BY <1>2, <1>4 DEF mkdir_exists, Return
    <2>2. /\ Returned(job[b]) \in Jobs /\ Progress(Returned(job[b]), rootDirs, nodes)
          /\ (/\ Undisturbed(job[b], rootDirs)
              /\ \A k \in 2..Len(s) : s[k].path \notin rootDirs)
             => Undisturbed(Returned(job[b]), rootDirs)
      BY <1>1, ReturnStep
    <2>3. Missing(s, rootDirs) => \A k \in 2..Len(s) : s[k].path \notin rootDirs
      <3> SUFFICES ASSUME Missing(s, rootDirs), NEW k \in 2..Len(s)
                   PROVE  s[k].path \notin rootDirs
        OBVIOUS
      <3>1. k - 1 \in 1..(Len(s) - 1) /\ (k - 1) + 1 = k /\ k \in 1..Len(s)
        BY <1>2
      <3>2. s[(k - 1) + 1].again = TRUE
        BY <3>1 DEF Missing
      <3> QED BY <3>1, <3>2 DEF Missing
    <2>4. users \subseteq {b} => Undisturbed(Returned(job[b]), rootDirs)
      BY <1>2, <2>2, <2>3, Working
    <2>5. users' = users \cup {b}
      BY <1>1, Working
    <2> QED BY <1>1, <2>1, <2>2, <2>4, <2>5, QuietStep
  <1> QED BY <1>2, <1>3, <1>4

LEMMA MkdirMadeStep ==
    ASSUME RootInv, NEW b \in Builders, mkdir_made(b)
    PROVE  RootInv'
  <1> DEFINE s == job[b].stack
             D == rootDirs \cup {s[1].path}
             r == Returned(job[b])
  <1>0. /\ job[b].at = "dirs" /\ Parent(Head(s).path) \in rootDirs
        /\ rootDirs' = rootDirs \cup {Head(s).path}
        /\ job' = [job EXCEPT ![b] = r]
        /\ UNCHANGED <<nodes, users>>
    BY DEF mkdir_made, Return
  <1>1. /\ s \in Seq(Frames) /\ Len(s) \in Nat /\ Len(s) > 0 /\ Head(s) = s[1]
        /\ s[1].path \in Paths
        /\ users \subseteq {b} => Missing(s, rootDirs)
    BY <1>0, TopFrame
  <1>2. rootDirs' = D /\ Parent(s[1].path) \in rootDirs
    BY <1>0, <1>1
  <1>3. Tree(D)
    <2>1. Tree(rootDirs)
      BY Working
    <2> QED BY <1>1, <1>2, <2>1 DEF Tree
  <1>4. /\ r \in Jobs /\ Progress(r, D, nodes)
        /\ (/\ Undisturbed(job[b], rootDirs)
            /\ \A k \in 2..Len(s) : s[k].path \notin D)
           => Undisturbed(r, D)
    <2>1. rootDirs \subseteq D /\ Head(s).path \in D
      BY <1>1
    <2> HIDE DEF D
    <2> QED BY <1>0, <2>1, ReturnStep
  <1>5. ASSUME Missing(s, rootDirs), NEW k \in 2..Len(s)
        PROVE  s[k].path \notin D
    <2>1. k - 1 \in 1..(Len(s) - 1) /\ (k - 1) + 1 = k /\ k \in 1..Len(s)
      BY <1>1
    <2>2. s[(k - 1) + 1].again = TRUE
      BY <1>5, <2>1 DEF Missing
    <2>3. s[k].path \notin rootDirs
      BY <1>5, <2>1, <2>2 DEF Missing
    <2>4. \A i \in 1..(Len(s) - 1) : s[i].path = Parent(s[i + 1].path)
      BY <1>5 DEF Missing
    <2>5. s[k].path # s[1].path
      BY <1>1, <2>4, ChainIsShort
    <2> QED BY <2>3, <2>5
  <1>6. users \subseteq {b} => Undisturbed(r, D)
    BY <1>1, <1>4, <1>5, Working
  <1>7. users' = users \cup {b}
    BY <1>0, Working
  <1> HIDE DEF r, D
  <1>8. rootDirs \ {"root"} \subseteq rootDirs' /\ nodes \subseteq nodes'
    BY <1>0
  <1> QED BY <1>0, <1>2, <1>3, <1>4, <1>6, <1>7, <1>8, BuilderStep

LEMMA MkdirNoParentStep ==
    ASSUME RootInv, NEW b \in Builders, mkdir_no_parent(b)
    PROVE  RootInv'
  <1> DEFINE s == job[b].stack
             f == Frame(Parent(s[1].path))
             g == [s[1] EXCEPT !.again = TRUE]
             t == <<f, g>> \o Tail(s)
             j == [job[b] EXCEPT !.stack = t]
  <1>1. /\ job[b].at = "dirs" /\ Parent(Head(s).path) \notin rootDirs
        /\ UNCHANGED <<rootDirs, nodes, users>>
    BY DEF mkdir_no_parent
  <1>2. /\ s \in Seq(Frames) /\ Len(s) \in Nat /\ Len(s) > 0 /\ Head(s) = s[1]
        /\ s[1] \in Frames /\ s[1].path \in Paths /\ s[1].again \in BOOLEAN
        /\ users \subseteq {b} => Missing(s, rootDirs)
    BY <1>1, TopFrame
  <1>3. CASE s[1].again = TRUE
    <2>1. Fail(b)
      BY <1>2, <1>3 DEF mkdir_no_parent
    <2>2. ~Missing(s, rootDirs)
      BY <1>1, <1>2, <1>3 DEF Missing
    <2> QED BY <1>1, <1>2, <2>1, <2>2, FailStep
  <1>4. CASE s[1].again = FALSE
    <2>1. job' = [job EXCEPT ![b].stack =
                    <<Frame(Parent(s[1].path)), [s[1] EXCEPT !.again = TRUE]>> \o Tail(@)]
      BY <1>2, <1>4 DEF mkdir_no_parent
    <2>2. job[b] \in Jobs /\ job \in [Builders -> Jobs] /\ Progress(job[b], rootDirs, nodes)
          /\ Tree(rootDirs) /\ users' = users \cup {b}
      BY <1>1, Working
    <2>3. job' = [job EXCEPT ![b] = j]
      BY <2>1, <2>2
    <2>4. Parent(s[1].path) \in Paths /\ s[1].path \notin rootDirs
      <3>1. Parent(s[1].path) \in Paths \cup {"tmp"} /\ s[1].path # "tmp"
        BY <1>2 DEF Parent, Paths
      <3> QED BY <1>1, <1>2, <2>2, <3>1 DEF Tree
    <2>5. /\ f \in Frames /\ f.path = Parent(s[1].path) /\ f.again = FALSE
          /\ g \in Frames /\ g.path = s[1].path /\ g.again = TRUE
      BY <1>2, <2>4 DEF Frame, Frames
    <2> HIDE DEF f, g
    <2>6. /\ t \in Seq(Frames) /\ Len(t) = Len(s) + 1 /\ t[1] = f /\ t[2] = g
          /\ \A k \in 3..Len(t) : t[k] = s[k - 1]
      BY <1>2, <2>5, PushedFrames
    <2> HIDE DEF t
    <2>7. j \in Jobs /\ j.at = "dirs" /\ j.i = job[b].i /\ j.stack = t
      BY <1>1, <2>2, <2>6 DEF Jobs
    <2>8. t[Len(t)].path = s[Len(s)].path
      <3>1. CASE Len(s) = 1
        BY <3>1, <2>5, <2>6
      <3>2. CASE Len(s) # 1
        <4>1. Len(t) \in 3..Len(t) /\ Len(t) - 1 = Len(s)
          <5> DEFINE m == Len(s)
                     n == Len(t)
          <5>1. m \in Nat /\ m > 0 /\ m # 1 /\ n = m + 1
            BY <3>2, <1>2, <2>6
          <5> HIDE DEF m, n
          <5>2. n \in 3..n /\ n - 1 = m
            BY <5>1
          <5> QED BY <5>2 DEF m, n
        <4> QED BY <4>1, <2>6
      <3> QED BY <3>1, <3>2
    <2>9. Progress(j, rootDirs, nodes)
      <3>1. Len(t) > 0
        BY <1>2, <2>6
      <3> QED BY <1>1, <2>2, <2>7, <2>8, <3>1 DEF Progress
    <2>10. ASSUME Missing(s, rootDirs)
           PROVE  Missing(t, rootDirs)
      <3>1. ASSUME NEW k \in 1..(Len(t) - 1)
            PROVE  t[k].path = Parent(t[k + 1].path) /\ t[k + 1].again = TRUE
        <4>1. CASE k = 1
          BY <4>1, <2>5, <2>6
        <4>2. CASE k = 2
          <5>1. 1 \in 1..(Len(s) - 1) /\ 3 \in 3..Len(t)
            BY <4>2, <1>2, <2>6
          <5>2. t[3] = s[2] /\ s[1].path = Parent(s[2].path) /\ s[2].again = TRUE
            BY <5>1, <2>6, <2>10 DEF Missing
          <5> QED BY <4>2, <5>2, <2>5, <2>6
        <4>3. CASE k > 2
          <5>1. k \in 3..Len(t) /\ k + 1 \in 3..Len(t) /\ k - 1 \in 1..(Len(s) - 1)
            BY <4>3, <1>2, <2>6
          <5>2. t[k] = s[k - 1] /\ t[k + 1] = s[(k - 1) + 1]
            <6>1. t[k] = s[k - 1] /\ t[k + 1] = s[(k + 1) - 1]
              BY <5>1, <2>6
            <6>2. (k + 1) - 1 = (k - 1) + 1
              OBVIOUS
            <6> QED BY <6>1, <6>2
          <5>3. s[k - 1].path = Parent(s[(k - 1) + 1].path) /\ s[(k - 1) + 1].again = TRUE
            BY <5>1, <2>10 DEF Missing
          <5> QED BY <5>2, <5>3
        <4>4. k \in Int /\ k >= 1
          BY <1>2, <2>6
        <4>5. k = 1 \/ k = 2 \/ k > 2
          BY <4>4
        <4> QED BY <4>1, <4>2, <4>3, <4>5
      <3>2. ASSUME NEW k \in 1..Len(t), t[k].again = TRUE
            PROVE  t[k].path \notin rootDirs
        <4>1. CASE k = 1
          BY <4>1, <3>2, <2>5, <2>6
        <4>2. CASE k = 2
          BY <4>2, <2>4, <2>5, <2>6
        <4>3. CASE k > 2
          <5>1. k \in 3..Len(t) /\ k - 1 \in 1..Len(s)
            BY <4>3, <1>2, <2>6
          <5>2. t[k] = s[k - 1]
            BY <5>1, <2>6
          <5>3. s[k - 1].again = TRUE => s[k - 1].path \notin rootDirs
            BY <5>1, <2>10 DEF Missing
          <5> QED BY <5>2, <5>3, <3>2
        <4> QED BY <4>1, <4>2, <4>3
      <3>3. t[1].again = FALSE
        BY <2>5, <2>6
      <3> QED BY <3>1, <3>2, <3>3 DEF Missing
    <2>11. users \subseteq {b} => Undisturbed(j, rootDirs)
      BY <1>2, <2>7, <2>10 DEF Undisturbed
    <2> HIDE DEF j
    <2> QED BY <1>1, <2>2, <2>3, <2>7, <2>9, <2>11, QuietStep
  <1> QED BY <1>2, <1>3, <1>4

\* A turn of one of the loops behind the directories keeps the job in the loop,
\* or ends it.
LEMMA TurnFacts ==
    ASSUME NEW j \in Jobs, NEW n \in Nat, NEW l \in JobAt, NEW r, r = Turn(j, n, l)
    PROVE  /\ r \in Jobs
           /\ \/ j.i < n /\ r.at = j.at /\ r.i = j.i + 1
              \/ ~(j.i < n) /\ r.at = l /\ r.i = 1
  <1>1. j.i \in Nat /\ j.i + 1 \in Nat
    BY DEF Jobs
  <1>2. CASE j.i < n
    <2> DEFINE m == j.i + 1
    <2>1. r = [j EXCEPT !.i = m] /\ m \in Nat
      BY <1>1, <1>2 DEF Turn
    <2> HIDE DEF m
    <2>2. r \in Jobs /\ r.at = j.at /\ r.i = m
      BY <2>1 DEF Jobs
    <2> QED BY <1>2, <2>2 DEF m
  <1>3. CASE ~(j.i < n)
    <2> DEFINE m == 1
    <2>1. r = [j EXCEPT !.at = l, !.i = m] /\ m \in Nat
      BY <1>3 DEF Turn
    <2> HIDE DEF m
    <2>2. r \in Jobs /\ r.at = l /\ r.i = m
      BY <2>1 DEF Jobs
    <2> QED BY <1>3, <2>2 DEF m
  <1> QED BY <1>2, <1>3

\* A step of such a loop.
LEMMA LoopStep ==
    ASSUME RootInv, NEW b \in Builders, job[b].at # "idle",
           NEW r \in Jobs, r.at \in JobAt \ {"dirs", "failed"},
           job' = [job EXCEPT ![b] = r],
           UNCHANGED <<rootDirs, users>>, nodes \subseteq nodes',
           r.at \in {"devices", "files", "built", "mounts"} => DirsUpTo(4, rootDirs),
           r.at = "devices" => r.i \in 1..2 /\ NodesUpTo(r.i - 1, nodes'),
           r.at \in {"files", "built", "mounts"} => NodesUpTo(2, nodes')
    PROVE  RootInv'
  <1>1. Tree(rootDirs) /\ users' = users \cup {b}
    BY Working
  <1>2. Progress(r, rootDirs, nodes')
    BY DEF Progress
  <1>3. Undisturbed(r, rootDirs)
    BY DEF Undisturbed
  <1>4. Tree(rootDirs') /\ rootDirs \ {"root"} \subseteq rootDirs'
    BY <1>1
  <1> QED BY <1>1, <1>2, <1>3, <1>4, BuilderStep

LEMMA MknodStep ==
    ASSUME RootInv, NEW b \in Builders, mknod(b)
    PROVE  RootInv'
  <1> DEFINE i == job[b].i
             r == Turn(job[b], 2, "files")
  <1>1. /\ job[b].at = "devices" /\ nodes' = nodes \cup {essential_devices[i]}
        /\ job' = [job EXCEPT ![b] = r] /\ UNCHANGED <<rootDirs, users>>
    BY EssentialFacts DEF mknod, NextDevice
  <1>2. /\ job[b] \in Jobs /\ i \in 1..2
        /\ NodesUpTo(i - 1, nodes) /\ DirsUpTo(4, rootDirs)
    BY <1>1, Working DEF Progress
  <1>3. NodesUpTo(i, nodes') /\ nodes \subseteq nodes'
    BY <1>1, <1>2 DEF NodesUpTo
  <1>4. /\ r \in Jobs
        /\ \/ i < 2 /\ r.at = "devices" /\ r.i = i + 1
           \/ ~(i < 2) /\ r.at = "files" /\ r.i = 1
    <2>1. "files" \in JobAt
      BY DEF JobAt
    <2> QED BY <1>1, <1>2, <2>1, TurnFacts
  <1> HIDE DEF r, i
  <1>5. r.at \in {"devices", "files"} /\ r.at \in JobAt \ {"dirs", "failed"}
    BY <1>4 DEF JobAt
  <1>6. r.at = "devices" => r.i \in 1..2 /\ NodesUpTo(r.i - 1, nodes')
    <2> SUFFICES ASSUME r.at = "devices"
                 PROVE  r.i \in 1..2 /\ NodesUpTo(r.i - 1, nodes')
      OBVIOUS
    <2>1. r.i = i + 1 /\ i < 2
      BY <1>4
    <2>2. r.i \in 1..2 /\ r.i - 1 = i
      BY <1>2, <2>1
    <2> QED BY <1>3, <2>2
  <1>7. r.at = "files" => NodesUpTo(2, nodes')
    <2>1. r.at = "files" => i = 2
      BY <1>2, <1>4
    <2> QED BY <1>3, <2>1
  <1>8. job[b].at # "idle"
    BY <1>1
  <1> QED BY <1>1, <1>2, <1>3, <1>4, <1>5, <1>6, <1>7, <1>8, LoopStep

\* A loop that makes neither directories nor devices.
LEMMA PlainLoopStep ==
    ASSUME RootInv, NEW b \in Builders, NEW n \in Nat, NEW l \in JobAt,
           job' = [job EXCEPT ![b] = Turn(job[b], n, l)],
           UNCHANGED <<rootDirs, nodes, users>>,
           \/ job[b].at = "unmounts" /\ l = "rmdir"
           \/ job[b].at \in {"files", "mounts"} /\ l = "built"
    PROVE  RootInv'
  <1> DEFINE r == Turn(job[b], n, l)
  <1>1. /\ job[b] \in Jobs
        /\ job[b].at \in {"files", "mounts"} => NodesUpTo(2, nodes) /\ DirsUpTo(4, rootDirs)
    BY Working DEF Progress
  <1>2. r \in Jobs /\ r.at \in {job[b].at, l}
    BY <1>1, TurnFacts
  <1>3. job' = [job EXCEPT ![b] = r]
    OBVIOUS
  <1> HIDE DEF r
  <1>4. r.at \in JobAt \ {"dirs", "failed"} /\ r.at # "devices"
    BY <1>2 DEF JobAt
  <1>5. /\ r.at \in {"files", "built", "mounts"} => DirsUpTo(4, rootDirs) /\ NodesUpTo(2, nodes)
        /\ job[b].at # "idle"
    BY <1>1, <1>2
  <1>6. nodes' = nodes /\ UNCHANGED <<rootDirs, users>>
    OBVIOUS
  <1>7. /\ nodes \subseteq nodes'
        /\ r.at \in {"devices", "files", "built", "mounts"} => DirsUpTo(4, rootDirs)
        /\ r.at \in {"files", "built", "mounts"} => NodesUpTo(2, nodes')
    BY <1>4, <1>5, <1>6
  <1> QED BY <1>2, <1>3, <1>4, <1>5, <1>6, <1>7, LoopStep

LEMMA CopyMountStep ==
    ASSUME RootInv, NEW b \in Builders,
           (\E result \in {"full", "part", "unopened"} : copy_file(b, result))
             \/ mount_next(b) \/ umount_next(b)
    PROVE  RootInv'
  <1>1. {"built", "rmdir"} \subseteq JobAt
    BY DEF JobAt
  <1>2. ASSUME NEW result, copy_file(b, result)
        PROVE  RootInv'
    <2>1. /\ job' = [job EXCEPT ![b] = Turn(job[b], 2, "built")] /\ job[b].at = "files"
          /\ UNCHANGED <<rootDirs, nodes, users>>
      BY <1>2, EssentialFacts DEF copy_file
    <2> QED BY <1>1, <2>1, PlainLoopStep
  <1>3. CASE mount_next(b)
    <2>1. /\ job' = [job EXCEPT ![b] = Turn(job[b], 4, "built")] /\ job[b].at = "mounts"
          /\ UNCHANGED <<rootDirs, nodes, users>>
      BY <1>3, EssentialFacts DEF mount_next
    <2> QED BY <1>1, <2>1, PlainLoopStep
  <1>4. CASE umount_next(b)
    <2>1. /\ job' = [job EXCEPT ![b] = Turn(job[b], 4, "rmdir")] /\ job[b].at = "unmounts"
          /\ UNCHANGED <<rootDirs, nodes, users>>
      BY <1>4, EssentialFacts DEF umount_next
    <2> QED BY <1>1, <2>1, PlainLoopStep
  <1> QED BY <1>2, <1>3, <1>4

\* Only the root itself is ever removed, and only when nothing is in it.
LEMMA RmdirStep ==
    ASSUME RootInv, NEW b \in Builders, rmdir_root(b)
    PROVE  RootInv'
  <1> DEFINE at == IF "root" \in rootDirs THEN "cleaned" ELSE "failed"
             j == [job[b] EXCEPT !.at = at, !.hurt = "root" \notin rootDirs]
  <1>1. /\ job[b].at = "rmdir" /\ UNCHANGED <<nodes, users>>
        /\ rootDirs' = IF rootDirs \subseteq {"tmp", "root"} THEN rootDirs \ {"root"} ELSE rootDirs
        /\ job' = [job EXCEPT ![b].at = at, ![b].hurt = "root" \notin rootDirs]
    BY DEF rmdir_root
  <1>2. job[b] \in Jobs /\ job \in [Builders -> Jobs] /\ Tree(rootDirs) /\ users' = users \cup {b}
    BY <1>1, Working
  <1>3. job' = [job EXCEPT ![b] = j]
    BY <1>1, <1>2
  <1>4. at \in {"cleaned", "failed"} /\ at \in JobAt
    BY DEF JobAt
  <1>5. j.at = at /\ j.hurt = ("root" \notin rootDirs) /\ j \in Jobs
    BY <1>2, <1>4 DEF Jobs
  <1>6. at = "failed" => "root" \notin rootDirs
    OBVIOUS
  <1> HIDE DEF at, j
  <1>7. Tree(rootDirs') /\ rootDirs \ {"root"} \subseteq rootDirs' /\ nodes \subseteq nodes'
    BY <1>1, <1>2 DEF Tree
  <1>8. Progress(j, rootDirs', nodes')
    BY <1>4, <1>5 DEF Progress
  <1>9. Undisturbed(j, rootDirs')
    <2>1. j.at = "failed" => j.hurt = TRUE
      BY <1>5, <1>6
    <2> QED BY <1>4, <1>5, <2>1 DEF Undisturbed
  <1> QED BY <1>2, <1>3, <1>5, <1>7, <1>8, <1>9, BuilderStep

\* A call begins: to build from the first directory, to mount what is built, or to
\* clean up.
LEMMA BeginStep ==
    ASSUME RootInv, NEW b \in Builders,
           fs_create_minimal_root(b) \/ fs_mount(b) \/ fs_cleanup(b)
    PROVE  RootInv'
  <1>0. job \in [Builders -> Jobs] /\ Progress(job[b], rootDirs, nodes)
    BY Working
  <1>1. ASSUME NEW at \in {"dirs", "mounts", "unmounts"}, NEW s \in Seq(Frames), Begin(b, at, s),
               Progress([at |-> at, i |-> 1, stack |-> s, hurt |-> FALSE], rootDirs, nodes),
               at = "dirs" => Missing(s, rootDirs)
        PROVE  RootInv'
    <2> DEFINE j == [at |-> at, i |-> 1, stack |-> s, hurt |-> FALSE]
    <2>1. /\ job' = [job EXCEPT ![b] = j] /\ users' = users \cup {b}
          /\ rootDirs' = rootDirs /\ nodes' = nodes
      BY <1>1 DEF Begin
    <2>2. at \in JobAt /\ at # "failed"
      BY <1>1 DEF JobAt
    <2>3. j \in Jobs /\ j.at = at /\ j.stack = s
      BY <1>1, <2>2 DEF Jobs
    <2>4. Progress(j, rootDirs, nodes)
      BY <1>1
    <2> HIDE DEF j
    <2>5. Undisturbed(j, rootDirs)
      BY <1>1, <2>2, <2>3 DEF Undisturbed
    <2> QED BY <2>1, <2>3, <2>4, <2>5, QuietStep
  <1>2. CASE fs_create_minimal_root(b)
    <2> DEFINE s == <<Frame(essential_dirs[1])>>
               j == [at |-> "dirs", i |-> 1, stack |-> s, hurt |-> FALSE]
    <2>1. Begin(b, "dirs", s)
      BY <1>2 DEF fs_create_minimal_root
    <2>2. /\ s \in Seq(Frames) /\ Len(s) = 1 /\ s[1].again = FALSE
          /\ s[1].path = essential_dirs[1]
      BY EssentialFacts DEF Frame, Frames
    <2> HIDE DEF s
    <2>3. j.at = "dirs" /\ j.i = 1 /\ j.stack = s
      OBVIOUS
    <2>4. Missing(s, rootDirs)
      BY <2>2 DEF Missing
    <2>5. Progress(j, rootDirs, nodes)
      <3> HIDE DEF j
      <3>1. DirsUpTo(j.i - 1, rootDirs)
        BY <2>3 DEF DirsUpTo
      <3>2. Len(j.stack) > 0 /\ j.stack[Len(j.stack)].path = essential_dirs[j.i]
        <4>1. Len(j.stack) = 1 /\ j.stack[1].path = essential_dirs[1]
          BY <2>2, <2>3
        <4> QED BY <2>3, <4>1
      <3> QED BY <2>3, <3>1, <3>2 DEF Progress
    <2> QED BY <1>1, <2>1, <2>2, <2>4, <2>5
  <1>3. CASE fs_mount(b)
    <2> DEFINE j == [at |-> "mounts", i |-> 1, stack |-> <<>>, hurt |-> FALSE]
    <2>1. Begin(b, "mounts", <<>>) /\ job[b].at = "built" /\ <<>> \in Seq(Frames)
      BY <1>3 DEF fs_mount
    <2>2. DirsUpTo(4, rootDirs) /\ NodesUpTo(2, nodes)
      BY <1>0, <2>1 DEF Progress
    <2>3. Progress(j, rootDirs, nodes)
      BY <2>2 DEF Progress
    <2> QED BY <1>1, <2>1, <2>3
  <1>4. CASE fs_cleanup(b)
    <2> DEFINE j == [at |-> "unmounts", i |-> 1, stack |-> <<>>, hurt |-> FALSE]
    <2>1. Begin(b, "unmounts", <<>>) /\ <<>> \in Seq(Frames)
      BY <1>4 DEF fs_cleanup
    <2>2. Progress(j, rootDirs, nodes)
      BY DEF Progress
    <2> QED BY <1>1, <2>1, <2>2
  <1> QED BY <1>2, <1>3, <1>4

LEMMA RootInductive == RootSpec => []RootInv
  <1>1. RootInit => RootInv
    <2> SUFFICES ASSUME RootInit
                 PROVE  RootInv
      OBVIOUS
    <2>1. rootDirs = {"tmp"} /\ users = {} /\ job = [b \in Builders |-> Idle]
      BY DEF RootInit
    <2>2. Idle \in Jobs /\ Idle.at = "idle"
      <3>1. <<>> \in Seq(Frames) /\ "idle" \in JobAt
        BY DEF JobAt
      <3> QED BY <3>1 DEF Idle, Jobs
    <2>3. Tree(rootDirs)
      BY <2>1 DEF Tree
    <2>4. \A b \in Builders : job[b] = Idle
      BY <2>1
    <2>5. Progress(Idle, rootDirs, nodes) /\ Undisturbed(Idle, rootDirs)
      BY <2>2 DEF Progress, Undisturbed
    <2> QED BY <2>1, <2>2, <2>3, <2>4, <2>5 DEF RootInv
  <1>2. RootInv /\ [RootNext]_rootVars => RootInv'
    <2> SUFFICES ASSUME RootInv, [RootNext]_rootVars
                 PROVE  RootInv'
      OBVIOUS
    <2>1. ASSUME NEW b \in Builders, mkdir_fails(b) \/ mknod_fails(b) \/ mount_fails(b)
          PROVE  RootInv'
      <3>1. /\ job[b].at # "idle" /\ UNCHANGED <<rootDirs, nodes, users>>
            /\ job' = [job EXCEPT ![b].at = "failed", ![b].hurt = TRUE]
        BY <2>1 DEF mkdir_fails, mknod_fails, mount_fails
      <3> QED BY <3>1, FaultStep
    <2>2. CASE UNCHANGED rootVars
      BY <2>2 DEF rootVars, RootInv
    <2> QED BY <2>1, <2>2, BeginStep, MkdirExistsStep, MkdirMadeStep, MkdirNoParentStep,
               MknodStep, CopyMountStep, RmdirStep DEF RootNext
  <1> QED BY <1>1, <1>2, PTL DEF RootSpec

\* A root that was reported as built has all its directories and devices, with any
\* number of processes that build, mount and clean up on the same path at once
\* and whatever fails (fs_create_minimal_root).
THEOREM BuiltRootsUsable == RootSpec => []RootUsable
  <1>1. RootInv => RootUsable
    <2> SUFFICES ASSUME RootInv, NEW b \in Builders, job[b].at \in {"files", "built"}
                 PROVE  /\ Range(essential_dirs) \subseteq rootDirs
                        /\ Range(essential_devices) \subseteq nodes
      BY DEF RootUsable
    <2>1. DirsUpTo(4, rootDirs) /\ NodesUpTo(2, nodes)
      BY Working DEF Progress
    <2> QED BY <2>1, EssentialFacts DEF DirsUpTo, NodesUpTo, Range
  <1> QED BY <1>1, RootInductive, PTL

\* A process that is alone on a path fails to build its root only when a system
\* call fails: no sequence of earlier attempts, clean-ups and half-made trees
\* stands in the way of the next (mkdir_p).
THEOREM RetriesSucceed == RootSpec => []FailsOnlyOnFault
  <1>1. RootInv => FailsOnlyOnFault
    BY Working DEF FailsOnlyOnFault, Alone, Undisturbed
  <1> QED BY <1>1, RootInductive, PTL
=============================================================================
