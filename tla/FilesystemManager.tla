------------------------- MODULE FilesystemManager -------------------------
(***************************************************************************)
(* filesystem_manager.cpp on one root path: building the minimal root,     *)
(* copying files into it, mounting, and the clean-up.  Builders are        *)
(* managers that work on the same path, as two menus do that run the       *)
(* memory and CPU test, whose root paths are fixed.  Each system call is a *)
(* step and may fail.                                                      *)
(*                                                                         *)
(* The model keeps the shape of the lists: a directory in the root, one    *)
(* that is the parent of another, devices, files and mount points.         *)
(***************************************************************************)
EXTENDS Naturals, Sequences

CONSTANTS Builders, \* processes that use the path
          Faults,   \* kinds of system calls that may fail
          MaxCalls  \* bound on the calls of a behaviour

ASSUME FilesystemAssumption ==
    Faults \subseteq {"mkdir", "mknod", "copy", "mount"} /\ MaxCalls \in Nat

essential_dirs == <<"bin", "usr", "usr/bin", "dev">>
essential_devices == <<"null", "tty">>
essential_files == <<"sh", "ld">>
mount_points == <<"proc", "sys", "tmp", "dev">>

Parent(path) ==
    IF path = "usr/bin" THEN "usr" ELSE IF path = "root" THEN "tmp" ELSE "root"

VARIABLES rootDirs,   \* directories that exist; "tmp" holds the root
          nodes,      \* devices that exist
          files,      \* file -> "none", "part" or "full"
          rootMounts, \* mount points with something mounted
          job,        \* what each builder is doing
          users,      \* builders that have made a call
          calls       \* calls made

rootVars == <<rootDirs, nodes, files, rootMounts, job, users, calls>>

Range(s) == {s[i] : i \in DOMAIN s}

\* at: the call's loop; i: its index; stack: mkdir_p's frames, a path and
\* whether its parent has been made; hurt: a system call of this call failed.
Idle == [at |-> "idle", i |-> 0, stack |-> <<>>, hurt |-> FALSE]

RootInit ==
    /\ rootDirs = {"tmp"} /\ nodes = {} /\ rootMounts = {}
    /\ files = [f \in Range(essential_files) |-> "none"]
    /\ job = [b \in Builders |-> Idle]
    /\ users = {} /\ calls = 0

Resting == {"idle", "built", "failed", "cleaned"}

Frame(path) == [path |-> path, again |-> FALSE]

\* A call of the interface begins in loop at.
Begin(b, at, stack) ==
    /\ job[b].at \in Resting /\ calls < MaxCalls
    /\ job' = [job EXCEPT ![b] = [at |-> at, i |-> 1, stack |-> stack, hurt |-> FALSE]]
    /\ users' = users \cup {b} /\ calls' = calls + 1
    /\ UNCHANGED <<rootDirs, nodes, files, rootMounts>>

(***************************************************************************)
(* fs_create_minimal_root.                                                 *)
(***************************************************************************)
fs_create_minimal_root(b) == Begin(b, "dirs", <<Frame(essential_dirs[1])>>)

Fail(b) == job' = [job EXCEPT ![b].at = "failed"]

\* mkdir_p has returned 0 for the innermost frame of job j: on with the frame
\* around it, the next directory, or the devices.
Returned(j) ==
    IF Tail(j.stack) # <<>> THEN [j EXCEPT !.stack = Tail(@)]
    ELSE IF j.i < Len(essential_dirs)
    THEN [j EXCEPT !.i = @ + 1, !.stack = <<Frame(essential_dirs[j.i + 1])>>]
    ELSE [j EXCEPT !.at = "devices", !.i = 1, !.stack = <<>>]

Return(b) == job' = [job EXCEPT ![b] = Returned(job[b])]

\* Mutant of mkdir_exists: EEXIST is an error.
mkdir_exists_fails(b) ==
    LET top == Head(job[b].stack)
    IN  /\ job[b].at = "dirs" /\ top.path \in rootDirs
        /\ Fail(b)
        /\ UNCHANGED <<rootDirs, nodes, files, rootMounts, users, calls>>

\* EEXIST: fine for the first mkdir, an error for the one after the parent
\* was made.
mkdir_exists(b) ==
    LET top == Head(job[b].stack)
    IN  /\ job[b].at = "dirs" /\ top.path \in rootDirs
        /\ IF top.again THEN Fail(b) ELSE Return(b)
        /\ UNCHANGED <<rootDirs, nodes, files, rootMounts, users, calls>>

mkdir_made(b) ==
    LET top == Head(job[b].stack)
    IN  /\ job[b].at = "dirs"
        /\ top.path \notin rootDirs /\ Parent(top.path) \in rootDirs
        /\ rootDirs' = rootDirs \cup {top.path}
        /\ Return(b)
        /\ UNCHANGED <<nodes, files, rootMounts, users, calls>>

\* ENOENT: make the parent, then try again once.
mkdir_no_parent(b) ==
    LET top == Head(job[b].stack)
    IN  /\ job[b].at = "dirs" /\ Parent(top.path) \notin rootDirs
        /\ IF top.again THEN Fail(b)
           ELSE job' = [job EXCEPT ![b].stack =
                          <<Frame(Parent(top.path)), [top EXCEPT !.again = TRUE]>> \o Tail(@)]
        /\ UNCHANGED <<rootDirs, nodes, files, rootMounts, users, calls>>

\* Any other error of mkdir ends the call; the directories made so far stay.
mkdir_fails(b) ==
    /\ "mkdir" \in Faults /\ job[b].at = "dirs"
    /\ Head(job[b].stack).path \notin rootDirs
    /\ job' = [job EXCEPT ![b].at = "failed", ![b].hurt = TRUE]
    /\ UNCHANGED <<rootDirs, nodes, files, rootMounts, users, calls>>

\* The end of a turn of the loop of n turns that job j is in; l comes after it.
Turn(j, n, l) ==
    IF j.i < n THEN [j EXCEPT !.i = j.i + 1] ELSE [j EXCEPT !.at = l, !.i = 1]

NextDevice(b) == job' = [job EXCEPT ![b] = Turn(job[b], Len(essential_devices), "files")]

\* mknod; a device that exists is fine.
mknod(b) ==
    /\ job[b].at = "devices" /\ "dev" \in rootDirs
    /\ nodes' = nodes \cup {essential_devices[job[b].i]}
    /\ NextDevice(b)
    /\ UNCHANGED <<rootDirs, files, rootMounts, users, calls>>

\* Mutant of mknod_fails: the error is only reported.
mknod_goes_on(b) ==
    /\ "mknod" \in Faults /\ job[b].at = "devices"
    /\ essential_devices[job[b].i] \notin nodes
    /\ NextDevice(b)
    /\ UNCHANGED <<rootDirs, nodes, files, rootMounts, users, calls>>

mknod_fails(b) ==
    /\ "mknod" \in Faults /\ job[b].at = "devices"
    /\ essential_devices[job[b].i] \notin nodes
    /\ job' = [job EXCEPT ![b].at = "failed", ![b].hurt = TRUE]
    /\ UNCHANGED <<rootDirs, nodes, files, rootMounts, users, calls>>

(***************************************************************************)
(* fs_populate_container_root: a file that cannot be copied is a warning,  *)
(* and copy_file leaves what it has written.                               *)
(***************************************************************************)
copy_file(b, result) ==
    LET f == essential_files[job[b].i]
    IN  /\ job[b].at = "files"
        /\ result # "full" => "copy" \in Faults
        /\ files' = [files EXCEPT ![f] = IF result = "unopened" THEN @ ELSE result]
        /\ job' = [job EXCEPT ![b] = Turn(job[b], Len(essential_files), "built")]
        /\ UNCHANGED <<rootDirs, nodes, rootMounts, users, calls>>

(***************************************************************************)
(* fs_mount_container_filesystems and fs_cleanup_container_root.           *)
(***************************************************************************)
fs_mount(b) == job[b].at = "built" /\ Begin(b, "mounts", <<>>)

mount_next(b) ==
    /\ job[b].at = "mounts"
    /\ rootMounts' = rootMounts \cup {mount_points[job[b].i]}
    /\ job' = [job EXCEPT ![b] = Turn(job[b], Len(mount_points), "built")]
    /\ UNCHANGED <<rootDirs, nodes, files, users, calls>>

mount_fails(b) ==
    /\ "mount" \in Faults /\ job[b].at = "mounts"
    /\ job' = [job EXCEPT ![b].at = "failed", ![b].hurt = TRUE]
    /\ UNCHANGED <<rootDirs, nodes, files, rootMounts, users, calls>>

fs_cleanup(b) == Begin(b, "unmounts", <<>>)

\* The mount points in reverse; one that is not mounted is no error.
umount_next(b) ==
    /\ job[b].at = "unmounts"
    /\ rootMounts' = rootMounts \ {mount_points[Len(mount_points) + 1 - job[b].i]}
    /\ job' = [job EXCEPT ![b] = Turn(job[b], Len(mount_points), "rmdir")]
    /\ UNCHANGED <<rootDirs, nodes, files, users, calls>>

\* rmdir of the root: ENOTEMPTY is taken for success, ENOENT is not.
rmdir_root(b) ==
    /\ job[b].at = "rmdir"
    /\ rootDirs' = IF rootDirs \subseteq {"tmp", "root"} THEN rootDirs \ {"root"} ELSE rootDirs
    /\ job' = [job EXCEPT ![b].at = IF "root" \in rootDirs THEN "cleaned" ELSE "failed",
                          ![b].hurt = "root" \notin rootDirs]
    /\ UNCHANGED <<nodes, files, rootMounts, users, calls>>

RootNext == \E b \in Builders :
    \/ fs_create_minimal_root(b)
    \/ mkdir_exists(b) \/ mkdir_made(b) \/ mkdir_no_parent(b) \/ mkdir_fails(b)
    \/ mknod(b) \/ mknod_fails(b)
    \/ \E result \in {"full", "part", "unopened"} : copy_file(b, result)
    \/ fs_mount(b) \/ mount_next(b) \/ mount_fails(b)
    \/ fs_cleanup(b) \/ umount_next(b) \/ rmdir_root(b)

RootSpec == RootInit /\ [][RootNext]_rootVars

(***************************************************************************)
(* Properties.                                                             *)
(***************************************************************************)

\* A root that fs_create_minimal_root reported as built has all its directories
\* and devices, whatever an earlier attempt that failed left, and whoever else
\* is building or cleaning it at the same time.
RootUsable ==
    \A b \in Builders : job[b].at \in {"files", "built"} =>
        /\ Range(essential_dirs) \subseteq rootDirs
        /\ Range(essential_devices) \subseteq nodes

\* Nobody else has used the path.
Alone(b) == users \subseteq {b}

\* A process that is alone on the path fails to build a root only if a system call
\* of this attempt fails: what any earlier attempts left half-made is no obstacle
\* (fs_create_minimal_root, mkdir_p with EEXIST).
FailsOnlyOnFault ==
    \A b \in Builders : Alone(b) /\ job[b].at = "failed" => job[b].hurt

\* When the clean-up reports success, the root is gone.
CleanupRemovesRoot ==
    \A b \in Builders : job[b].at = "cleaned" => "root" \notin rootDirs

=============================================================================
