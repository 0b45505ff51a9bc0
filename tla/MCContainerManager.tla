------------------------- MODULE MCContainerManager -------------------------
(***************************************************************************)
(* Small instances of ContainerManager for TLC.                            *)
(***************************************************************************)
EXTENDS ContainerManager

\* Signals and crashes everywhere.
Anywhere == Points

\* Everywhere but inside a save.
OutsideSave == PCs

\* Everywhere but inside a save, between the clone of a process and the record
\* of its pid, and while an exec is waited for.
SafeToDie == PCs \ {"attach", "commit", "exec"}

\* The life of the containers that the user can name, as the table has it.
LifeInTable ==
    [id \in Args |->
        IF \E i \in DOMAIN containers : containers[i].id = id
        THEN containers[CHOOSE i \in DOMAIN containers : containers[i].id = id].state
        ELSE "absent"]

Life == INSTANCE Lifecycle WITH Ids <- Args, life <- LifeInTable

\* In one session, and with containers addressed by id, every call of the manager
\* is a step of the documented life of a container: none that is RUNNING leaves
\* the table without having been stopped, none is stopped or started on behalf
\* of another, and a shutdown retires containers only when nothing runs.
ImplementsLifecycle == Life!Spec
=============================================================================
