---------------------------- MODULE MCIsolation ----------------------------
(***************************************************************************)
(* What a container is made of besides its process, in three scenes that   *)
(* share no state: its cgroups, its namespaces, and its root.  A behaviour *)
(* stays in its scene; the variables of the others rest.                   *)
(***************************************************************************)
EXTENDS NamespaceHandler, ResourceManager, FilesystemManager, Integers

VARIABLE scene

allVars == <<scene, resourceVars, spaceVars, rootVars>>

IsolationInit ==
    /\ scene \in {"groups", "spaces", "root"}
    /\ ResourceInit /\ (scene # "groups" => layout = "v2")
    /\ SpaceInit /\ (scene # "spaces" => parent = TRUE)
    /\ RootInit

IsolationNext ==
    \/ scene = "groups" /\ ResourceNext /\ UNCHANGED <<scene, spaceVars, rootVars>>
    \/ scene = "spaces" /\ SpaceNext /\ UNCHANGED <<scene, resourceVars, rootVars>>
    \/ scene = "root" /\ RootNext /\ UNCHANGED <<scene, resourceVars, spaceVars>>

IsolationSpec == IsolationInit /\ [][IsolationNext]_allVars
=============================================================================
