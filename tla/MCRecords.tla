----------------------------- MODULE MCRecords -----------------------------
(***************************************************************************)
(* The records of the containers in memory (ContainerTable, store by       *)
(* store) and on disk (StateFile, line by line), in two scenes that share  *)
(* no state.  A behaviour stays in its scene; the variables of the other   *)
(* rest.                                                                   *)
(***************************************************************************)
EXTENDS ContainerTable, StateFile, Integers

VARIABLE scene

\* The table's array is doubled twice.  The handler may strike between two calls
\* and inside add_container where it has not yet broken the table.
SafePoints == {"idle", "realloc", "resize", "count"}

allVars == <<scene, vars, fileVars>>

RecordsInit ==
    /\ scene \in {"memory", "disk"} /\ Init /\ FileInit
    /\ scene = "memory" => ~chunked

RecordsNext ==
    \/ scene = "memory" /\ Next /\ UNCHANGED <<scene, fileVars>>
    \/ scene = "disk" /\ FileNext /\ UNCHANGED <<scene, vars>>

RecordsSpec == RecordsInit /\ [][RecordsNext]_allVars
=============================================================================
