---------------------------- MODULE ContainerIds ----------------------------
(***************************************************************************)
(* The ids of containers as C ints: extract_numeric_id narrows a long to   *)
(* an int, generate_container_id adds one to the largest, and load_state   *)
(* renames what is not a positive int.  An int has the values              *)
(* -Half .. Half - 1 (Half = 2^31 in the build); a long holds every numeral*)
(* in question.  An id is the integer it is the numeral of; Name is one    *)
(* that is not a numeral.                                                  *)
(***************************************************************************)
EXTENDS Integers, Sequences

CONSTANTS Half,     \* number of non-negative ints
          Typed,    \* positive numerals a user may type as a container's name
          Capacity  \* bound on the containers in the table

ASSUME IdsAssumption ==
    /\ Half \in Nat \ {0, 1}
    /\ Typed \subseteq Nat \ {0}
    /\ Capacity \in Nat

Name == 0   \* extract_numeric_id treats 0 and what is no numeral alike

VARIABLES ids,        \* the table: ids in their order
          runningIds, \* ids that the state file brings back (RUNNING)
          rest,       \* records that a new manager has still to read
          refused     \* the last create without a name was refused

idsVars == <<ids, runningIds, rest, refused>>

Ids == {ids[i] : i \in DOMAIN ids}

IdsInit == ids = <<>> /\ runningIds = {} /\ rest = <<>> /\ refused = FALSE

\* The value of an integer in an int.
ToInt(n) == ((n + Half) % (2 * Half)) - Half

\* extract_numeric_id: positive numerals narrowed to an int, -1 for the rest.
extract_numeric_id(id) == IF id > 0 THEN ToInt(id) ELSE -1

\* Mutant of max_id: only the last container is looked at.
max_id_of_last(s) ==
    IF s # <<>> /\ extract_numeric_id(s[Len(s)]) > 0
    THEN extract_numeric_id(s[Len(s)]) ELSE 0

\* The loop of generate_container_id and of load_state over a table s.
max_id(s) ==
    LET found == {extract_numeric_id(s[i]) : i \in DOMAIN s} \cup {0}
    IN  CHOOSE n \in found : \A k \in found : k <= n

\* max_id + 1 wraps behind the largest int.
generate_container_id(s) == ToInt(max_id(s) + 1)

(***************************************************************************)
(* Operations.                                                             *)
(***************************************************************************)

\* container_manager_create with a typed id, refused if the id is taken.
create_named(id) ==
    /\ rest = <<>> /\ Len(ids) < Capacity /\ id \notin Ids
    /\ ids' = Append(ids, id)
    /\ refused' = FALSE
    /\ UNCHANGED <<runningIds, rest>>

\* container_manager_create without a name: also refused if the id is taken.
create_auto ==
    LET id == generate_container_id(ids)
    IN  /\ rest = <<>> /\ Len(ids) < Capacity
        /\ ids' = IF id \in Ids THEN ids ELSE Append(ids, id)
        /\ refused' = (id \in Ids)
        /\ UNCHANGED <<runningIds, rest>>

\* The container's state in the file becomes RUNNING.
mark_running(id) ==
    /\ rest = <<>> /\ id \in Ids \ runningIds
    /\ runningIds' = runningIds \cup {id}
    /\ refused' = FALSE
    /\ UNCHANGED <<ids, rest>>

\* find_container and remove_container take the first entry of that id.
destroy(i) ==
    /\ rest = <<>> /\ i \in DOMAIN ids
    /\ \A k \in 1..(i - 1) : ids[k] # ids[i]
    /\ ids' = SubSeq(ids, 1, i - 1) \o SubSeq(ids, i + 1, Len(ids))
    /\ runningIds' = runningIds \cap {ids'[k] : k \in DOMAIN ids'}
    /\ refused' = FALSE
    /\ UNCHANGED rest

\* A new manager process, with an empty table, is about to read the state file.
restart ==
    /\ rest = <<>>
    /\ ids' = <<>> /\ rest' = ids
    /\ refused' = FALSE
    /\ UNCHANGED runningIds

\* What load_state makes of a record behind the entries it has loaded: an id
\* whose int is negative is replaced by the number after the largest.
LoadedId(id) ==
    IF extract_numeric_id(id) < 0 THEN generate_container_id(ids) ELSE id

\* One record of load_state; behind the last, all in the table are RUNNING.
load_record ==
    /\ rest # <<>>
    /\ rest' = Tail(rest)
    /\ ids' = IF Head(rest) \in runningIds THEN Append(ids, LoadedId(Head(rest))) ELSE ids
    /\ runningIds' = IF Tail(rest) = <<>> THEN {ids'[k] : k \in DOMAIN ids'} ELSE runningIds
    /\ UNCHANGED refused

IdsNext ==
    \/ \E id \in Typed \cup {Name} : create_named(id)
    \/ create_auto
    \/ \E id \in Ids : mark_running(id)
    \/ \E i \in DOMAIN ids : destroy(i)
    \/ restart \/ load_record

IdsSpec == IdsInit /\ [][IdsNext]_idsVars

(***************************************************************************)
(* Properties.                                                             *)
(***************************************************************************)

\* The number made for a container without a name is one that no entry has, up
\* to the largest int: only behind that number can the create be refused
\* (generate_container_id, find_container in container_manager_create).
RefusedOnlyAtLimit ==
    refused => \E id \in Ids : extract_numeric_id(id) = Half - 1

\* Pressing Enter at the question for a name always makes a container.
AutoIdFresh == ~refused

=============================================================================
