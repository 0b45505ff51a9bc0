--------------------------- MODULE ContainerTable ---------------------------
(***************************************************************************)
(* The container table as memory: an array of pointers that add_container  *)
(* grows and remove_container shifts (container_manager.cpp), store by     *)
(* store.  The server thread reads it without a lock                       *)
(* (web_server_simple.cpp), and the signal handler reads and frees it on   *)
(* top of whatever the main thread was doing (main.cpp).                   *)
(***************************************************************************)
EXTENDS Naturals, Sequences

CONSTANTS Entries,     \* addresses of container_info_t blocks
          InitialMax,  \* length of the first array
          MaxArray,    \* bound on the length of the array
          InterruptAt  \* program points where a signal may strike

NoEntry == 0

\* Program points of the main thread.
\*   idle     between two calls
\*   realloc, assign, resize, count, store   in add_container, before the realloc
\*            and before each of its four stores
\*   shift    in remove_container, behind the free
\*   handler  in the signal handler, behind its walk over the table
\*   down     behind container_manager_cleanup
PCs == {"idle", "realloc", "assign", "resize", "count", "store", "shift",
        "handler", "down"}

ASSUME TableAssumption ==
    /\ NoEntry \notin Entries
    /\ InitialMax \in Nat \ {0}
    /\ MaxArray \in Nat
    /\ InterruptAt \subseteq PCs

VARIABLES heap,            \* entries that are allocated
          arrays,          \* the arrays allocated so far; realloc has freed all
                           \* but the last one
          containers,      \* cm->containers: which array it points to
          container_count, max_containers,
          pc, entry, index, \* the main thread and its locals
          web,             \* the server thread's copies of pointers and count
          cause,           \* what has gone wrong for the current request
          fault,           \* who has used memory that is not allocated
          before           \* the table before the call in progress

mainVars == <<heap, arrays, containers, container_count, max_containers, pc,
              entry, index, before>>
vars == <<mainVars, web, cause, fault>>

NoRequest == [at |-> "idle", count |-> 0, array |-> 0, active |-> <<>>, next |-> 1]

Init ==
    /\ heap = {}
    /\ arrays = << [i \in 1..InitialMax |-> NoEntry] >>
    /\ containers = 1 /\ container_count = 0 /\ max_containers = InitialMax
    /\ pc = "idle" /\ entry = NoEntry /\ index = 1
    /\ web = NoRequest /\ cause = {} /\ fault = {}
    /\ before = <<>>

Allocated(a) == a = Len(arrays)

\* The entries that a walk over the table meets.
Table == [i \in 1..container_count |-> arrays[containers][i]]

\* Every step of a call to the manager.  One that takes memory away from the
\* request being served says so in cause.
CallTakes(from, takes, what) ==
    /\ pc = from
    /\ cause' = IF takes THEN cause \cup {what} ELSE cause
    /\ UNCHANGED <<web, fault>>

Call(from) == pc = from /\ UNCHANGED <<web, cause, fault>>

\* The call returns and its locals are gone.
Return == pc' = "idle" /\ entry' = NoEntry /\ index' = 1 /\ before' = <<>>

(***************************************************************************)
(* add_container.                                                          *)
(***************************************************************************)

\* container_manager_create has allocated the entry.
add_begin(e) ==
    /\ Call("idle")
    /\ e \notin heap /\ heap' = heap \cup {e} /\ entry' = e
    /\ before' = Table
    /\ \/ /\ container_count >= max_containers /\ 2 * max_containers <= MaxArray
          /\ pc' = "realloc"
       \/ container_count < max_containers /\ pc' = "count"
    /\ UNCHANGED <<arrays, containers, container_count, max_containers, index>>

\* The block may move; the old one is freed.  A request that has not collected
\* its entries yet may have read the old pointer.
add_realloc ==
    /\ CallTakes("realloc", web.at \in {"array", "scan"}, "moved")
    /\ arrays' = Append([k \in DOMAIN arrays |-> <<>>],
          [i \in 1..(2 * max_containers) |->
              IF i <= max_containers THEN arrays[containers][i] ELSE NoEntry])
    /\ pc' = "assign"
    /\ UNCHANGED <<heap, containers, container_count, max_containers, entry, index, before>>

\* The caller frees the entry again.
add_fails ==
    /\ Call("realloc")
    /\ heap' = heap \ {entry}
    /\ Return
    /\ UNCHANGED <<arrays, containers, container_count, max_containers>>

\* Mutant of add_assign: the pointer keeps its old value.
add_forgets_array ==
    /\ Call("assign")
    /\ pc' = "resize"
    /\ UNCHANGED <<heap, arrays, containers, container_count, max_containers, entry, index, before>>

add_assign ==
    /\ Call("assign")
    /\ containers' = Len(arrays)
    /\ pc' = "resize"
    /\ UNCHANGED <<heap, arrays, container_count, max_containers, entry, index, before>>

add_resize ==
    /\ Call("resize")
    /\ max_containers' = 2 * max_containers
    /\ pc' = "count"
    /\ UNCHANGED <<heap, arrays, containers, container_count, entry, index, before>>

\* cm->containers[cm->container_count++] = info: the compiled code stores the
\* count first.
add_count ==
    /\ Call("count")
    /\ container_count' = container_count + 1
    /\ pc' = "store"
    /\ UNCHANGED <<heap, arrays, containers, max_containers, entry, index, before>>

add_store ==
    /\ Call("store")
    /\ arrays' = [arrays EXCEPT ![containers][container_count] = entry]
    /\ Return
    /\ UNCHANGED <<heap, containers, container_count, max_containers>>

(***************************************************************************)
(* remove_container, behind its search.                                    *)
(***************************************************************************)

\* The request being served has yet to collect slot i, or has collected its entry
\* and not rendered it yet.
Awaited(i) ==
    \/ web.at \in {"array", "scan"} /\ i <= web.count
    \/ \E k \in web.next..Len(web.active) : web.active[k] = Table[i]

remove_begin(i) ==
    /\ i <= container_count
    /\ CallTakes("idle", Awaited(i), "freed")
    /\ heap' = heap \ {Table[i]}
    /\ index' = i
    /\ before' = Table
    /\ pc' = "shift"
    /\ UNCHANGED <<arrays, containers, container_count, max_containers, entry>>

\* Mutant of remove_shift: the last entry is moved into the gap.
move_last ==
    /\ Call("shift") /\ index < container_count
    /\ arrays' = [arrays EXCEPT ![containers][index] = arrays[containers][container_count]]
    /\ index' = container_count
    /\ UNCHANGED <<heap, containers, container_count, max_containers, pc, entry, before>>

remove_shift ==
    /\ Call("shift") /\ index < container_count
    /\ arrays' = [arrays EXCEPT ![containers][index] = arrays[containers][index + 1]]
    /\ index' = index + 1
    /\ UNCHANGED <<heap, containers, container_count, max_containers, pc, entry, before>>

\* Mutant of remove_count: the count keeps its old value.
remove_keeps_count ==
    /\ Call("shift") /\ index >= container_count
    /\ Return
    /\ UNCHANGED <<heap, arrays, containers, container_count, max_containers>>

remove_count ==
    /\ Call("shift") /\ index >= container_count
    /\ container_count' = container_count - 1
    /\ Return
    /\ UNCHANGED <<heap, arrays, containers, max_containers>>

(***************************************************************************)
(* The signal handler, and container_manager_cleanup.  Before the latter,  *)
(* the server thread has been joined (QuietAtCleanup of WebServer).        *)
(***************************************************************************)
Distinct(t) == \A i, j \in DOMAIN t : t[i] = t[j] => i = j

\* Every pointer that a walk over the table follows leads to allocated memory.
Walkable == Allocated(containers) /\ \A i \in DOMAIN Table : Table[i] \in heap

signal_handler ==
    /\ pc \in InterruptAt \ {"handler", "down"}
    /\ fault' = IF Walkable THEN fault ELSE fault \cup {"handler"}
    /\ before' = IF pc = "idle" THEN Table ELSE before
    /\ pc' = "handler"
    /\ UNCHANGED <<heap, arrays, containers, container_count, max_containers, entry,
                   index, web, cause>>

\* Every entry is freed, then the array.
container_manager_cleanup ==
    /\ pc \in {"idle", "handler"} /\ web.at = "idle"
    /\ fault' = IF Walkable /\ Distinct(Table) THEN fault ELSE fault \cup {"handler"}
    /\ before' = IF pc = "idle" THEN Table ELSE before
    /\ heap' = heap \ {Table[i] : i \in DOMAIN Table}
    /\ pc' = "down"
    /\ UNCHANGED <<arrays, containers, container_count, max_containers, entry, index,
                   web, cause>>

(***************************************************************************)
(* GET /api/containers: the count and the pointer are read one after the   *)
(* other, then the entries are collected, then each is read again.         *)
(***************************************************************************)
list_count ==
    /\ web.at = "idle" /\ pc # "down"
    /\ web' = [NoRequest EXCEPT !.at = "array", !.count = container_count]
    /\ cause' = IF Walkable THEN {} ELSE {"broken"}
    /\ UNCHANGED <<mainVars, fault>>

list_array ==
    /\ web.at = "array"
    /\ web' = [web EXCEPT !.at = "scan", !.array = containers]
    /\ UNCHANGED <<mainVars, cause, fault>>

\* The thread follows a pointer: the request goes on as w, or the memory is gone.
Follow(ok, w) ==
    IF ok THEN web' = w /\ UNCHANGED fault
    ELSE web' = NoRequest /\ fault' = fault \cup {"web"}

scan_entry ==
    /\ web.at = "scan" /\ Len(web.active) < web.count
    /\ LET e == arrays[web.array][Len(web.active) + 1]
       IN Follow(Allocated(web.array) /\ e \in heap,
                 [web EXCEPT !.active = Append(@, e)])
    /\ UNCHANGED <<mainVars, cause>>

scan_done ==
    /\ web.at = "scan" /\ Len(web.active) = web.count
    /\ web' = [web EXCEPT !.at = "render"]
    /\ UNCHANGED <<mainVars, cause, fault>>

\* Mutant of render_entry: the loop runs to the count of the moment.
render_to_live_count ==
    /\ web.at = "render" /\ web.next <= container_count
    /\ Follow(web.next \in DOMAIN web.active /\ web.active[web.next] \in heap,
              [web EXCEPT !.next = @ + 1])
    /\ UNCHANGED <<mainVars, cause>>

render_entry ==
    /\ web.at = "render" /\ web.next <= web.count
    /\ Follow(web.active[web.next] \in heap, [web EXCEPT !.next = @ + 1])
    /\ UNCHANGED <<mainVars, cause>>

render_done ==
    /\ web.at = "render" /\ web.next > web.count
    /\ web' = NoRequest /\ cause' = {}
    /\ UNCHANGED <<mainVars, fault>>

(***************************************************************************)
(* The specification.                                                      *)
(***************************************************************************)
AddContainer ==
    \/ \E e \in Entries : add_begin(e)
    \/ add_realloc \/ add_fails \/ add_assign \/ add_resize \/ add_count \/ add_store
RemoveContainer ==
    \/ \E i \in 1..MaxArray : remove_begin(i)
    \/ remove_shift \/ remove_count
GetContainerList ==
    list_count \/ list_array \/ scan_entry \/ scan_done \/ render_entry \/ render_done

\* What follows a fault is not defined.
Next ==
    /\ fault = {}
    /\ \/ AddContainer \/ RemoveContainer \/ signal_handler \/ container_manager_cleanup
       \/ GetContainerList

Spec == Init /\ [][Next]_vars

(***************************************************************************)
(* Properties.                                                             *)
(***************************************************************************)

\* Between two calls the table is sound: its array is the allocated one and long
\* enough, its entries are distinct and are exactly the entries that are
\* allocated, so that nothing dangles and nothing leaks.
TableSound ==
    pc = "idle" =>
        /\ Allocated(containers)
        /\ container_count <= max_containers
        /\ DOMAIN arrays[containers] = 1..max_containers
        /\ Distinct(Table)
        /\ heap = {Table[i] : i \in DOMAIN Table}

\* The server thread takes no lock, and yet a request meets freed or empty memory
\* only for one of three causes: it began while the table was broken (a stale
\* pointer, a count ahead of its store, a freed entry still listed), add_container
\* moved the array before the entries were collected, or remove_container freed an
\* entry that the request was still to read.  Every other overlap is harmless: an
\* add without growth or one that fails, a realloc while the page is rendered, the
\* shifts, the removal of an entry already rendered or beyond the request's count.
RequestSafe == "web" \in fault => cause # {}

\* The handler neither follows a dangling pointer nor frees an entry twice when
\* it strikes at one of the points InterruptAt.
HandlerSafe == "handler" \notin fault

TS == INSTANCE TableSpec WITH list <- IF pc = "idle" THEN Table ELSE before

\* The stores of add_container and remove_container amount to an append and to
\* the removal of one entry that keeps the order of the others.
ImplementsTable == TS!Spec

\* "Returns a JSON list of containers." (docs/api.md, GET /api/containers)  The
\* server thread reads the table while the main thread changes it.
ListReturned == "web" \notin fault
=============================================================================
