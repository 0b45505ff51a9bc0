--------------------------- MODULE RecordsProofs ---------------------------
(***************************************************************************)
(* Proofs about the records of the containers, for tables of every length. *)
(* In memory (ContainerTable): what the stores of add_container and        *)
(* remove_container leave behind, what the server thread and the signal    *)
(* handler meet, and that the table implements TableSpec.  On disk         *)
(* (StateFile): what load_state makes of a file that saves have been cut   *)
(* short in or have written over.                                          *)
(***************************************************************************)
EXTENDS ContainerTable, StateFile, SequenceTheorems, WellFoundedInduction, TLAPS

(***************************************************************************)
(* The table in memory: the inductive invariants.                          *)
(***************************************************************************)
Rows(n) == [1..n -> Entries \cup {NoEntry}]
Blocks == UNION {Rows(n) : n \in Nat}

\* The array that is allocated.
Last == arrays[Len(arrays)]

\* Types of what the main thread keeps.
MemoryTypeOK ==
    /\ heap \in SUBSET Entries
    /\ arrays \in Seq(Blocks) /\ Len(arrays) >= 1
    /\ containers \in Nat /\ container_count \in Nat
    /\ max_containers \in Nat \ {0}
    /\ pc \in PCs
    /\ entry \in Entries \cup {NoEntry}
    /\ index \in Nat \ {0}
    /\ before \in Seq(Entries)

\* The first n places of the array hold the blocks H, each of them once.
Holds(n, H) ==
    /\ \A i \in 1..n : Last[i] \in H
    /\ \A i, j \in 1..n : Last[i] = Last[j] => i = j
    /\ \A e \in H : \E i \in 1..n : Last[i] = e

\* The call began with the table that is in the first n places.
Began(n) == Len(before) = n /\ \A i \in 1..n : before[i] = Last[i]

Adding == {"realloc", "assign", "resize", "count"}

\* The pointer and the length of the array.
Shape ==
    /\ containers = IF pc = "assign" THEN Len(arrays) - 1 ELSE Len(arrays)
    /\ Last \in Rows(IF pc \in {"assign", "resize"} THEN 2 * max_containers ELSE max_containers)
    /\ pc \in {"realloc", "assign", "resize"} => container_count = max_containers
    /\ pc = "count" => container_count < max_containers
    /\ container_count <= max_containers

\* remove_container has freed entry r and moved those behind it, up to index.
Removing(r) ==
    /\ index <= container_count /\ Len(before) = container_count
    /\ \A i, j \in 1..container_count : before[i] = before[j] => i = j
    /\ \A i \in 1..container_count :
          Last[i] = IF i < r \/ i >= index THEN before[i] ELSE before[i + 1]
    /\ \A i \in 1..container_count : i # r => before[i] \in heap
    /\ \A e \in heap : \E i \in 1..container_count : i # r /\ before[i] = e

Contents ==
    /\ pc = "idle" => Holds(container_count, heap)
    /\ pc \in Adding => /\ entry \in heap /\ Holds(container_count, heap \ {entry})
                        /\ Began(container_count)
    /\ pc = "store" => /\ container_count >= 1 /\ entry \in heap
                       /\ Holds(container_count - 1, heap \ {entry})
                       /\ Began(container_count - 1)
    /\ pc = "shift" => \E r \in 1..index : Removing(r)

MemoryInv == MemoryTypeOK /\ (pc \notin {"handler", "down"} => Shape /\ Contents)

\* The points where a walk over the table meets allocated memory only, and each
\* entry once.
SafePoints == {"idle", "realloc", "resize", "count"}
HandlerInv ==
    /\ HandlerSafe
    /\ pc = "handler" =>
          /\ containers = Len(arrays)
          /\ \A i \in 1..container_count : Last[i] \in heap
          /\ \A i, j \in 1..container_count : Last[i] = Last[j] => i = j

Requests ==
    [at: {"idle", "array", "scan", "render"}, count: Nat, array: Nat,
     active: Seq(Entries), next: Nat \ {0}]

\* The entry is allocated, and no failing add_container is about to free it.
Alive(x) == x \in heap /\ (pc = "realloc" => x # entry)

\* The slots that a request has yet to collect.
Collecting ==
    /\ containers = Len(arrays)
    /\ pc \notin {"handler", "down"} => web.count <= max_containers
    /\ \A i \in 1..web.count : Alive(Last[i])

\* What a request without a cause for a fault has before it is alive.
Undisturbed ==
    /\ Len(web.active) <= web.count
    /\ \A k \in web.next..Len(web.active) : Alive(web.active[k])
    /\ web.at = "array" => web.active = <<>>
    /\ web.at = "scan" => web.array = Len(arrays)
    /\ web.at \in {"array", "scan"} => Collecting
    /\ web.at = "render" => Len(web.active) = web.count

WebInv ==
    /\ web \in Requests /\ RequestSafe
    /\ web.at # "idle" /\ cause = {} => Undisturbed

(***************************************************************************)
(* Arrays.                                                                 *)
(***************************************************************************)
LEMMA RowBlock ==
    ASSUME NEW n \in Nat, NEW f \in Rows(n)
    PROVE  f \in Blocks
  BY DEF Blocks

\* A function on 1..n is a sequence of length n.
LEMMA FunctionIsSeq ==
    ASSUME NEW n \in Nat, NEW S, NEW f \in [1..n -> S]
    PROVE  f \in Seq(S) /\ Len(f) = n
  OBVIOUS

LEMMA AppendFunction ==
    ASSUME NEW S, NEW s \in Seq(S), NEW e \in S
    PROVE  Append(s, e) = [i \in 1..(Len(s) + 1) |-> IF i = Len(s) + 1 THEN e ELSE s[i]]
<1>. DEFINE f == [i \in 1..(Len(s) + 1) |-> IF i = Len(s) + 1 THEN e ELSE s[i]]
<1>1. f \in [1..(Len(s) + 1) -> S] /\ Len(s) + 1 \in Nat
  OBVIOUS
<1>2. f \in Seq(S) /\ Len(f) = Len(s) + 1
  BY <1>1, FunctionIsSeq
<1>3. /\ Append(s, e) \in Seq(S) /\ Len(Append(s, e)) = Len(s) + 1
      /\ \A i \in 1..(Len(s) + 1) : Append(s, e)[i] = f[i]
  OBVIOUS
<1>. HIDE DEF f
<1>4. Append(s, e) = f
  BY <1>2, <1>3, SeqEqual
<1>. QED
  BY <1>4 DEF f

\* One store into the array.
LEMMA StoreArray ==
    ASSUME MemoryTypeOK, NEW n \in Nat, NEW row \in Rows(n),
           arrays' = [arrays EXCEPT ![Len(arrays)] = row]
    PROVE  arrays' \in Seq(Blocks) /\ Len(arrays') = Len(arrays) /\ Last' = row
<1>. USE DEF MemoryTypeOK
<1>1. Len(arrays) \in DOMAIN arrays /\ DOMAIN arrays = 1..Len(arrays) /\ Len(arrays) \in Nat
  OBVIOUS
<1>2. row \in Blocks
  BY RowBlock
<1>3. arrays' \in [1..Len(arrays) -> Blocks]
  BY <1>1, <1>2
<1>4. arrays' \in Seq(Blocks) /\ Len(arrays') = Len(arrays)
  BY <1>1, <1>3, FunctionIsSeq
<1>. QED
  BY <1>1, <1>4 DEF Last

\* The array is reallocated.
LEMMA GrowArray ==
    ASSUME MemoryTypeOK, containers = Len(arrays), Last \in Rows(max_containers), add_realloc
    PROVE  /\ arrays' \in Seq(Blocks) /\ Len(arrays') = Len(arrays) + 1
           /\ Last' \in Rows(2 * max_containers)
           /\ \A i \in 1..max_containers : Last'[i] = Last[i]
<1>. USE DEF MemoryTypeOK
<1>. DEFINE freed == [k \in DOMAIN arrays |-> <<>>]
            row == [i \in 1..(2 * max_containers) |->
                       IF i <= max_containers THEN Last[i] ELSE NoEntry]
<1>1. DOMAIN arrays = 1..Len(arrays) /\ Len(arrays) \in Nat
  OBVIOUS
<1>2. row \in Rows(2 * max_containers) /\ \A i \in 1..max_containers : row[i] = Last[i]
  <2>1. \A i \in 1..max_containers : i \in 1..(2 * max_containers) /\ i <= max_containers
    OBVIOUS
  <2>2. \A i \in 1..max_containers : row[i] = Last[i]
    BY <2>1
  <2>3. \A i \in 1..(2 * max_containers) :
          (IF i <= max_containers THEN Last[i] ELSE NoEntry) \in Entries \cup {NoEntry}
    BY DEF Rows
  <2>4. row \in [1..(2 * max_containers) -> Entries \cup {NoEntry}]
    BY <2>3, Zenon
  <2>. QED
    BY <2>2, <2>4 DEF Rows
<1>. HIDE DEF row
<1>3. row \in Blocks
  <2>1. 2 * max_containers \in Nat
    OBVIOUS
  <2>. QED
    BY <1>2, <2>1, RowBlock
<1>4. <<>> \in Blocks
  <2>1. <<>> \in Rows(0)
    BY DEF Rows
  <2>. QED
    BY <2>1, RowBlock
<1>5. freed \in Seq(Blocks) /\ Len(freed) = Len(arrays)
  BY <1>1, <1>4, FunctionIsSeq
<1>6. arrays' = Append(freed, row)
  BY DEF add_realloc, Last, row
<1>. HIDE DEF freed
<1>7. arrays' \in Seq(Blocks) /\ Len(arrays') = Len(arrays) + 1
      /\ arrays'[Len(arrays) + 1] = row
  BY <1>3, <1>5, <1>6
<1>8. Last' = row
  BY <1>7 DEF Last
<1>. QED
  BY <1>2, <1>7, <1>8

\* What a walk over the table meets is in the array.
LEMMA TableEntries ==
    ASSUME MemoryTypeOK, containers = Len(arrays)
    PROVE  Table = [i \in 1..container_count |-> Last[i]]
  BY DEF Table, Last

(***************************************************************************)
(* Types.                                                                  *)
(***************************************************************************)

\* Entries of the table are blocks of the heap.
LEMMA TableType ==
    ASSUME MemoryTypeOK, containers = Len(arrays), NEW H \in SUBSET Entries,
           Holds(container_count, H)
    PROVE  Table \in Seq(Entries) /\ Len(Table) = container_count
<1>1. Table \in [1..container_count -> Entries]
  BY TableEntries DEF Holds
<1>. QED
  BY <1>1, FunctionIsSeq DEF MemoryTypeOK

\* Nothing of the invariant is about the server thread.
LEMMA SameMemory ==
    ASSUME MemoryInv, UNCHANGED mainVars
    PROVE  MemoryInv'
  BY DEF MemoryInv, mainVars, MemoryTypeOK, Shape, Contents, Last, Holds, Began, Removing

(***************************************************************************)
(* The stores of add_container and remove_container.                       *)
(***************************************************************************)
LEMMA AddBeginMemory ==
    ASSUME MemoryInv, NEW e \in Entries, add_begin(e)
    PROVE  MemoryInv'
<1>. USE DEF MemoryTypeOK
<1>1. /\ pc = "idle" /\ MemoryTypeOK /\ Shape /\ Holds(container_count, heap)
      /\ UNCHANGED <<arrays, containers, container_count, max_containers, index>>
      /\ e \notin heap /\ heap' = heap \cup {e} /\ entry' = e /\ before' = Table
      /\ pc' \in {"realloc", "count"}
      /\ pc' = "realloc" => container_count >= max_containers
      /\ pc' = "count" => container_count < max_containers
  BY DEF MemoryInv, add_begin, Call, Contents
<1>2. containers = Len(arrays) /\ UNCHANGED Last
  BY <1>1 DEF Shape, Last
<1>3. before' \in Seq(Entries) /\ Len(before') = container_count
  BY <1>1, <1>2, TableType
<1>4. Began(container_count)'
  BY <1>1, <1>2, <1>3, TableEntries DEF Began
<1>5. Shape'
  BY <1>1, <1>2 DEF Shape
<1>6. Holds(container_count, heap \ {entry})'
  BY <1>1, <1>2 DEF Holds
<1>. QED
  BY <1>1, <1>3, <1>4, <1>5, <1>6 DEF MemoryInv, Contents, Adding, PCs

LEMMA AddStepsMemory ==
    ASSUME MemoryInv, add_realloc \/ add_fails \/ add_assign \/ add_resize \/ add_count
    PROVE  MemoryInv'
<1>. USE DEF MemoryTypeOK
<1>1. /\ pc \in Adding /\ MemoryTypeOK /\ Shape /\ entry \in heap
      /\ Holds(container_count, heap \ {entry}) /\ Began(container_count)
  BY DEF MemoryInv, add_realloc, add_fails, add_assign, add_resize, add_count, Call,
     CallTakes, Contents, Adding
<1>2. CASE add_realloc
  <2>1. /\ containers = Len(arrays) /\ Last \in Rows(max_containers)
        /\ container_count = max_containers
        /\ pc' = "assign"
        /\ UNCHANGED <<heap, containers, container_count, max_containers, entry, index, before>>
    BY <1>1, <1>2 DEF Shape, add_realloc, CallTakes
  <2>2. /\ arrays' \in Seq(Blocks) /\ Len(arrays') = Len(arrays) + 1
        /\ Last' \in Rows(2 * max_containers)
        /\ \A i \in 1..max_containers : Last'[i] = Last[i]
    BY <1>1, <1>2, <2>1, GrowArray
  <2>3. Shape'
    BY <1>1, <2>1, <2>2 DEF Shape
  <2>4. \A i \in 1..container_count : Last'[i] = Last[i]
    BY <2>1, <2>2
  <2>5. Holds(container_count, heap \ {entry})'
    BY <1>1, <2>1, <2>4 DEF Holds
  <2>6. Began(container_count)'
    BY <1>1, <2>1, <2>4 DEF Began
  <2>. QED
    BY <1>1, <2>1, <2>2, <2>3, <2>5, <2>6 DEF MemoryInv, Contents, PCs
<1>3. CASE add_fails
  <2>1. /\ UNCHANGED <<arrays, containers, container_count, max_containers>>
        /\ pc = "realloc" /\ pc' = "idle" /\ heap' = heap \ {entry} /\ entry' = NoEntry
        /\ index' = 1 /\ before' = <<>>
    BY <1>3 DEF add_fails, Call, Return
  <2>2. Shape' /\ UNCHANGED Last
    BY <1>1, <2>1 DEF Shape, Last
  <2>3. Contents'
    BY <1>1, <2>1, <2>2 DEF Contents, Adding, Holds
  <2>. QED
    BY <1>1, <2>1, <2>2, <2>3 DEF MemoryInv, PCs
<1>4. CASE add_assign
  <2>1. /\ UNCHANGED <<heap, arrays, container_count, max_containers, entry, index, before>>
        /\ pc = "assign" /\ pc' = "resize" /\ containers' = Len(arrays)
    BY <1>4 DEF add_assign, Call
  <2>2. Shape' /\ UNCHANGED Last
    BY <1>1, <2>1 DEF Shape, Last
  <2>3. Contents'
    BY <1>1, <2>1, <2>2 DEF Contents, Adding, Holds, Began
  <2>. QED
    BY <1>1, <2>1, <2>2, <2>3 DEF MemoryInv, PCs
<1>5. CASE add_resize
  <2>1. /\ UNCHANGED <<heap, arrays, containers, container_count, entry, index, before>>
        /\ pc = "resize" /\ pc' = "count" /\ max_containers' = 2 * max_containers
    BY <1>5 DEF add_resize, Call
  <2>2. Shape' /\ UNCHANGED Last
    BY <1>1, <2>1 DEF Shape, Last
  <2>3. Contents'
    <3>1. /\ entry' \in heap' /\ Holds(container_count, heap \ {entry})'
          /\ Began(container_count)'
      BY <1>1, <2>1, <2>2 DEF Contents, Adding, Holds, Began
    <3>. QED
      BY <2>1, <3>1 DEF Contents, Adding
  <2>. QED
    BY <1>1, <2>1, <2>2, <2>3 DEF MemoryInv, PCs
<1>6. CASE add_count
  <2>1. /\ UNCHANGED <<heap, arrays, containers, max_containers, entry, index, before>>
        /\ pc = "count" /\ pc' = "store" /\ container_count' = container_count + 1
    BY <1>6 DEF add_count, Call
  <2>2. Shape' /\ UNCHANGED Last
    BY <1>1, <2>1 DEF Shape, Last
  <2>3. container_count' - 1 = container_count
    BY <1>1, <2>1
  <2>4. Contents'
    BY <1>1, <2>1, <2>2, <2>3 DEF Contents, Adding, Holds, Began
  <2>. QED
    BY <1>1, <2>1, <2>2, <2>4 DEF MemoryInv, PCs
<1>. QED
  BY <1>2, <1>3, <1>4, <1>5, <1>6

\* add_container stores the new entry behind the others.
LEMMA StoredEntry ==
    ASSUME MemoryInv, add_store
    PROVE  /\ arrays' \in Seq(Blocks) /\ Len(arrays') = Len(arrays) /\ Last' \in Rows(max_containers)
           /\ \A i \in 1..max_containers : Last'[i] = IF i = container_count THEN entry ELSE Last[i]
<1>. DEFINE row == [Last EXCEPT ![container_count] = entry]
<1>1. /\ MemoryTypeOK /\ containers = Len(arrays) /\ Last \in Rows(max_containers)
      /\ arrays' = [arrays EXCEPT ![containers][container_count] = entry]
      /\ container_count \in 1..max_containers
  BY DEF MemoryInv, add_store, Call, Contents, Shape, MemoryTypeOK
<1>2. row \in Rows(max_containers)
  BY <1>1 DEF Rows, MemoryTypeOK
<1>3. arrays' = [arrays EXCEPT ![Len(arrays)] = row]
  BY <1>1 DEF Last
<1>4. \A i \in 1..max_containers : row[i] = IF i = container_count THEN entry ELSE Last[i]
  BY <1>1 DEF Rows
<1>5. max_containers \in Nat
  BY <1>1 DEF MemoryTypeOK
<1>. HIDE DEF row
<1>. QED
  BY <1>1, <1>2, <1>3, <1>4, <1>5, StoreArray

LEMMA AddStoreMemory ==
    ASSUME MemoryInv, add_store
    PROVE  /\ MemoryInv'
           /\ Table' = Append(before, entry)
<1>. USE DEF MemoryTypeOK
<1>1. /\ pc = "store" /\ MemoryTypeOK /\ Shape /\ entry \in heap /\ container_count >= 1
      /\ Holds(container_count - 1, heap \ {entry}) /\ Began(container_count - 1)
      /\ UNCHANGED <<heap, containers, container_count, max_containers>>
      /\ arrays' = [arrays EXCEPT ![containers][container_count] = entry]
      /\ pc' = "idle" /\ entry' = NoEntry /\ index' = 1 /\ before' = <<>>
  BY DEF MemoryInv, add_store, Call, Return, Contents
<1>2. containers = Len(arrays) /\ Last \in Rows(max_containers)
      /\ container_count \in 1..max_containers
  BY <1>1 DEF Shape
<1>3. /\ arrays' \in Seq(Blocks) /\ Len(arrays') = Len(arrays) /\ Last' \in Rows(max_containers)
      /\ \A i \in 1..max_containers : Last'[i] = IF i = container_count THEN entry ELSE Last[i]
  BY StoredEntry
<1>4. /\ Last'[container_count] = entry
      /\ \A i \in 1..(container_count - 1) : Last'[i] = Last[i]
      /\ \A i \in 1..container_count : i = container_count \/ i \in 1..(container_count - 1)
  BY <1>1, <1>2, <1>3
<1>5. Holds(container_count, heap)'
  <2>1. \A i \in 1..container_count : Last'[i] \in heap
    BY <1>1, <1>4 DEF Holds
  <2>2. \A i, j \in 1..container_count : Last'[i] = Last'[j] => i = j
    BY <1>1, <1>4 DEF Holds
  <2>3. ASSUME NEW x \in heap
        PROVE  \E i \in 1..container_count : Last'[i] = x
    <3>1. CASE x = entry
      BY <1>2, <1>4, <3>1
    <3>2. CASE x # entry
      <4>1. PICK i \in 1..(container_count - 1) : Last[i] = x
        BY <1>1, <3>2 DEF Holds
      <4>2. i \in 1..container_count
        BY <1>1
      <4>. QED
        BY <1>4, <4>1, <4>2
    <3>. QED
      BY <3>1, <3>2
  <2>. QED
    BY <1>1, <2>1, <2>2, <2>3 DEF Holds
<1>6. Shape'
  BY <1>1, <1>2, <1>3 DEF Shape
<1>7. MemoryTypeOK'
  BY <1>1, <1>3 DEF PCs
<1>8. Table' = [i \in 1..container_count |-> Last'[i]]
  BY <1>1, <1>2, <1>3 DEF Table, Last
<1>9. Table' = Append(before, entry)
  <2>1. Len(before) = container_count - 1 /\ \A i \in 1..(container_count - 1) : before[i] = Last[i]
    BY <1>1 DEF Began
  <2>2. Append(before, entry) = [i \in 1..(Len(before) + 1) |->
                                   IF i = Len(before) + 1 THEN entry ELSE before[i]]
    BY <1>1, AppendFunction
  <2>3. Len(before) + 1 = container_count
    BY <1>1, <2>1
  <2>. QED
    BY <1>4, <1>8, <2>1, <2>2, <2>3
<1>. QED
  BY <1>1, <1>5, <1>6, <1>7, <1>9 DEF MemoryInv, Contents, Adding

LEMMA RemoveBeginMemory ==
    ASSUME MemoryInv, NEW i \in Nat \ {0}, remove_begin(i)
    PROVE  MemoryInv'
<1>. USE DEF MemoryTypeOK
<1>1. /\ pc = "idle" /\ MemoryTypeOK /\ Shape /\ Holds(container_count, heap)
      /\ UNCHANGED <<arrays, containers, container_count, max_containers, entry>>
      /\ i \in 1..container_count /\ heap' = heap \ {Table[i]} /\ index' = i
      /\ before' = Table /\ pc' = "shift"
  BY DEF MemoryInv, remove_begin, CallTakes, Contents
<1>2. containers = Len(arrays) /\ UNCHANGED Last
  BY <1>1 DEF Shape, Last
<1>3. before' \in Seq(Entries) /\ Len(before') = container_count
  BY <1>1, <1>2, TableType
<1>4. /\ \A k \in 1..container_count : before'[k] = Last[k]
      /\ heap' = heap \ {Last[i]}
  BY <1>1, <1>2, TableEntries
<1>5. Shape'
  BY <1>1, <1>2 DEF Shape
<1>6. Removing(i)'
  <2>1. /\ index' <= container_count' /\ Len(before') = container_count'
        /\ \A j, k \in 1..container_count' : before'[j] = before'[k] => j = k
    BY <1>1, <1>3, <1>4 DEF Holds
  <2>2. \A k \in 1..container_count' :
          Last'[k] = IF k < i \/ k >= index' THEN before'[k] ELSE before'[k + 1]
    BY <1>1, <1>2, <1>4
  <2>3. \A k \in 1..container_count' : k # i => before'[k] \in heap'
    BY <1>1, <1>4 DEF Holds
  <2>4. \A x \in heap' : \E k \in 1..container_count' : k # i /\ before'[k] = x
    BY <1>1, <1>4 DEF Holds
  <2>. QED
    BY <2>1, <2>2, <2>3, <2>4 DEF Removing
<1>7. Contents'
  BY <1>1, <1>6 DEF Contents, Adding
<1>. QED
  BY <1>1, <1>3, <1>5, <1>7 DEF MemoryInv, PCs

\* remove_container copies one pointer to its left.
LEMMA ShiftedEntry ==
    ASSUME MemoryInv, remove_shift
    PROVE  /\ arrays' \in Seq(Blocks) /\ Len(arrays') = Len(arrays) /\ Last' \in Rows(max_containers)
           /\ \A i \in 1..max_containers :
                 Last'[i] = IF i = index THEN Last[index + 1] ELSE Last[i]
<1>. DEFINE row == [Last EXCEPT ![index] = Last[index + 1]]
<1>1. /\ MemoryTypeOK /\ containers = Len(arrays) /\ Last \in Rows(max_containers)
      /\ arrays' = [arrays EXCEPT ![containers][index] = arrays[containers][index + 1]]
      /\ index \in 1..max_containers /\ index + 1 \in 1..max_containers
  BY DEF MemoryInv, remove_shift, Call, Shape, MemoryTypeOK
<1>2. row \in Rows(max_containers)
  BY <1>1 DEF Rows
<1>3. arrays' = [arrays EXCEPT ![Len(arrays)] = row]
  BY <1>1 DEF Last
<1>4. \A i \in 1..max_containers : row[i] = IF i = index THEN Last[index + 1] ELSE Last[i]
  BY <1>1 DEF Rows
<1>5. max_containers \in Nat
  BY <1>1 DEF MemoryTypeOK
<1>. HIDE DEF row
<1>. QED
  BY <1>1, <1>2, <1>3, <1>4, <1>5, StoreArray

LEMMA RemoveShiftMemory ==
    ASSUME MemoryInv, remove_shift
    PROVE  MemoryInv'
<1>. USE DEF MemoryTypeOK
<1>1. /\ pc = "shift" /\ MemoryTypeOK /\ Shape /\ \E r \in 1..index : Removing(r)
      /\ UNCHANGED <<heap, containers, container_count, max_containers, pc, entry, before>>
      /\ index < container_count /\ index' = index + 1
      /\ arrays' = [arrays EXCEPT ![containers][index] = arrays[containers][index + 1]]
  BY DEF MemoryInv, remove_shift, Call, Contents
<1>2. PICK r \in 1..index : Removing(r)
  BY <1>1
<1>3. containers = Len(arrays) /\ Last \in Rows(max_containers) /\ index \in 1..max_containers
      /\ index + 1 \in 1..max_containers
  BY <1>1 DEF Shape
<1>5. /\ arrays' \in Seq(Blocks) /\ Len(arrays') = Len(arrays) /\ Last' \in Rows(max_containers)
      /\ \A i \in 1..max_containers :
            Last'[i] = IF i = index THEN Last[index + 1] ELSE Last[i]
  BY ShiftedEntry
<1>6. \A i \in 1..container_count : i \in 1..max_containers
  BY <1>1 DEF Shape
<1>7. ASSUME NEW i \in 1..container_count
      PROVE  Last'[i] = IF i < r \/ i >= index + 1 THEN before[i] ELSE before[i + 1]
  <2>1. Last'[i] = IF i = index THEN Last[index + 1] ELSE Last[i]
    BY <1>5, <1>6
  <2>2. Last[index + 1] = before[index + 1]
    BY <1>1, <1>2 DEF Removing
  <2>3. Last[i] = IF i < r \/ i >= index THEN before[i] ELSE before[i + 1]
    BY <1>2 DEF Removing
  <2>. QED
    BY <1>1, <2>1, <2>2, <2>3
<1>8. Removing(r)' /\ r \in 1..index'
  BY <1>1, <1>2, <1>7 DEF Removing
<1>9. Shape'
  BY <1>1, <1>3, <1>5 DEF Shape
<1>10. Contents'
  BY <1>1, <1>8 DEF Contents, Adding
<1>. QED
  BY <1>1, <1>5, <1>9, <1>10 DEF MemoryInv

LEMMA RemoveCountMemory ==
    ASSUME MemoryInv, remove_count
    PROVE  /\ MemoryInv'
           /\ \E n \in DOMAIN before :
                Table' = [i \in 1..(Len(before) - 1) |->
                             IF i < n THEN before[i] ELSE before[i + 1]]
<1>. USE DEF MemoryTypeOK
<1>1. /\ pc = "shift" /\ MemoryTypeOK /\ Shape /\ \E r \in 1..index : Removing(r)
      /\ UNCHANGED <<heap, arrays, containers, max_containers>>
      /\ index >= container_count /\ container_count' = container_count - 1
      /\ pc' = "idle" /\ entry' = NoEntry /\ index' = 1 /\ before' = <<>>
  BY DEF MemoryInv, remove_count, Call, Return, Contents
<1>2. PICK r \in 1..index : Removing(r)
  BY <1>1
<1>3. index = container_count /\ container_count >= 1 /\ r \in DOMAIN before
      /\ Len(before) = container_count
  BY <1>1, <1>2 DEF Removing
<1>4. \A i \in 1..(container_count - 1) :
        /\ i \in 1..container_count /\ i + 1 \in 1..container_count
        /\ Last[i] = IF i < r THEN before[i] ELSE before[i + 1]
  BY <1>2, <1>3 DEF Removing
<1>5. containers = Len(arrays) /\ UNCHANGED Last
  BY <1>1 DEF Shape, Last
<1>6. Shape'
  BY <1>1, <1>3, <1>5 DEF Shape
<1>7. Holds(container_count - 1, heap)
  <2>1. \A i \in 1..(container_count - 1) : Last[i] \in heap
    BY <1>2, <1>3, <1>4 DEF Removing
  <2>2. \A i, j \in 1..(container_count - 1) : Last[i] = Last[j] => i = j
    BY <1>2, <1>3, <1>4 DEF Removing
  <2>3. ASSUME NEW e \in heap
        PROVE  \E i \in 1..(container_count - 1) : Last[i] = e
    <3>1. PICK k \in 1..container_count : k # r /\ before[k] = e
      BY <1>2 DEF Removing
    <3>2. CASE k < r
      BY <1>3, <1>4, <3>1, <3>2
    <3>3. CASE k > r
      <4>1. k - 1 \in 1..(container_count - 1) /\ ~(k - 1 < r) /\ (k - 1) + 1 = k
        BY <1>2, <1>3, <3>1, <3>3
      <4>. QED
        BY <1>4, <3>1, <4>1
    <3>. QED
      BY <1>2, <3>1, <3>2, <3>3
  <2>. QED
    BY <2>1, <2>2, <2>3 DEF Holds
<1>8. Contents'
  BY <1>1, <1>5, <1>7 DEF Contents, Adding, Holds
<1>9. MemoryInv'
  BY <1>1, <1>3, <1>6, <1>8 DEF MemoryInv, PCs
<1>10. Table' = [i \in 1..(container_count - 1) |-> Last[i]]
  BY <1>1, <1>5 DEF Table, Last
<1>. QED
  BY <1>3, <1>4, <1>9, <1>10

\* Behind the handler and the clean-up only the types matter.
LEMMA EndMemory ==
    ASSUME MemoryInv, signal_handler \/ container_manager_cleanup
    PROVE  MemoryInv'
<1>. USE DEF MemoryTypeOK
<1>1. /\ UNCHANGED <<arrays, containers, container_count, max_containers, entry, index>>
      /\ heap' \in SUBSET heap /\ pc' \in {"handler", "down"}
      /\ before' = IF pc = "idle" THEN Table ELSE before
  BY DEF signal_handler, container_manager_cleanup
<1>2. ASSUME pc = "idle"
      PROVE  Table \in Seq(Entries)
  BY <1>2, TableType DEF MemoryInv, Shape, Contents
<1>. QED
  BY <1>1, <1>2 DEF MemoryInv, PCs

LEMMA MemoryInit ==
    ASSUME Init
    PROVE  MemoryInv
<1>. DEFINE row == [i \in 1..InitialMax |-> NoEntry]
<1>1. row \in Rows(InitialMax) /\ InitialMax \in Nat \ {0}
  BY TableAssumption DEF Rows
<1>2. row \in Blocks
  BY <1>1, RowBlock
<1>. HIDE DEF row
<1>3. arrays = <<row>>
  BY DEF Init, row
<1>4. arrays \in Seq(Blocks) /\ Len(arrays) = 1 /\ Last = row
  BY <1>2, <1>3 DEF Last
<1>. QED
  BY <1>1, <1>4 DEF Init, MemoryInv, MemoryTypeOK, Shape, Contents, Holds, Adding, PCs

LEMMA MemoryStep ==
    ASSUME MemoryInv, [Next]_vars
    PROVE  MemoryInv'
<1>1. CASE UNCHANGED mainVars
  BY <1>1, SameMemory
<1>2. CASE AddContainer
  BY <1>2, AddBeginMemory, AddStepsMemory, AddStoreMemory DEF AddContainer
<1>3. CASE RemoveContainer
  BY <1>3, RemoveBeginMemory, RemoveShiftMemory, RemoveCountMemory, TableAssumption
     DEF RemoveContainer
<1>4. CASE GetContainerList \/ UNCHANGED vars
  BY <1>1, <1>4 DEF GetContainerList, list_count, list_array, scan_entry, scan_done,
     render_entry, render_done, vars
<1>. QED
  BY <1>2, <1>3, <1>4, EndMemory DEF Next

\* Between two calls of add_container and remove_container, nothing in the table
\* dangles, is there twice or leaks, for tables of every length and wherever the
\* signal handler strikes.
THEOREM TableStaysSound == Spec => []TableSound
<1>1. MemoryInv => TableSound
  <2>. SUFFICES ASSUME MemoryInv, pc = "idle"
                PROVE  /\ Allocated(containers)
                       /\ container_count <= max_containers
                       /\ DOMAIN arrays[containers] = 1..max_containers
                       /\ Distinct(Table)
                       /\ heap = {Table[i] : i \in DOMAIN Table}
    BY DEF TableSound
  <2>1. MemoryTypeOK /\ Shape /\ Holds(container_count, heap)
    BY DEF MemoryInv, Contents
  <2>2. containers = Len(arrays) /\ Last \in Rows(max_containers) /\ container_count <= max_containers
    BY <2>1 DEF Shape
  <2>3. Table = [i \in 1..container_count |-> Last[i]]
    BY <2>1, <2>2, TableEntries
  <2>4. Distinct(Table)
    BY <2>1, <2>3 DEF Distinct, Holds
  <2>5. heap = {Table[i] : i \in DOMAIN Table}
    BY <2>1, <2>3 DEF Holds
  <2>. QED
    BY <2>2, <2>4, <2>5 DEF Allocated, Last, Rows
<1>. QED
  BY <1>1, MemoryInit, MemoryStep, PTL DEF Spec

(***************************************************************************)
(* The signal handler.                                                     *)
(***************************************************************************)

\* At a safe point, a walk over the table meets allocated entries, each once.
LEMMA SafeWalk ==
    ASSUME MemoryInv, pc \in SafePoints
    PROVE  /\ containers = Len(arrays)
           /\ \A i \in 1..container_count : Last[i] \in heap
           /\ \A i, j \in 1..container_count : Last[i] = Last[j] => i = j
  BY DEF MemoryInv, Shape, Contents, Adding, Holds, SafePoints

LEMMA WalkTable ==
    ASSUME MemoryTypeOK, containers = Len(arrays),
           \A i \in 1..container_count : Last[i] \in heap,
           \A i, j \in 1..container_count : Last[i] = Last[j] => i = j
    PROVE  Walkable /\ Distinct(Table)
  BY TableEntries DEF Walkable, Distinct, Allocated

LEMMA HandlerStep ==
    ASSUME MemoryInv, HandlerInv, InterruptAt \subseteq SafePoints, [Next]_vars
    PROVE  HandlerInv'
<1>. USE DEF HandlerInv, HandlerSafe
<1>1. CASE AddContainer \/ RemoveContainer
  <2>1. pc' # "handler" /\ UNCHANGED fault
    BY <1>1 DEF AddContainer, RemoveContainer, add_begin, add_realloc, add_fails, add_assign,
       add_resize, add_count, add_store, remove_begin, remove_shift, remove_count, Call,
       CallTakes, Return
  <2>. QED
    BY <2>1
<1>2. CASE signal_handler
  <2>1. pc \in SafePoints
    BY <1>2 DEF signal_handler
  <2>2. Walkable
    BY <2>1, SafeWalk, WalkTable DEF MemoryInv
  <2>. QED
    BY <1>2, <2>1, <2>2, SafeWalk DEF signal_handler, Last
<1>3. CASE container_manager_cleanup
  <2>1. Walkable /\ Distinct(Table)
    BY <1>3, SafeWalk, WalkTable DEF container_manager_cleanup, MemoryInv, SafePoints
  <2>. QED
    BY <1>3, <2>1 DEF container_manager_cleanup
<1>4. CASE GetContainerList \/ UNCHANGED vars
  <2>1. UNCHANGED mainVars /\ fault' \in {fault, fault \cup {"web"}}
    BY <1>4 DEF GetContainerList, list_count, list_array, scan_entry, scan_done,
       render_entry, render_done, Follow, vars
  <2>. QED
    BY <2>1 DEF mainVars, Last
<1>. QED
  BY <1>1, <1>2, <1>3, <1>4 DEF Next

\* A signal that strikes between two calls, or inside add_container before the
\* pointer is stale and before the count runs ahead of the array, never makes the
\* handler follow a dangling pointer or free an entry twice.
THEOREM HandlerIsSafe ==
    ASSUME InterruptAt \subseteq {"idle", "realloc", "resize", "count"}
    PROVE  Spec => []HandlerSafe
<1>1. Init => HandlerInv
  BY DEF Init, HandlerInv, HandlerSafe
<1>2. MemoryInv /\ HandlerInv /\ [Next]_vars => HandlerInv'
  BY HandlerStep DEF SafePoints
<1>3. HandlerInv => HandlerSafe
  BY DEF HandlerInv
<1>. QED
  BY <1>1, <1>2, <1>3, MemoryInit, MemoryStep, PTL DEF Spec

(***************************************************************************)
(* The server thread.                                                      *)
(***************************************************************************)
LEMMA NoRequestType ==
    NoRequest \in Requests /\ NoRequest.at = "idle"
<1>1. <<>> \in Seq(Entries)
  OBVIOUS
<1>. QED
  BY <1>1 DEF NoRequest, Requests

LEMMA WebInit ==
    ASSUME Init
    PROVE  WebInv
<1>1. web = NoRequest /\ fault = {}
  BY DEF Init
<1>. QED
  BY <1>1, NoRequestType DEF WebInv, RequestSafe

\* Steps of the main thread that free no listed entry, and the handler's.
Keeps == AddContainer \/ remove_shift \/ remove_count \/ signal_handler

\* A new entry is not one that was alive before, and a failing add frees no other.
LEMMA StaysAlive ==
    ASSUME MemoryInv, Keeps, NEW x, Alive(x)
    PROVE  Alive(x)'
<1>1. CASE \E e \in Entries : add_begin(e)
  BY <1>1 DEF Alive, add_begin, Call
<1>2. CASE add_fails
  BY <1>2 DEF Alive, add_fails, Call, Return
<1>3. CASE add_realloc \/ add_assign \/ add_resize \/ add_count
  BY <1>3 DEF Alive, add_realloc, add_assign, add_resize, add_count
<1>4. CASE add_store \/ remove_shift \/ remove_count
  BY <1>4 DEF Alive, add_store, remove_shift, remove_count, Call, Return
<1>5. CASE signal_handler
  BY <1>5 DEF Alive, signal_handler
<1>. QED
  BY <1>1, <1>2, <1>3, <1>4, <1>5 DEF Keeps, AddContainer

\* The slots of a request stay alive unless the array moves or an entry is freed.
LEMMA SlotsStayAlive ==
    ASSUME MemoryInv, Collecting, Keeps, ~add_realloc, web \in Requests, web' = web
    PROVE  Collecting' /\ Len(arrays') = Len(arrays)
<1>0. web.count \in Nat /\ MemoryTypeOK
  BY DEF Requests, MemoryInv
<1>1. ASSUME UNCHANGED <<arrays, containers>>, pc' \notin {"handler", "down"} => web.count <= max_containers'
      PROVE  Collecting' /\ Len(arrays') = Len(arrays)
  <2>1. Last' = Last /\ containers' = Len(arrays')
    BY <1>1 DEF Last, Collecting
  <2>2. \A i \in 1..web.count : Alive(Last[i])'
    BY <1>1, StaysAlive, <2>1 DEF Collecting
  <2>. QED
    BY <1>1, <2>1, <2>2 DEF Collecting
<1>2. CASE (\E e \in Entries : add_begin(e)) \/ add_fails \/ add_count \/ remove_count
  <2>1. /\ UNCHANGED <<arrays, containers, max_containers>>
        /\ pc \notin {"handler", "down"}
    BY <1>2 DEF add_begin, add_fails, add_count, remove_count, Call
  <2>. QED
    BY <1>1, <2>1 DEF Collecting
<1>3. CASE add_assign
  <2>1. UNCHANGED <<arrays, max_containers>> /\ containers' = Len(arrays) /\ pc = "assign"
    BY <1>3 DEF add_assign, Call
  <2>. QED
    BY <1>1, <2>1 DEF Collecting
<1>4. CASE add_resize
  <2>1. UNCHANGED <<arrays, containers>> /\ max_containers' = 2 * max_containers /\ pc = "resize"
    BY <1>4 DEF add_resize, Call
  <2>2. web.count <= max_containers'
    BY <1>0, <2>1 DEF Collecting, MemoryTypeOK
  <2>. QED
    BY <1>1, <2>1, <2>2
<1>5. CASE signal_handler
  BY <1>1, <1>5 DEF signal_handler
<1>6. ASSUME UNCHANGED <<heap, containers, max_containers>>, Len(arrays') = Len(arrays),
             pc \notin {"handler", "down"}, pc' # "realloc",
             \A i \in 1..max_containers : Last'[i] = Last[i] \/ Last'[i] \in heap
      PROVE  Collecting' /\ Len(arrays') = Len(arrays)
  <2>1. web.count <= max_containers
    BY <1>6 DEF Collecting
  <2>2. ASSUME NEW i \in 1..web.count
        PROVE  Last'[i] \in heap'
    <3>1. i \in 1..max_containers
      BY <1>0, <2>1 DEF MemoryTypeOK
    <3>2. Last[i] \in heap
      BY DEF Collecting, Alive
    <3>. QED
      BY <1>6, <3>1, <3>2
  <2>. QED
    BY <1>6, <2>1, <2>2 DEF Collecting, Alive
<1>7. CASE add_store
  <2>1. /\ UNCHANGED <<heap, containers, max_containers>> /\ pc = "store" /\ pc' = "idle"
        /\ entry \in heap
    BY <1>7 DEF add_store, Call, Return, MemoryInv, Contents
  <2>. QED
    BY <1>6, <1>7, <2>1, StoredEntry
<1>8. CASE remove_shift
  <2>1. /\ UNCHANGED <<heap, containers, max_containers, pc>> /\ pc = "shift"
        /\ index < container_count
        /\ \E r \in 1..index : Removing(r)
    BY <1>8 DEF remove_shift, Call, MemoryInv, Contents
  <2>2. PICK r \in 1..index : Removing(r)
    BY <2>1
  <2>3. index + 1 \in 1..container_count /\ index + 1 > r /\ index + 1 # r
    BY <1>0, <2>1, <2>2 DEF MemoryTypeOK
  <2>4. Last[index + 1] \in heap
    BY <1>0, <2>2, <2>3 DEF Removing, MemoryTypeOK
  <2>. QED
    BY <1>6, <1>8, <2>1, <2>4, ShiftedEntry
<1>. QED
  BY <1>2, <1>3, <1>4, <1>5, <1>7, <1>8 DEF Keeps, AddContainer

LEMMA WebKept ==
    ASSUME MemoryInv, WebInv, Keeps
    PROVE  WebInv'
<1>1. web' = web /\ ("web" \in fault' => "web" \in fault)
  BY DEF Keeps, AddContainer, add_begin, add_realloc, add_fails, add_assign,
     add_resize, add_count, add_store, remove_shift, remove_count, signal_handler, Call, CallTakes
<1>2. /\ cause' = {} => cause = {}
      /\ cause' = {} /\ web.at \in {"array", "scan"} => ~add_realloc
  BY DEF Keeps, AddContainer, add_begin, add_realloc, add_fails, add_assign,
     add_resize, add_count, add_store, remove_shift, remove_count, signal_handler, Call, CallTakes
<1>3. web' \in Requests /\ RequestSafe'
  <2>1. cause # {} => cause' # {}
    BY <1>2
  <2>. QED
    BY <1>1, <2>1 DEF WebInv, RequestSafe
<1>4. ASSUME web.at # "idle", cause' = {}
      PROVE  Undisturbed'
  <2>1. Undisturbed /\ web \in Requests
    BY <1>2, <1>4 DEF WebInv
  <2>2. \A k \in web.next..Len(web.active) : Alive(web.active[k])'
    <3>1. \A x : Alive(x) => Alive(x)'
      BY StaysAlive
    <3>. QED
      BY <1>1, <2>1, <3>1 DEF Undisturbed
  <2>3. ASSUME web.at \in {"array", "scan"}
        PROVE  Collecting' /\ Len(arrays') = Len(arrays)
    BY <1>1, <1>2, <1>4, <2>1, <2>3, SlotsStayAlive DEF Undisturbed
  <2>. QED
    BY <1>1, <2>1, <2>2, <2>3 DEF Undisturbed
<1>. QED
  BY <1>1, <1>3, <1>4 DEF WebInv

\* The removal of an entry that no request awaits.
LEMMA WebFrees ==
    ASSUME MemoryInv, WebInv, NEW i \in Nat \ {0}, remove_begin(i)
    PROVE  WebInv'
<1>1. /\ UNCHANGED <<web, fault, arrays, containers, container_count, max_containers>>
      /\ pc = "idle" /\ pc' = "shift" /\ i <= container_count
      /\ heap' = heap \ {Table[i]}
      /\ cause' = IF Awaited(i) THEN cause \cup {"freed"} ELSE cause
  BY DEF remove_begin, CallTakes
<1>2. /\ MemoryTypeOK /\ containers = Len(arrays) /\ Holds(container_count, heap)
      /\ container_count <= max_containers
  BY <1>1 DEF MemoryInv, Shape, Contents
<1>3. i \in 1..container_count /\ Table[i] = Last[i] /\ Last' = Last
  BY <1>1, <1>2, TableEntries DEF MemoryTypeOK, Last
<1>4. web' \in Requests /\ RequestSafe'
  BY <1>1 DEF WebInv, RequestSafe
<1>5. ASSUME web.at # "idle", cause' = {}
      PROVE  Undisturbed'
  <2>1. cause = {} /\ ~Awaited(i)
    BY <1>1, <1>5
  <2>2. Undisturbed /\ web \in Requests
    BY <1>5, <2>1 DEF WebInv
  <2>3. \A x : Alive(x) /\ x # Table[i] => Alive(x)'
    BY <1>1 DEF Alive
  <2>4. \A k \in web.next..Len(web.active) : Alive(web.active[k])'
    BY <1>1, <2>1, <2>2, <2>3 DEF Undisturbed, Awaited
  <2>5. ASSUME web.at \in {"array", "scan"}
        PROVE  Collecting'
    <3>1. Collecting /\ web.count \in Nat /\ web.count < i
      BY <2>1, <2>2, <2>5 DEF Undisturbed, Awaited, Requests
    <3>2. ASSUME NEW j \in 1..web.count
          PROVE  Alive(Last[j])'
      <4>1. j \in 1..container_count /\ j # i
        BY <1>2, <1>3, <3>1 DEF MemoryTypeOK
      <4>2. Last[j] # Table[i]
        BY <1>2, <1>3, <4>1 DEF Holds
      <4>. QED
        BY <1>3, <2>3, <3>1, <4>2 DEF Collecting
    <3>. QED
      BY <1>1, <1>2, <1>3, <3>1, <3>2 DEF Collecting
  <2>. QED
    BY <1>1, <2>2, <2>4, <2>5 DEF Undisturbed
<1>. QED
  BY <1>1, <1>4, <1>5 DEF WebInv

LEMMA WebCleanup ==
    ASSUME WebInv, container_manager_cleanup
    PROVE  WebInv'
<1>1. UNCHANGED <<web, cause>> /\ ("web" \in fault' => "web" \in fault) /\ web.at = "idle"
  BY DEF container_manager_cleanup
<1>. QED
  BY <1>1 DEF WebInv, RequestSafe

\* Steps of the server thread.
LEMMA WebBegins ==
    ASSUME MemoryInv, WebInv, fault = {}, list_count
    PROVE  WebInv'
<1>1. /\ web' = [NoRequest EXCEPT !.at = "array", !.count = container_count]
      /\ cause' = IF Walkable THEN {} ELSE {"broken"}
      /\ UNCHANGED <<mainVars, fault>>
  BY DEF list_count
<1>2. MemoryTypeOK /\ container_count \in Nat
  BY DEF MemoryInv, MemoryTypeOK
<1>3. /\ web' \in Requests /\ web'.at = "array" /\ web'.count = container_count
      /\ web'.active = <<>> /\ web'.next = 1
  BY <1>1, <1>2, NoRequestType DEF Requests, NoRequest
<1>4. RequestSafe'
  BY <1>1 DEF RequestSafe
<1>5. ASSUME cause' = {}
      PROVE  Undisturbed'
  <2>1. Walkable
    BY <1>1, <1>5
  <2>2. containers = Len(arrays)
    BY <2>1 DEF Walkable, Allocated
  <2>3. \A i \in 1..container_count : Last[i] \in heap
    BY <1>2, <2>1, <2>2, TableEntries DEF Walkable
  <2>4. pc = "realloc" => \A i \in 1..container_count : Last[i] # entry
    BY DEF MemoryInv, Contents, Adding, Holds
  <2>5. pc \notin {"handler", "down"} => container_count <= max_containers
    BY DEF MemoryInv, Shape
  <2>6. UNCHANGED <<heap, arrays, containers, max_containers, pc, entry>> /\ Last' = Last
    BY <1>1 DEF mainVars, Last
  <2>7. Collecting'
    BY <1>3, <2>2, <2>3, <2>4, <2>5, <2>6 DEF Collecting, Alive
  <2>8. Len(web'.active) = 0
    BY <1>3
  <2>. QED
    BY <1>2, <1>3, <2>7, <2>8 DEF Undisturbed
<1>. QED
  BY <1>3, <1>4, <1>5 DEF WebInv

\* What the server thread does to its own variables leaves what is alive alone.
LEMMA SameAlive ==
    ASSUME UNCHANGED mainVars
    PROVE  /\ \A x : Alive(x) => Alive(x)'
           /\ UNCHANGED <<Last, arrays, containers, max_containers, pc>>
  BY DEF mainVars, Alive, Last

LEMMA SameSlots ==
    ASSUME UNCHANGED mainVars, web'.count = web.count, Collecting
    PROVE  Collecting'
  BY SameAlive DEF Collecting

LEMMA WebPointer ==
    ASSUME MemoryInv, WebInv, list_array
    PROVE  WebInv'
<1>1. /\ web.at = "array" /\ web' = [web EXCEPT !.at = "scan", !.array = containers]
      /\ UNCHANGED <<mainVars, cause, fault>>
  BY DEF list_array
<1>2. containers \in Nat
  BY DEF MemoryInv, MemoryTypeOK
<1>3. /\ web' \in Requests /\ web'.at = "scan" /\ web'.count = web.count /\ web'.array = containers
      /\ web'.active = web.active /\ web'.next = web.next
  BY <1>1, <1>2 DEF WebInv, Requests
<1>4. RequestSafe'
  BY <1>1 DEF RequestSafe, WebInv
<1>5. ASSUME cause = {}
      PROVE  Undisturbed'
  <2>1. Undisturbed /\ Collecting
    BY <1>1, <1>5 DEF WebInv, Undisturbed
  <2>2. Collecting' /\ web'.array = Len(arrays')
    BY <1>1, <1>3, <2>1, SameSlots, SameAlive DEF Collecting
  <2>3. \A k \in web.next..Len(web.active) : Alive(web.active[k])'
    BY <1>1, <2>1, SameAlive DEF Undisturbed
  <2>. QED
    BY <1>3, <2>1, <2>2, <2>3 DEF Undisturbed
<1>. QED
  BY <1>1, <1>3, <1>4, <1>5 DEF WebInv

\* The request goes on with new local variables, or is over.
LEMMA WebGoesOn ==
    ASSUME WebInv, fault = {}, UNCHANGED <<mainVars, cause>>,
           NEW ok, NEW w, Follow(ok, w), web.at \in {"scan", "render"},
           cause = {} => ok,
           ok => /\ w \in Requests
                 /\ w.at = web.at /\ w.count = web.count /\ w.array = web.array
                 /\ cause = {} => /\ Len(w.active) <= web.count
                                  /\ w.at = "render" => w.active = web.active
                                  /\ \A k \in w.next..Len(w.active) : Alive(w.active[k])
    PROVE  WebInv'
<1>1. CASE ok
  <2>1. web' = w /\ fault' = fault
    BY <1>1 DEF Follow
  <2>2. web' \in Requests /\ RequestSafe'
    BY <1>1, <2>1 DEF RequestSafe
  <2>3. ASSUME cause = {}
        PROVE  Undisturbed'
    <3>1. Undisturbed
      BY <2>3 DEF WebInv
    <3>2. \A k \in w.next..Len(w.active) : Alive(w.active[k])'
      BY <1>1, <2>3, SameAlive
    <3>3. w.at \in {"array", "scan"} => Collecting'
      BY <1>1, <2>1, <3>1, SameSlots DEF Undisturbed
    <3>4. arrays' = arrays
      BY SameAlive
    <3>. QED
      BY <1>1, <2>1, <2>3, <3>1, <3>2, <3>3, <3>4 DEF Undisturbed
  <2>. QED
    BY <2>2, <2>3 DEF WebInv
<1>2. CASE ~ok
  <2>1. web' = NoRequest /\ cause # {} /\ cause' = cause
    BY <1>2 DEF Follow
  <2>. QED
    BY <2>1, NoRequestType DEF WebInv, RequestSafe
<1>. QED
  BY <1>1, <1>2

LEMMA WebScans ==
    ASSUME MemoryInv, WebInv, fault = {}, scan_entry
    PROVE  WebInv'
<1>. DEFINE e == arrays[web.array][Len(web.active) + 1]
            ok == Allocated(web.array) /\ e \in heap
            w == [web EXCEPT !.active = Append(@, e)]
<1>1. /\ web.at = "scan" /\ Len(web.active) < web.count
      /\ Follow(ok, w) /\ UNCHANGED <<mainVars, cause>>
  BY DEF scan_entry
<1>2. /\ web.active \in Seq(Entries) /\ web.count \in Nat /\ web.next \in Nat \ {0}
      /\ web \in Requests
  BY DEF WebInv, Requests
<1>3. ASSUME cause = {}
      PROVE  ok /\ Alive(e)
  <2>1. Undisturbed /\ Collecting
    BY <1>1, <1>3 DEF WebInv, Undisturbed
  <2>2. web.array = Len(arrays) /\ Len(web.active) + 1 \in 1..web.count
    BY <1>1, <1>2, <2>1 DEF Undisturbed
  <2>3. e = Last[Len(web.active) + 1]
    BY <2>2 DEF Last
  <2>4. Alive(e)
    BY <2>1, <2>2, <2>3 DEF Collecting
  <2>. QED
    BY <2>2, <2>4 DEF Allocated, Alive
<1>4. ASSUME ok
      PROVE  /\ w \in Requests
             /\ w.at = web.at /\ w.count = web.count /\ w.array = web.array
             /\ w.next = web.next
             /\ w.active = Append(web.active, e)
  <2>1. e \in Entries
    BY <1>4 DEF MemoryInv, MemoryTypeOK
  <2>2. Append(web.active, e) \in Seq(Entries)
    BY <1>2, <2>1
  <2>. HIDE DEF e
  <2>. QED
    BY <1>2, <2>2 DEF Requests
<1>5. ASSUME ok, cause = {}
      PROVE  /\ Len(w.active) <= web.count
             /\ \A k \in w.next..Len(w.active) : Alive(w.active[k])
  <2>1. \A k \in web.next..Len(web.active) : Alive(web.active[k])
    BY <1>1, <1>5 DEF WebInv, Undisturbed
  <2>2. Alive(e) /\ w.active = Append(web.active, e) /\ w.next = web.next
    BY <1>3, <1>4, <1>5
  <2>. HIDE DEF e, w
  <2>3. /\ Len(w.active) = Len(web.active) + 1
        /\ \A k \in 1..Len(web.active) : w.active[k] = web.active[k]
        /\ w.active[Len(web.active) + 1] = e
    BY <1>2, <2>2
  <2>. QED
    BY <1>1, <1>2, <2>1, <2>2, <2>3
<1>6. cause = {} => ok
  BY <1>3
<1>. HIDE DEF ok, w
<1>. QED
  BY <1>1, <1>4, <1>5, <1>6, WebGoesOn

LEMMA WebRenders ==
    ASSUME MemoryInv, WebInv, fault = {}, render_entry
    PROVE  WebInv'
<1>. DEFINE ok == web.active[web.next] \in heap
            w == [web EXCEPT !.next = @ + 1]
<1>1. /\ web.at = "render" /\ web.next <= web.count
      /\ Follow(ok, w) /\ UNCHANGED <<mainVars, cause>>
  BY DEF render_entry
<1>2. web \in Requests /\ web.next \in Nat \ {0} /\ web.count \in Nat
  BY DEF WebInv, Requests
<1>3. ASSUME cause = {}
      PROVE  /\ Len(web.active) = web.count
             /\ \A k \in web.next..web.count : Alive(web.active[k])
  BY <1>1, <1>3 DEF WebInv, Undisturbed
<1>4. /\ w \in Requests
      /\ w.at = web.at /\ w.count = web.count /\ w.array = web.array
      /\ w.active = web.active /\ w.next = web.next + 1
  BY <1>2 DEF Requests
<1>5. cause = {} => ok
  BY <1>1, <1>2, <1>3 DEF Alive
<1>6. ASSUME cause = {}
      PROVE  /\ Len(w.active) <= web.count
             /\ \A k \in w.next..Len(w.active) : Alive(w.active[k])
  BY <1>2, <1>3, <1>4, <1>6
<1>. HIDE DEF ok, w
<1>. QED
  BY <1>1, <1>4, <1>5, <1>6, WebGoesOn

LEMMA WebTurns ==
    ASSUME WebInv, fault = {}, scan_done \/ render_done
    PROVE  WebInv'
<1>1. UNCHANGED <<mainVars, fault>>
  BY DEF scan_done, render_done
<1>2. CASE render_done
  <2>1. web' = NoRequest
    BY <1>2 DEF render_done
  <2>. QED
    BY <1>1, <2>1, NoRequestType DEF WebInv, RequestSafe
<1>3. CASE scan_done
  <2>1. /\ web.at = "scan" /\ Len(web.active) = web.count /\ cause' = cause
        /\ web' = [web EXCEPT !.at = "render"]
    BY <1>3 DEF scan_done
  <2>2. /\ web' \in Requests /\ web'.at = "render" /\ web'.count = web.count
        /\ web'.next = web.next /\ web'.active = web.active
    BY <2>1 DEF WebInv, Requests
  <2>3. ASSUME cause = {}
        PROVE  Undisturbed'
    <3>1. \A k \in web.next..Len(web.active) : Alive(web.active[k])'
      BY <1>1, <2>1, <2>3, SameAlive DEF WebInv, Undisturbed
    <3>2. web.count \in Nat
      BY DEF WebInv, Requests
    <3>. QED
      BY <2>1, <2>2, <3>1, <3>2 DEF Undisturbed
  <2>. QED
    BY <1>1, <2>1, <2>2, <2>3 DEF WebInv, RequestSafe
<1>. QED
  BY <1>2, <1>3

LEMMA WebStep ==
    ASSUME MemoryInv, WebInv, [Next]_vars
    PROVE  WebInv'
<1>1. CASE UNCHANGED vars
  <2>1. UNCHANGED <<mainVars, web, cause, fault>>
    BY <1>1 DEF vars
  <2>2. UNCHANGED <<heap, arrays, containers, max_containers, pc, entry>>
    BY <2>1 DEF mainVars
  <2>3. Undisturbed => Undisturbed'
    BY <2>1, <2>2 DEF Undisturbed, Collecting, Alive, Last
  <2>. QED
    BY <2>1, <2>3 DEF WebInv, RequestSafe
<1>2. CASE Next /\ GetContainerList
  BY <1>2, WebBegins, WebPointer, WebScans, WebRenders, WebTurns DEF Next, GetContainerList
<1>3. CASE \E i \in 1..MaxArray : remove_begin(i)
  BY <1>3, WebFrees, TableAssumption
<1>. QED
  BY <1>1, <1>2, <1>3, WebKept, WebCleanup DEF Next, Keeps, RemoveContainer

\* The server thread meets freed or empty memory only in a request that began on a
\* broken table, whose array was moved while it was collecting, or that lost an
\* entry it was still to read: every other overlap with add_container,
\* remove_container and the signal handler is harmless, for tables of every length
\* and wherever signals strike.
THEOREM RequestsAreSafe == Spec => []RequestSafe
<1>1. WebInv => RequestSafe
  BY DEF WebInv
<1>. QED
  BY <1>1, MemoryInit, MemoryStep, WebInit, WebStep, PTL DEF Spec

(***************************************************************************)
(* The table implements TableSpec.                                         *)
(***************************************************************************)
Listed == IF pc = "idle" THEN Table ELSE before

\* A step that leaves the memory alone leaves the list alone.
LEMMA ListUnchanged ==
    ASSUME UNCHANGED <<arrays, containers, container_count>>,
           \/ UNCHANGED <<pc, before>>
           \/ pc' # "idle" /\ before' = Listed
    PROVE  Listed' = Listed
<1>1. Table' = Table
  BY DEF Table
<1>. QED
  BY <1>1 DEF Listed

LEMMA ListInAdd ==
    ASSUME MemoryInv, AddContainer, ~add_store
    PROVE  Listed' = Listed
<1>1. CASE \E e \in Entries : add_begin(e)
  BY <1>1, ListUnchanged DEF add_begin, Call, Listed
<1>2. CASE add_realloc \/ add_assign \/ add_resize \/ add_count
  BY <1>2 DEF add_realloc, add_assign, add_resize, add_count, Call, CallTakes, Listed
<1>3. CASE add_fails
  <2>1. /\ pc = "realloc" /\ pc' = "idle" /\ MemoryTypeOK /\ Shape
        /\ Began(container_count) /\ Holds(container_count, heap \ {entry})
        /\ UNCHANGED <<arrays, containers, container_count>>
    BY <1>3 DEF add_fails, Call, Return, MemoryInv, Contents, Adding
  <2>2. containers = Len(arrays) /\ before \in Seq(Entries) /\ container_count \in Nat
    BY <2>1 DEF Shape, MemoryTypeOK
  <2>3. Table = [i \in 1..container_count |-> Last[i]]
    BY <2>2 DEF Table, Last
  <2>4. \A i \in 1..container_count : Last[i] \in Entries
    BY <2>1 DEF Holds, MemoryTypeOK
  <2>5. Table \in Seq(Entries) /\ Len(Table) = container_count
    BY <2>2, <2>3, <2>4
  <2>6. Table = before
    BY <2>1, <2>2, <2>3, <2>5, SeqEqual DEF Began
  <2>7. Table' = Table
    BY <2>1 DEF Table
  <2>. QED
    BY <2>1, <2>6, <2>7 DEF Listed
<1>. QED
  BY <1>1, <1>2, <1>3 DEF AddContainer

LEMMA ListStep ==
    ASSUME MemoryInv, [Next]_vars
    PROVE  \/ Listed' = Listed
           \/ /\ entry \in Entries /\ Listed' = Append(Listed, entry)
              /\ \A i \in DOMAIN Listed : Listed[i] # entry
           \/ \E n \in DOMAIN Listed :
                 Listed' = [i \in 1..(Len(Listed) - 1) |->
                               IF i < n THEN Listed[i] ELSE Listed[i + 1]]
<1>1. CASE add_store
  <2>1. /\ pc = "store" /\ pc' = "idle" /\ MemoryTypeOK /\ entry \in heap
        /\ Holds(container_count - 1, heap \ {entry}) /\ Began(container_count - 1)
    BY <1>1 DEF add_store, Call, Return, MemoryInv, Contents
  <2>2. Listed = before /\ Listed' = Append(before, entry) /\ entry \in Entries
    BY <1>1, <2>1, AddStoreMemory DEF Listed, MemoryTypeOK
  <2>3. DOMAIN before = 1..(container_count - 1)
    BY <2>1 DEF Began, MemoryTypeOK
  <2>4. \A i \in DOMAIN before : before[i] # entry
    BY <2>1, <2>3 DEF Began, Holds
  <2>. QED
    BY <2>2, <2>4
<1>2. CASE AddContainer /\ ~add_store
  BY <1>2, ListInAdd
<1>3. CASE remove_count
  <2>1. pc = "shift" /\ pc' = "idle"
    BY <1>3 DEF remove_count, Call, Return
  <2>2. Listed = before /\ Listed' = Table'
    BY <2>1 DEF Listed
  <2>. QED
    BY <1>3, <2>2, RemoveCountMemory
<1>4. CASE \E i \in 1..MaxArray : remove_begin(i)
  BY <1>4, ListUnchanged DEF remove_begin, CallTakes, Listed
<1>5. CASE remove_shift
  BY <1>5 DEF remove_shift, Call, Listed
<1>6. CASE signal_handler \/ container_manager_cleanup
  BY <1>6, ListUnchanged DEF signal_handler, container_manager_cleanup, Listed
<1>7. CASE GetContainerList \/ UNCHANGED vars
  <2>1. UNCHANGED mainVars
    BY <1>7 DEF GetContainerList, list_count, list_array, scan_entry, scan_done,
       render_entry, render_done, vars
  <2>. QED
    BY <2>1, ListUnchanged DEF mainVars
<1>. QED
  BY <1>1, <1>2, <1>3, <1>4, <1>5, <1>6, <1>7 DEF Next, RemoveContainer

\* The stores of add_container and remove_container amount to an append of a new
\* entry and to the removal of one entry that keeps the order of the others; the
\* failed realloc, the signal handler and the readers leave the list as it is.
THEOREM TableImplemented == Spec => ImplementsTable
<1>1. Init => TS!Init
  <2>1. ASSUME Init
        PROVE  Table = <<>>
    BY <2>1 DEF Init, Table
  <2>. QED
    BY <2>1 DEF Init, TS!Init
<1>2. ASSUME MemoryInv, [Next]_vars
      PROVE  [TS!Next]_Listed
  <2>1. CASE Listed' = Listed
    BY <2>1
  <2>2. CASE /\ entry \in Entries /\ Listed' = Append(Listed, entry)
             /\ \A i \in DOMAIN Listed : Listed[i] # entry
    BY <2>2 DEF TS!Next, TS!Add, TS!Members, Listed
  <2>3. CASE \E n \in DOMAIN Listed :
                Listed' = [i \in 1..(Len(Listed) - 1) |->
                              IF i < n THEN Listed[i] ELSE Listed[i + 1]]
    BY <2>3 DEF TS!Next, TS!Remove, TS!Without, Listed
  <2>. QED
    BY <1>2, <2>1, <2>2, <2>3, ListStep
<1>. QED
  BY <1>1, <1>2, MemoryInit, MemoryStep, PTL DEF Spec, ImplementsTable, TS!Spec, Listed

(***************************************************************************)
(* The state file: what load_state computes.                               *)
(***************************************************************************)

\* Induction up to n over a set of numbers.
LEMMA UpTo ==
    ASSUME NEW n \in Nat, NEW S, 0 \in S,
           \A k \in 0..n : k < n /\ k \in S => k + 1 \in S
    PROVE  \A k \in 0..n : k \in S
<1>. SUFFICES ASSUME NEW b \in 0..n, b \notin S
              PROVE  FALSE
  OBVIOUS
<1>. DEFINE R == OpToRel(<, Nat)
            D == {k \in 0..n : k \notin S}
<1>1. IsWellFoundedOn(R, Nat)
  BY NatLessThanWellFounded
<1>2. \A i, j \in Nat : <<i, j>> \in R <=> i < j
  BY DEF OpToRel
<1>3. D \subseteq Nat /\ D # {}
  OBVIOUS
<1>. HIDE DEF R
<1>4. PICK d \in D : \A e \in D : ~(<<e, d>> \in R)
  <2>. HIDE DEF D
  <2>. QED BY <1>1, <1>3, WFMin
<1>5. \A e \in D : ~(e < d)
  BY <1>2, <1>3, <1>4
<1>6. d # 0 /\ d \in 0..n /\ d \notin S
  BY <1>4
<1>7. d - 1 \in 0..n /\ d - 1 < n /\ d - 1 < d
  BY <1>6
<1>8. d - 1 \in S
  BY <1>5, <1>7
<1>. QED
  BY <1>6, <1>7, <1>8

\* The local variables of load_state before the first line.
Fresh == [fields |-> Blank, table |-> <<>>]

\* g holds the local variables behind each of the first n lines of f.
Read(f, alive, n, g) ==
    g = [k \in 0..n |-> IF k = 0 THEN Fresh ELSE Scan(g[k - 1], f[k], alive)]

\* The loop over the lines is defined for every file.
LEMMA LoopDefined ==
    ASSUME NEW f, Len(f) \in Nat, NEW alive
    PROVE  \E g : Read(f, alive, Len(f), g)
<1>. DEFINE S == {n \in 0..Len(f) : \E g : Read(f, alive, n, g)}
<1>1. 0 \in S
  <2>. DEFINE g == [k \in 0..0 |-> Fresh]
              e(k) == IF k = 0 THEN Fresh ELSE Scan(g[k - 1], f[k], alive)
  <2>1. \A k \in 0..0 : e(k) = Fresh
    OBVIOUS
  <2>2. g = [k \in 0..0 |-> e(k)]
    <3>. HIDE DEF e
    <3>. QED
      BY <2>1
  <2>3. Read(f, alive, 0, g)
    BY <2>2, Zenon DEF Read
  <2>. QED
    BY <2>3
<1>2. ASSUME NEW n \in 0..Len(f), n < Len(f), n \in S
      PROVE  n + 1 \in S
  <2>1. PICK g : Read(f, alive, n, g)
    BY <1>2
  <2>. DEFINE h == [k \in 0..(n + 1) |-> IF k = n + 1 THEN Scan(g[n], f[n + 1], alive) ELSE g[k]]
              e(k) == IF k = 0 THEN Fresh ELSE Scan(h[k - 1], f[k], alive)
  <2>2. \A k \in 0..n : g[k] = IF k = 0 THEN Fresh ELSE Scan(g[k - 1], f[k], alive)
    BY <2>1 DEF Read
  <2>3. ASSUME NEW k \in 0..(n + 1)
        PROVE  h[k] = e(k)
    <3>1. CASE k = n + 1
      <4>1. k # 0 /\ k - 1 = n /\ n \in 0..(n + 1) /\ n # n + 1
        BY <3>1
      <4>. QED
        BY <3>1, <4>1
    <3>2. CASE k # n + 1 /\ k # 0
      <4>1. k \in 0..n /\ k - 1 \in 0..(n + 1) /\ k - 1 # n + 1
        BY <3>2
      <4>. QED
        BY <2>2, <3>2, <4>1
    <3>3. CASE k # n + 1 /\ k = 0
      BY <2>2, <3>3
    <3>. QED
      BY <3>1, <3>2, <3>3
  <2>4. h = [k \in 0..(n + 1) |-> e(k)]
    <3>. HIDE DEF e
    <3>. QED
      BY <2>3
  <2>5. Read(f, alive, n + 1, h)
    BY <2>4, Zenon DEF Read
  <2>6. n + 1 \in 0..Len(f)
    BY <1>2
  <2>. HIDE DEF h
  <2>. QED
    BY <2>5, <2>6
<1>3. Len(f) \in S
  <2>. HIDE DEF S
  <2>1. \A k \in 0..Len(f) : k < Len(f) /\ k \in S => k + 1 \in S
    BY <1>2
  <2>2. \A k \in 0..Len(f) : k \in S
    BY <1>1, <2>1, UpTo
  <2>. QED
    BY <2>2
<1>. QED
  BY <1>3

\* Every line is read once, in order.
LineByLine(f, alive, g) == \A n \in 1..Len(f) : g[n] = Scan(g[n - 1], f[n], alive)

\* load_state reads the file line by line.
LEMMA LoadReads ==
    ASSUME NEW f, Len(f) \in Nat, NEW alive
    PROVE  \E g : /\ g[0] = Fresh /\ LineByLine(f, alive, g)
                  /\ load_state(f, alive) = g[Len(f)].table
<1>. DEFINE L == CHOOSE g : g = [k \in 0..Len(f) |-> IF k = 0 THEN [fields |-> Blank, table |-> <<>>]
                                                     ELSE Scan(g[k - 1], f[k], alive)]
<1>1. L = [k \in 0..Len(f) |-> IF k = 0 THEN [fields |-> Blank, table |-> <<>>]
                               ELSE Scan(L[k - 1], f[k], alive)]
  <2>1. \E g : g = [k \in 0..Len(f) |-> IF k = 0 THEN [fields |-> Blank, table |-> <<>>]
                                        ELSE Scan(g[k - 1], f[k], alive)]
    BY LoopDefined, Zenon DEF Read, Fresh
  <2>. QED
    BY <2>1, Zenon
<1>2. load_state(f, alive) = L[Len(f)].table
  BY Zenon DEF load_state
<1>. HIDE DEF L
<1>3. L[0] = Fresh /\ LineByLine(f, alive, L)
  BY <1>1 DEF Fresh, LineByLine
<1>. QED
  BY <1>2, <1>3

(***************************************************************************)
(* The shape of the file.                                                  *)
(***************************************************************************)
AllLines == [kind : {"id", "pid", "end", "junk"}, value : Nat]

\* The records the manager makes.
Made == {<<x, x>> : x \in Ids}

\* The file is made of records, of which the last may be cut short and of which
\* any may have lost the line with the id.
Regular(f) ==
    /\ f \in Seq(AllLines)
    /\ \A j \in Nat : 3 * j + 1 <= Len(f) =>
          \/ f[3 * j + 1].kind = "junk"
          \/ f[3 * j + 1].kind = "id" /\ f[3 * j + 1].value \in Ids
    /\ \A j \in Nat : 3 * j + 2 <= Len(f) =>
          /\ f[3 * j + 2].kind = "pid"
          /\ f[3 * j + 1].kind = "id" => f[3 * j + 2].value = f[3 * j + 1].value
    /\ \A j \in Nat : 3 * j + 3 <= Len(f) => f[3 * j + 3].kind = "end"

\* The local variables behind the id and behind the pid of x.
At(fields, t) == [fields |-> fields, table |-> t]
IdRead(x) == [in |-> TRUE, id |-> x, pid |-> 0]
BothRead(x) == [in |-> TRUE, id |-> x, pid |-> x]

LEMMA ScanId ==
    ASSUME NEW line, NEW alive, NEW t, NEW x, line.kind = "id", line.value = x
    PROVE  Scan(At(Blank, t), line, alive) = At(IdRead(x), t)
  BY DEF Scan, At, Blank, IdRead, Takes

LEMMA ScanPid ==
    ASSUME NEW line, NEW alive, NEW t, NEW x, line.kind = "pid", line.value = x
    PROVE  Scan(At(IdRead(x), t), line, alive) = At(BothRead(x), t)
  BY DEF Scan, At, IdRead, BothRead, Takes

LEMMA ScanEnd ==
    ASSUME NEW line, NEW alive, NEW t, NEW x \in Ids, line.kind = "end"
    PROVE  Scan(At(BothRead(x), t), line, alive)
              = At(Blank, IF x \in alive THEN Append(t, <<x, x>>) ELSE t)
<1>1. x # 0
  BY StateFileAssumption
<1>. QED
  BY <1>1 DEF Scan, At, BothRead, Takes, EndOfRecord

\* Without an id nothing is read.
LEMMA ScanOther ==
    ASSUME NEW line, NEW alive, NEW t, line.kind # "id"
    PROVE  Scan(At(Blank, t), line, alive) = At(Blank, t)
  BY DEF Scan, At, Blank, Takes

\* The table behind a record that begins with this line.
Extended(t, line, alive) ==
    IF line.kind = "id" /\ line.value \in alive THEN Append(t, <<line.value, line.value>>) ELSE t

LEMMA RecordStep ==
    ASSUME NEW f, Regular(f), NEW alive, NEW g,
           LineByLine(f, alive, g),
           NEW j \in Nat, NEW t, g[3 * j] = At(Blank, t)
    PROVE  /\ 3 * j + 1 <= Len(f) => g[3 * j + 1].table = t
           /\ 3 * j + 2 <= Len(f) => g[3 * j + 2].table = t
           /\ 3 * j + 3 <= Len(f) => g[3 * j + 3] = At(Blank, Extended(t, f[3 * j + 1], alive))
<1>. DEFINE a == f[3 * j + 1]
            b == f[3 * j + 2]
            c == f[3 * j + 3]
            x == a.value
<1>0. Len(f) \in Nat
  BY DEF Regular
<1>1. ASSUME 3 * j + 1 <= Len(f)
      PROVE  /\ g[3 * j + 1] = Scan(At(Blank, t), a, alive)
             /\ a.kind = "junk" \/ (a.kind = "id" /\ x \in Ids)
  <2>1. 3 * j + 1 \in 1..Len(f) /\ (3 * j + 1) - 1 = 3 * j
    BY <1>0, <1>1
  <2>. QED
    BY <1>1, <2>1 DEF Regular, LineByLine
<1>2. ASSUME 3 * j + 2 <= Len(f)
      PROVE  /\ g[3 * j + 2] = Scan(g[3 * j + 1], b, alive)
             /\ b.kind = "pid" /\ (a.kind = "id" => b.value = x)
             /\ 3 * j + 1 <= Len(f)
  <2>1. 3 * j + 2 \in 1..Len(f) /\ (3 * j + 2) - 1 = 3 * j + 1
    BY <1>0, <1>2
  <2>. QED
    BY <1>0, <1>2, <2>1 DEF Regular, LineByLine
<1>3. ASSUME 3 * j + 3 <= Len(f)
      PROVE  /\ g[3 * j + 3] = Scan(g[3 * j + 2], c, alive)
             /\ c.kind = "end"
             /\ 3 * j + 2 <= Len(f)
  <2>1. 3 * j + 3 \in 1..Len(f) /\ (3 * j + 3) - 1 = 3 * j + 2
    BY <1>0, <1>3
  <2>. QED
    BY <1>0, <1>3, <2>1 DEF Regular, LineByLine
<1>4. At(Blank, t).table = t /\ At(IdRead(x), t).table = t /\ At(BothRead(x), t).table = t
  BY DEF At
<1>. HIDE DEF a, b, c, x
<1>5. CASE 3 * j + 1 <= Len(f) /\ a.kind = "id"
  <2>1. x \in Ids /\ a.value = x
    BY <1>1, <1>5 DEF x
  <2>2. g[3 * j + 1] = At(IdRead(x), t)
    <3>1. Scan(At(Blank, t), a, alive) = At(IdRead(x), t)
      BY <1>5, <2>1, ScanId
    <3>. QED
      BY <1>1, <1>5, <3>1
  <2>3. ASSUME 3 * j + 2 <= Len(f)
        PROVE  g[3 * j + 2] = At(BothRead(x), t)
    <3>1. b.kind = "pid" /\ b.value = x
      BY <1>2, <1>5, <2>3
    <3>2. Scan(At(IdRead(x), t), b, alive) = At(BothRead(x), t)
      BY <3>1, ScanPid
    <3>. QED
      BY <1>2, <2>2, <2>3, <3>2
  <2>4. ASSUME 3 * j + 3 <= Len(f)
        PROVE  g[3 * j + 3] = At(Blank, IF x \in alive THEN Append(t, <<x, x>>) ELSE t)
    <3>1. Scan(At(BothRead(x), t), c, alive) = At(Blank, IF x \in alive THEN Append(t, <<x, x>>) ELSE t)
      BY <1>3, <2>1, <2>4, ScanEnd
    <3>. QED
      BY <1>3, <2>3, <2>4, <3>1
  <2>. QED
    BY <1>4, <1>5, <2>2, <2>3, <2>4 DEF a, x, Extended
<1>6. CASE 3 * j + 1 <= Len(f) /\ a.kind = "junk"
  <2>1. \A line : line.kind # "id" => Scan(At(Blank, t), line, alive) = At(Blank, t)
    BY ScanOther
  <2>2. g[3 * j + 1] = At(Blank, t)
    BY <1>1, <1>6, <2>1
  <2>3. 3 * j + 2 <= Len(f) => g[3 * j + 2] = At(Blank, t)
    BY <1>2, <1>6, <2>1, <2>2
  <2>4. 3 * j + 3 <= Len(f) => g[3 * j + 3] = At(Blank, t)
    BY <1>3, <1>6, <2>1, <2>3
  <2>. QED
    BY <1>4, <1>6, <2>2, <2>3, <2>4 DEF a, Extended
<1>7. CASE ~(3 * j + 1 <= Len(f))
  BY <1>0, <1>7
<1>. QED
  BY <1>1, <1>5, <1>6, <1>7

LEMMA Thirds ==
    ASSUME NEW n \in Nat
    PROVE  \E q \in Nat : 3 * q <= n /\ n < 3 * q + 3
<1>. DEFINE S == {k \in 0..n : \E q \in Nat : 3 * q <= k /\ k < 3 * q + 3}
<1>1. 0 \in S
  OBVIOUS
<1>2. ASSUME NEW k \in 0..n, k < n, k \in S
      PROVE  k + 1 \in S
  <2>1. PICK q \in Nat : 3 * q <= k /\ k < 3 * q + 3
    BY <1>2
  <2>2. \/ 3 * q <= k + 1 /\ k + 1 < 3 * q + 3
        \/ 3 * (q + 1) <= k + 1 /\ k + 1 < 3 * (q + 1) + 3
    BY <2>1
  <2>3. q + 1 \in Nat
    OBVIOUS
  <2>4. \E p \in Nat : 3 * p <= k + 1 /\ k + 1 < 3 * p + 3
    BY <2>2, <2>3, Zenon
  <2>. QED
    BY <1>2, <2>4
<1>3. n \in S
  <2>. HIDE DEF S
  <2>1. \A k \in 0..n : k < n /\ k \in S => k + 1 \in S
    BY <1>2
  <2>2. \A k \in 0..n : k \in S
    BY <1>1, <2>1, UpTo
  <2>. QED
    BY <2>2
<1>. QED
  BY <1>3

\* No two records of the file have the same id.
DistinctIds(f) ==
    \A j, k \in Nat :
        (/\ 3 * j + 1 <= Len(f) /\ 3 * k + 1 <= Len(f)
         /\ f[3 * j + 1].kind = "id" /\ f[3 * k + 1].kind = "id"
         /\ f[3 * j + 1].value = f[3 * k + 1].value) => j = k

\* A table without a duplicate.
Once(t) == \A i, j \in 1..Len(t) : t[i] = t[j] => i = j

\* Entry r is one of the first n records of the file and its process lives.
FromFile(f, alive, n, r) ==
    \E k \in Nat : /\ k < n /\ f[3 * k + 1].kind = "id" /\ f[3 * k + 1].value \in alive
                   /\ r = <<f[3 * k + 1].value, f[3 * k + 1].value>>

LEMMA AppendFacts ==
    ASSUME NEW T, NEW t \in Seq(T), NEW e \in T
    PROVE  /\ Append(t, e) \in Seq(T)
           /\ Len(t) \in Nat /\ Len(Append(t, e)) = Len(t) + 1
           /\ \A i \in 1..Len(t) : Append(t, e)[i] = t[i]
           /\ Append(t, e)[Len(t) + 1] = e
  OBVIOUS

\* What load_state has added behind n records, and behind the last whole one.
LEMMA LoadedRecords ==
    ASSUME NEW f, Regular(f), NEW alive
    PROVE  /\ load_state(f, alive) \in Seq(Made)
           /\ \A i \in 1..Len(load_state(f, alive)) : load_state(f, alive)[i][1] \in alive
           /\ DistinctIds(f) => Once(load_state(f, alive))
<1>. DEFINE Good(n, t) == /\ t \in Seq(Made)
                          /\ \A i \in 1..Len(t) : FromFile(f, alive, n, t[i])
                          /\ DistinctIds(f) => Once(t)
<1>0. Len(f) \in Nat
  BY DEF Regular
<1>1. PICK g : /\ g[0] = Fresh /\ LineByLine(f, alive, g)
               /\ load_state(f, alive) = g[Len(f)].table
  BY <1>0, LoadReads
<1>2. PICK q \in Nat : 3 * q <= Len(f) /\ Len(f) < 3 * q + 3
  BY <1>0, Thirds
<1>. DEFINE S == {n \in 0..q : \E t : g[3 * n] = At(Blank, t) /\ Good(n, t)}
<1>3. 0 \in S
  <2>1. g[3 * 0] = At(Blank, <<>>)
    BY <1>1 DEF Fresh, At
  <2>2. Good(0, <<>>)
    BY DEF Once
  <2>3. \E t : g[3 * 0] = At(Blank, t) /\ Good(0, t)
    BY <2>1, <2>2, Zenon
  <2>. QED
    BY <1>2, <2>3
<1>4. ASSUME NEW n \in 0..q, n < q, n \in S
      PROVE  n + 1 \in S
  <2>1. PICK t : g[3 * n] = At(Blank, t) /\ Good(n, t)
    BY <1>4
  <2>. DEFINE x == f[3 * n + 1].value
              kind == f[3 * n + 1].kind
              u == Extended(t, f[3 * n + 1], alive)
  <2>2. n \in Nat /\ 3 * n + 3 <= Len(f) /\ 3 * n + 1 <= Len(f) /\ 3 * (n + 1) = 3 * n + 3
    BY <1>0, <1>2, <1>4
  <2>3. g[3 * n + 3] = At(Blank, u)
    BY <1>1, <2>1, <2>2, RecordStep
  <2>4. \A r : FromFile(f, alive, n, r) => FromFile(f, alive, n + 1, r)
    BY <2>2 DEF FromFile
  <2>5. Good(n + 1, u)
    <3>1. CASE ~(kind = "id" /\ x \in alive)
      BY <2>1, <2>4, <3>1 DEF Extended
    <3>2. CASE kind = "id" /\ x \in alive
      <4>1. x \in Ids /\ u = Append(t, <<x, x>>)
        BY <2>2, <3>2 DEF Regular, Extended
      <4>2. <<x, x>> \in Made /\ t \in Seq(Made)
        BY <2>1, <4>1 DEF Made
      <4>3. /\ u \in Seq(Made) /\ Len(t) \in Nat /\ Len(u) = Len(t) + 1
            /\ \A i \in 1..Len(t) : u[i] = t[i]
            /\ u[Len(t) + 1] = <<x, x>>
        BY <4>1, <4>2, AppendFacts
      <4>4. FromFile(f, alive, n + 1, <<x, x>>)
        <5>1. n < n + 1
          BY <2>2
        <5>. QED
          BY <2>2, <3>2, <5>1, Zenon DEF FromFile
      <4>5. ASSUME DistinctIds(f), NEW i \in 1..Len(t)
            PROVE  t[i] # <<x, x>>
        <5>1. PICK k \in Nat : /\ k < n /\ f[3 * k + 1].kind = "id"
                               /\ t[i] = <<f[3 * k + 1].value, f[3 * k + 1].value>>
          BY <2>1, <4>5 DEF FromFile
        <5>2. 3 * k + 1 <= Len(f) /\ k # n
          BY <1>0, <2>2, <5>1
        <5>3. f[3 * k + 1].value # x
          BY <2>2, <3>2, <4>5, <5>1, <5>2 DEF DistinctIds
        <5>. QED
          BY <5>1, <5>3
      <4>. HIDE DEF u, x
      <4>6. ASSUME NEW i \in 1..Len(u)
            PROVE  (i \in 1..Len(t) /\ u[i] = t[i]) \/ (i = Len(t) + 1 /\ u[i] = <<x, x>>)
        <5>1. i \in 1..Len(t) \/ i = Len(t) + 1
          BY <4>3
        <5>. QED
          BY <4>3, <5>1
      <4>7. \A i \in 1..Len(u) : FromFile(f, alive, n + 1, u[i])
        BY <2>1, <2>4, <4>4, <4>6
      <4>8. DistinctIds(f) => Once(u)
        BY <2>1, <4>5, <4>6 DEF Once
      <4>. QED
        BY <4>3, <4>7, <4>8
    <3>. QED
      BY <3>1, <3>2
  <2>. HIDE DEF u, Good
  <2>6. \E v : g[3 * (n + 1)] = At(Blank, v) /\ Good(n + 1, v)
    BY <2>2, <2>3, <2>5
  <2>7. n + 1 \in 0..q
    BY <1>4
  <2>. QED
    BY <2>6, <2>7
<1>5. q \in S
  <2>. HIDE DEF S
  <2>1. \A n \in 0..q : n < q /\ n \in S => n + 1 \in S
    BY <1>4
  <2>2. \A n \in 0..q : n \in S
    BY <1>3, <2>1, UpTo
  <2>. QED
    BY <2>2
<1>6. PICK t : g[3 * q] = At(Blank, t) /\ Good(q, t)
  BY <1>5
<1>7. load_state(f, alive) = t
  <2>1. Len(f) = 3 * q \/ Len(f) = 3 * q + 1 \/ Len(f) = 3 * q + 2
    BY <1>0, <1>2
  <2>2. At(Blank, t).table = t
    BY DEF At
  <2>3. /\ 3 * q + 1 <= Len(f) => g[3 * q + 1].table = t
        /\ 3 * q + 2 <= Len(f) => g[3 * q + 2].table = t
    <3>1. LineByLine(f, alive, g) /\ g[3 * q] = At(Blank, t)
      BY <1>1, <1>6
    <3>. HIDE DEF Good
    <3>. QED
      BY <3>1, RecordStep
  <2>4. CASE Len(f) = 3 * q
    BY <1>1, <1>6, <2>2, <2>4
  <2>5. CASE Len(f) = 3 * q + 1
    BY <1>1, <2>3, <2>5
  <2>6. CASE Len(f) = 3 * q + 2
    BY <1>1, <2>3, <2>6
  <2>. QED
    BY <2>1, <2>4, <2>5, <2>6
<1>8. ASSUME NEW i \in 1..Len(t)
      PROVE  t[i][1] \in alive
  BY <1>6 DEF FromFile
<1>. QED
  BY <1>6, <1>7, <1>8

(***************************************************************************)
(* What save_state writes, and that load_state reads it back.              *)
(***************************************************************************)
LEMMA ThreeLines ==
    ASSUME NEW j \in Nat
    PROVE  /\ ((3 * j + 1) - 1) \div 3 = j /\ (3 * j + 1) % 3 = 1
           /\ ((3 * j + 2) - 1) \div 3 = j /\ (3 * j + 2) % 3 = 2
           /\ ((3 * j + 3) - 1) \div 3 = j /\ (3 * j + 3) % 3 = 0
  OBVIOUS

LEMMA PlaceInRecord ==
    ASSUME NEW n \in Nat, NEW i \in 1..(3 * n)
    PROVE  \E j \in Nat : j < n /\ (i = 3 * j + 1 \/ i = 3 * j + 2 \/ i = 3 * j + 3)
<1>1. i - 1 \in Nat
  OBVIOUS
<1>2. PICK q \in Nat : 3 * q <= i - 1 /\ i - 1 < 3 * q + 3
  BY <1>1, Thirds
<1>3. q < n /\ (i = 3 * q + 1 \/ i = 3 * q + 2 \/ i = 3 * q + 3)
  BY <1>2
<1>. QED
  BY <1>3

\* The lines of a record.
LEMMA LinesOf ==
    ASSUME NEW t \in Seq(Made)
    PROVE  /\ Lines(t) \in Seq(AllLines) /\ Len(t) \in Nat /\ Len(Lines(t)) = 3 * Len(t)
           /\ \A j \in Nat : j < Len(t) =>
                 /\ t[j + 1] = <<t[j + 1][1], t[j + 1][1]>> /\ t[j + 1][1] \in Ids
                 /\ Lines(t)[3 * j + 1] = Line("id", t[j + 1][1])
                 /\ Lines(t)[3 * j + 2] = Line("pid", t[j + 1][1])
                 /\ Lines(t)[3 * j + 3] = Line("end", 0)
<1>0. Len(t) \in Nat /\ 3 * Len(t) \in Nat
  OBVIOUS
<1>1. ASSUME NEW j \in Nat, j < Len(t)
      PROVE  /\ t[j + 1] = <<t[j + 1][1], t[j + 1][1]>> /\ t[j + 1][1] \in Ids
             /\ Lines(t)[3 * j + 1] = Line("id", t[j + 1][1])
             /\ Lines(t)[3 * j + 2] = Line("pid", t[j + 1][1])
             /\ Lines(t)[3 * j + 3] = Line("end", 0)
  <2>1. t[j + 1] \in Made
    BY <1>0, <1>1
  <2>2. t[j + 1] = <<t[j + 1][1], t[j + 1][1]>> /\ t[j + 1][1] \in Ids /\ t[j + 1][2] = t[j + 1][1]
    BY <2>1 DEF Made
  <2>3. 3 * j + 1 \in 1..(3 * Len(t)) /\ 3 * j + 2 \in 1..(3 * Len(t)) /\ 3 * j + 3 \in 1..(3 * Len(t))
    BY <1>0, <1>1
  <2>4. Lines(t)[3 * j + 1] = Line("id", t[j + 1][1])
    BY <2>3, ThreeLines DEF Lines
  <2>5. Lines(t)[3 * j + 2] = Line("pid", t[j + 1][2])
    BY <2>3, ThreeLines DEF Lines
  <2>6. Lines(t)[3 * j + 3] = Line("end", 0)
    BY <2>3, ThreeLines DEF Lines
  <2>. QED
    BY <2>2, <2>4, <2>5, <2>6
<1>2. ASSUME NEW i \in 1..(3 * Len(t))
      PROVE  Lines(t)[i] \in AllLines
  <2>1. PICK j \in Nat : j < Len(t) /\ (i = 3 * j + 1 \/ i = 3 * j + 2 \/ i = 3 * j + 3)
    BY <1>0, PlaceInRecord
  <2>2. t[j + 1][1] \in Nat
    BY <1>1, <2>1, StateFileAssumption
  <2>3. /\ Line("id", t[j + 1][1]) \in AllLines /\ Line("pid", t[j + 1][1]) \in AllLines
        /\ Line("end", 0) \in AllLines
    BY <2>2 DEF Line, AllLines
  <2>. QED
    BY <1>1, <2>1, <2>3
<1>3. Lines(t) = [i \in 1..(3 * Len(t)) |-> Lines(t)[i]]
  BY DEF Lines
<1>4. Lines(t) \in [1..(3 * Len(t)) -> AllLines]
  BY <1>2, <1>3
<1>5. Lines(t) \in Seq(AllLines) /\ Len(Lines(t)) = 3 * Len(t)
  <2>. DEFINE n == 3 * Len(t)
              s == Lines(t)
  <2>1. n \in Nat /\ s \in [1..n -> AllLines]
    BY <1>0, <1>4
  <2>. HIDE DEF n, s
  <2>2. s \in Seq(AllLines) /\ Len(s) = n
    BY <2>1
  <2>. QED
    BY <2>2 DEF n, s
<1>. QED
  BY <1>0, <1>1, <1>5

\* A file that begins as save_state writes table t.
Prefix(f, t) ==
    /\ f \in Seq(AllLines) /\ Len(f) <= 3 * Len(t)
    /\ \A i \in 1..Len(f) : f[i] = Lines(t)[i]

LEMMA PrefixRegular ==
    ASSUME NEW t \in Seq(Made), NEW f, Prefix(f, t)
    PROVE  Regular(f) /\ (Once(t) => DistinctIds(f))
<1>0. Len(f) \in Nat /\ Len(t) \in Nat /\ Len(f) <= 3 * Len(t)
  BY DEF Prefix
<1>1. ASSUME NEW j \in Nat, 3 * j + 1 <= Len(f)
      PROVE  /\ j < Len(t) /\ j + 1 \in 1..Len(t)
             /\ f[3 * j + 1] = Line("id", t[j + 1][1]) /\ t[j + 1][1] \in Ids
             /\ t[j + 1] = <<t[j + 1][1], t[j + 1][1]>>
  <2>1. 3 * j + 1 \in 1..Len(f) /\ j < Len(t) /\ j + 1 \in 1..Len(t)
    BY <1>0, <1>1
  <2>. QED
    BY <2>1, LinesOf DEF Prefix
<1>2. ASSUME NEW j \in Nat, 3 * j + 2 <= Len(f)
      PROVE  f[3 * j + 2] = Line("pid", t[j + 1][1]) /\ 3 * j + 1 <= Len(f)
  <2>1. 3 * j + 2 \in 1..Len(f) /\ j < Len(t) /\ 3 * j + 1 <= Len(f)
    BY <1>0, <1>2
  <2>. QED
    BY <2>1, LinesOf DEF Prefix
<1>3. ASSUME NEW j \in Nat, 3 * j + 3 <= Len(f)
      PROVE  f[3 * j + 3] = Line("end", 0)
  <2>1. 3 * j + 3 \in 1..Len(f) /\ j < Len(t)
    BY <1>0, <1>3
  <2>. QED
    BY <2>1, LinesOf DEF Prefix
<1>5. Regular(f)
  <2>1. f \in Seq(AllLines)
    BY DEF Prefix
  <2>2. ASSUME NEW j \in Nat, 3 * j + 1 <= Len(f)
        PROVE  f[3 * j + 1].kind = "id" /\ f[3 * j + 1].value \in Ids
    <3>1. f[3 * j + 1] = Line("id", t[j + 1][1]) /\ t[j + 1][1] \in Ids
      BY <1>1, <2>2
    <3>. QED
      BY <3>1 DEF Line
  <2>3. ASSUME NEW j \in Nat, 3 * j + 2 <= Len(f)
        PROVE  f[3 * j + 2].kind = "pid" /\ f[3 * j + 2].value = f[3 * j + 1].value
    <3>1. f[3 * j + 2] = Line("pid", t[j + 1][1]) /\ f[3 * j + 1] = Line("id", t[j + 1][1])
      BY <1>1, <1>2, <2>3
    <3>. QED
      BY <3>1 DEF Line
  <2>4. ASSUME NEW j \in Nat, 3 * j + 3 <= Len(f)
        PROVE  f[3 * j + 3].kind = "end"
    <3>1. f[3 * j + 3] = Line("end", 0)
      BY <1>3, <2>4
    <3>. QED
      BY <3>1 DEF Line
  <2>. QED
    BY <2>1, <2>2, <2>3, <2>4 DEF Regular
<1>6. ASSUME Once(t), NEW j \in Nat, NEW k \in Nat, 3 * j + 1 <= Len(f), 3 * k + 1 <= Len(f),
             f[3 * j + 1].value = f[3 * k + 1].value
      PROVE  j = k
  <2>a. f[3 * j + 1].value = t[j + 1][1] /\ f[3 * k + 1].value = t[k + 1][1]
    <3>1. f[3 * j + 1] = Line("id", t[j + 1][1]) /\ f[3 * k + 1] = Line("id", t[k + 1][1])
      BY <1>1, <1>6
    <3>. QED
      BY <3>1 DEF Line
  <2>b. t[j + 1] = <<t[j + 1][1], t[j + 1][1]>> /\ t[k + 1] = <<t[k + 1][1], t[k + 1][1]>>
    BY <1>1, <1>6
  <2>1. t[j + 1] = t[k + 1] /\ j + 1 \in 1..Len(t) /\ k + 1 \in 1..Len(t)
    BY <1>1, <1>6, <2>a, <2>b
  <2>2. j + 1 = k + 1
    BY <1>6, <2>1 DEF Once
  <2>. QED
    BY <2>2
<1>7. Once(t) => DistinctIds(f)
  <2>. SUFFICES ASSUME Once(t), NEW j \in Nat, NEW k \in Nat, 3 * j + 1 <= Len(f), 3 * k + 1 <= Len(f),
                       f[3 * j + 1].value = f[3 * k + 1].value
                PROVE  j = k
    BY DEF DistinctIds
  <2>. QED
    BY <1>6
<1>. QED
  BY <1>5, <1>7

\* What save_state has written, load_state reads back, as long as the processes
\* are alive.
LEMMA LoadWhatWasSaved ==
    ASSUME NEW t \in Seq(Made), NEW alive, \A i \in 1..Len(t) : t[i][1] \in alive
    PROVE  load_state(Lines(t), alive) = t
<1>. DEFINE f == Lines(t)
            m == Len(t)
            Same(n, u) == u \in Seq(Made) /\ Len(u) = n /\ \A i \in 1..n : u[i] = t[i]
<1>0. /\ f \in Seq(AllLines) /\ m \in Nat /\ Len(f) = 3 * m
      /\ \A j \in Nat : j < m => /\ t[j + 1] = <<t[j + 1][1], t[j + 1][1]>> /\ t[j + 1] \in Made
                                 /\ f[3 * j + 1] = Line("id", t[j + 1][1])
  BY LinesOf
<1>1. Regular(f)
  <2>1. Prefix(f, t)
    BY <1>0 DEF Prefix
  <2>. QED
    BY <2>1, PrefixRegular
<1>2. PICK g : /\ g[0] = Fresh /\ LineByLine(f, alive, g)
               /\ load_state(f, alive) = g[Len(f)].table
  <2>1. Len(f) \in Nat
    BY <1>0
  <2>. QED
    BY <2>1, LoadReads
<1>. HIDE DEF f, m
<1>. DEFINE S == {n \in 0..m : \E u : g[3 * n] = At(Blank, u) /\ Same(n, u)}
<1>3. 0 \in S
  <2>1. g[3 * 0] = At(Blank, <<>>)
    BY <1>2 DEF Fresh, At
  <2>2. Same(0, <<>>)
    OBVIOUS
  <2>3. \E u : g[3 * 0] = At(Blank, u) /\ Same(0, u)
    BY <2>1, <2>2, Zenon
  <2>4. 0 \in 0..m
    BY <1>0
  <2>. HIDE DEF Same
  <2>. QED
    BY <2>3, <2>4
<1>4. ASSUME NEW n \in 0..m, n < m, n \in S
      PROVE  n + 1 \in S
  <2>1. PICK u : g[3 * n] = At(Blank, u) /\ Same(n, u)
    BY <1>4
  <2>. DEFINE r == t[n + 1]
              x == r[1]
              v == Append(u, r)
  <2>2. n \in Nat /\ 3 * n + 3 <= Len(f) /\ 3 * (n + 1) = 3 * n + 3 /\ n + 1 \in 1..m
    BY <1>0, <1>4
  <2>3. r = <<x, x>> /\ r \in Made /\ f[3 * n + 1] = Line("id", x) /\ x \in alive
    <3>1. x \in alive
      BY <2>2 DEF m
    <3>. QED
      BY <1>0, <1>4, <2>2, <3>1
  <2>. HIDE DEF x, r
  <2>4. Extended(u, f[3 * n + 1], alive) = v
    BY <2>3 DEF Extended, Line
  <2>5. g[3 * n + 3] = At(Blank, v)
    <3>1. g[3 * n] = At(Blank, u)
      BY <2>1
    <3>2. g[3 * n + 3] = At(Blank, Extended(u, f[3 * n + 1], alive))
      BY <1>1, <1>2, <2>2, <3>1, RecordStep
    <3>. QED
      BY <2>4, <3>2
  <2>6. Same(n + 1, v)
    <3>1. u \in Seq(Made) /\ Len(u) = n /\ r \in Made
      BY <2>1, <2>3
    <3>2. v \in Seq(Made) /\ Len(v) = n + 1 /\ (\A i \in 1..n : v[i] = u[i]) /\ v[n + 1] = r
      BY <3>1, AppendFacts
    <3>. HIDE DEF v
    <3>3. ASSUME NEW i \in 1..(n + 1)
          PROVE  v[i] = t[i]
      <4>1. i \in 1..n \/ i = n + 1
        BY <2>2
      <4>. QED
        BY <2>1, <3>2, <4>1 DEF r
    <3>. QED
      BY <3>2, <3>3
  <2>. HIDE DEF v, Same
  <2>7. \E w : g[3 * (n + 1)] = At(Blank, w) /\ Same(n + 1, w)
    BY <2>2, <2>5, <2>6
  <2>8. n + 1 \in 0..m
    BY <2>2
  <2>. QED
    BY <2>7, <2>8
<1>5. m \in S
  <2>. HIDE DEF S
  <2>1. \A n \in 0..m : n < m /\ n \in S => n + 1 \in S
    BY <1>4
  <2>2. \A n \in 0..m : n \in S
    BY <1>0, <1>3, <2>1, UpTo
  <2>. QED
    BY <1>0, <2>2
<1>6. PICK u : g[3 * m] = At(Blank, u) /\ Same(m, u)
  BY <1>5
<1>7. u = t
  BY <1>6 DEF m
<1>8. load_state(f, alive) = u
  BY <1>0, <1>2, <1>6 DEF At
<1>. QED
  BY <1>7, <1>8 DEF f

(***************************************************************************)
(* The tables and the files that a step makes.                             *)
(***************************************************************************)
Without(t, i) == SubSeq(t, 1, i - 1) \o SubSeq(t, i + 1, Len(t))

\* destroy takes one entry away.
LEMMA WithoutFacts ==
    ASSUME NEW T, NEW t \in Seq(T), NEW i \in DOMAIN t
    PROVE  /\ Without(t, i) \in Seq(T)
           /\ Len(Without(t, i)) = Len(t) - 1
           /\ \A k \in 1..Len(Without(t, i)) :
                 Without(t, i)[k] = IF k < i THEN t[k] ELSE t[k + 1]
<1>1. Len(t) \in Nat /\ i \in 1..Len(t)
  OBVIOUS
<1>2. SubSeq(t, 1, i - 1) \in Seq(T) /\ Len(SubSeq(t, 1, i - 1)) = i - 1
      /\ \A k \in 1..(i - 1) : SubSeq(t, 1, i - 1)[k] = t[k]
  BY <1>1
<1>3. SubSeq(t, i + 1, Len(t)) \in Seq(T) /\ Len(SubSeq(t, i + 1, Len(t))) = Len(t) - i
      /\ \A k \in 1..(Len(t) - i) : SubSeq(t, i + 1, Len(t))[k] = t[i + k]
  BY <1>1
<1>. DEFINE a == SubSeq(t, 1, i - 1)
            b == SubSeq(t, i + 1, Len(t))
            n == Len(t)
<1>4. a \in Seq(T) /\ b \in Seq(T) /\ Len(a) = i - 1 /\ Len(b) = n - i
  BY <1>2, <1>3
<1>. HIDE DEF a, b, n
<1>5. a \o b \in Seq(T) /\ Len(a \o b) = n - 1
  BY <1>1, <1>4 DEF n
<1>6. ASSUME NEW k \in 1..(n - 1)
      PROVE  (a \o b)[k] = IF k < i THEN t[k] ELSE t[k + 1]
  <2>1. CASE k < i
    <3>1. k \in 1..(i - 1)
      BY <1>1, <2>1 DEF n
    <3>2. (a \o b)[k] = a[k]
      BY <1>4, <3>1
    <3>. QED
      BY <1>2, <2>1, <3>1, <3>2 DEF a
  <2>2. CASE ~(k < i)
    <3>1. k - (i - 1) \in 1..(n - i) /\ i + (k - (i - 1)) = k + 1 /\ k \in 1..((i - 1) + (n - i)) /\ k > i - 1
      BY <1>1, <2>2 DEF n
    <3>2. (a \o b)[k] = b[k - (i - 1)]
      BY <1>4, <3>1
    <3>. QED
      BY <1>3, <2>2, <3>1, <3>2 DEF b, n
  <2>. QED
    BY <2>1, <2>2
<1>. QED
  BY <1>5, <1>6 DEF Without, a, b, n

LEMMA Concatenated ==
    ASSUME NEW T, NEW a \in Seq(T), NEW b \in Seq(T)
    PROVE  /\ a \o b \in Seq(T) /\ Len(a \o b) = Len(a) + Len(b)
           /\ \A i \in 1..Len(a) : (a \o b)[i] = a[i]
           /\ \A i \in 1..Len(b) : (a \o b)[Len(a) + i] = b[i]
  OBVIOUS

\* What is left of a sequence behind its first n elements.
LEMMA Remainder ==
    ASSUME NEW T, NEW s \in Seq(T), NEW n \in Nat, n <= Len(s)
    PROVE  /\ SubSeq(s, n + 1, Len(s)) \in Seq(T) /\ Len(SubSeq(s, n + 1, Len(s))) = Len(s) - n
           /\ \A i \in 1..(Len(s) - n) : SubSeq(s, n + 1, Len(s))[i] = s[n + i]
<1>1. n + 1 \in Int /\ Len(s) \in Int /\ n + 1 >= 1
  OBVIOUS
<1>2. \A i \in (n + 1)..Len(s) : s[i] \in T
  OBVIOUS
<1>3. /\ SubSeq(s, n + 1, Len(s)) \in Seq(T)
      /\ Len(SubSeq(s, n + 1, Len(s))) = IF n + 1 <= Len(s) THEN Len(s) - (n + 1) + 1 ELSE 0
      /\ \A i \in 1..(Len(s) - (n + 1) + 1) : SubSeq(s, n + 1, Len(s))[i] = s[(n + 1) + i - 1]
  BY <1>1, <1>2, SubSeqProperties
<1>4. Len(s) - (n + 1) + 1 = Len(s) - n /\ \A i \in Nat : (n + 1) + i - 1 = n + i
  OBVIOUS
<1>5. Len(SubSeq(s, n + 1, Len(s))) = Len(s) - n
  BY <1>1, <1>3
<1>6. \A i \in 1..(Len(s) - n) : SubSeq(s, n + 1, Len(s))[i] = s[n + i]
  BY <1>3, <1>4
<1>. QED
  BY <1>3, <1>5, <1>6

\* o is file f after a write of lines at offset k that leaves no gap: what was
\* before them stays, what was behind them too, but for a line that they cut.
Wrote(o, f, k, lines) ==
    /\ o \in Seq(AllLines)
    /\ Len(o) = IF k + Len(lines) > Len(f) THEN k + Len(lines) ELSE Len(f)
    /\ \A i \in 1..k : o[i] = f[i]
    /\ \A i \in 1..Len(lines) : o[k + i] = lines[i]
    /\ \A i \in 1..Len(o) : i > k + Len(lines) =>
          o[i] = f[i] \/ (i = k + Len(lines) + 1 /\ o[i].kind = "junk")

LEMMA WriteFacts ==
    ASSUME NEW f \in Seq(AllLines), NEW k \in Nat, k <= Len(f), NEW lines \in Seq(AllLines), NEW cut
    PROVE  Wrote(Overlay(f, k, lines, cut), f, k, lines)
<1>. DEFINE T == AllLines
            o == Overlay(f, k, lines, cut)
            n == Len(lines)
            l == Len(f)
            head == [i \in 1..k |-> IF i <= Len(f) THEN f[i] ELSE Junk]
            rest == SubSeq(f, k + n + 1, l)
            last == IF cut /\ rest # <<>> THEN <<Junk>> \o Tail(rest) ELSE rest
            c == IF k + n > l THEN 0 ELSE l - (k + n)
<1>1. n \in Nat /\ l \in Nat /\ k <= l /\ c \in Nat
  OBVIOUS
<1>2. Junk \in T /\ Junk.kind = "junk"
  BY DEF Junk, Line, AllLines
<1>3. head \in Seq(T) /\ Len(head) = k /\ \A i \in 1..k : head[i] = f[i]
  <2>1. \A i \in 1..k : i \in 1..Len(f)
    OBVIOUS
  <2>2. \A i \in 1..k : head[i] = f[i] /\ f[i] \in T
    BY <2>1
  <2>3. head \in [1..k -> T]
    BY <2>2
  <2>. HIDE DEF head
  <2>. QED
    BY <2>2, <2>3
<1>4. rest \in Seq(T) /\ Len(rest) = c /\ \A i \in 1..c : rest[i] = f[k + n + i]
  <2>. HIDE DEF T
  <2>1. CASE k + n > l
    <3>1. rest = <<>>
      BY <1>1, <2>1
    <3>. HIDE DEF rest
    <3>. QED
      BY <1>1, <2>1, <3>1
  <2>2. CASE ~(k + n > l)
    <3>1. c = l - (k + n) /\ k + n \in Nat /\ k + n <= Len(f)
      BY <1>1, <2>2
    <3>. HIDE DEF c, n
    <3>. QED
      BY <3>1, Remainder DEF T
  <2>. QED
    BY <2>1, <2>2
<1>. HIDE DEF rest, head, c
<1>5. /\ last \in Seq(T) /\ Len(last) = c
      /\ \A i \in 1..c : last[i] = rest[i] \/ (i = 1 /\ last[i] = Junk)
  <2>1. CASE cut /\ rest # <<>>
    <3>. DEFINE r == Tail(rest)
    <3>0. c > 0
      BY <1>1, <1>4, <2>1
    <3>1. r \in Seq(T) /\ Len(r) = c - 1 /\ \A i \in 1..(c - 1) : r[i] = rest[i + 1]
      BY <1>1, <1>4, <2>1, <3>0
    <3>. HIDE DEF r, T
    <3>2. <<Junk>> \in Seq(T) /\ Len(<<Junk>>) = 1 /\ <<Junk>>[1] = Junk
      BY <1>2
    <3>3. /\ <<Junk>> \o r \in Seq(T) /\ Len(<<Junk>> \o r) = c
          /\ (<<Junk>> \o r)[1] = Junk
          /\ \A i \in 2..c : (<<Junk>> \o r)[i] = r[i - 1]
      BY <1>1, <3>0, <3>1, <3>2
    <3>4. \A i \in 2..c : r[i - 1] = rest[i]
      BY <1>1, <3>1
    <3>5. last = <<Junk>> \o r
      BY <2>1 DEF r
    <3>. HIDE DEF last
    <3>6. \A i \in 1..c : i = 1 \/ i \in 2..c
      BY <1>1
    <3>. QED
      BY <3>3, <3>4, <3>5, <3>6
  <2>2. CASE ~(cut /\ rest # <<>>)
    BY <1>4, <2>2
  <2>. QED
    BY <2>1, <2>2
<1>6. o = (head \o lines) \o last
  <2>1. ~(k > Len(f))
    BY <1>1
  <2>. QED
    BY <2>1 DEF Overlay, head, rest
<1>. HIDE DEF last, o, n, l, T
<1>. DEFINE hl == head \o lines
<1>7. /\ hl \in Seq(T) /\ Len(hl) = k + n
      /\ (\A i \in 1..k : hl[i] = head[i]) /\ (\A i \in 1..n : hl[k + i] = lines[i])
  <2>1. head \in Seq(T) /\ lines \in Seq(T) /\ Len(head) = k /\ Len(lines) = n
    BY <1>3 DEF n, T
  <2>. HIDE DEF hl
  <2>2. hl \in Seq(T) /\ Len(hl) = k + n
    BY <2>1, Concatenated DEF hl
  <2>3. \A i \in 1..k : hl[i] = head[i]
    BY <2>1, Concatenated DEF hl
  <2>4. \A i \in 1..n : hl[k + i] = lines[i]
    BY <2>1, Concatenated DEF hl
  <2>. QED
    BY <2>2, <2>3, <2>4
<1>. HIDE DEF hl
<1>8. /\ o \in Seq(T) /\ Len(o) = k + n + c
      /\ (\A i \in 1..(k + n) : o[i] = hl[i]) /\ (\A i \in 1..c : o[k + n + i] = last[i])
  <2>1. hl \o last \in Seq(T) /\ Len(hl \o last) = (k + n) + c
    BY <1>5, <1>7, Concatenated
  <2>2. \A i \in 1..(k + n) : (hl \o last)[i] = hl[i]
    BY <1>5, <1>7, Concatenated
  <2>3. \A i \in 1..c : (hl \o last)[(k + n) + i] = last[i]
    BY <1>5, <1>7, Concatenated
  <2>4. o = hl \o last
    BY <1>6 DEF hl
  <2>. QED
    BY <2>1, <2>2, <2>3, <2>4
<1>9. \A i \in 1..k : o[i] = f[i]
  BY <1>1, <1>3, <1>7, <1>8
<1>10. \A i \in 1..n : o[k + i] = lines[i]
  <2>1. \A i \in 1..n : k + i \in 1..(k + n)
    BY <1>1
  <2>. QED
    BY <1>7, <1>8, <2>1
<1>11. ASSUME NEW i \in 1..Len(o), i > k + n
       PROVE  o[i] = f[i] \/ (i = k + n + 1 /\ o[i].kind = "junk")
  <2>. DEFINE d == i - (k + n)
  <2>1. d \in 1..c /\ i = k + n + d
    BY <1>1, <1>8, <1>11
  <2>. HIDE DEF d
  <2>2. o[i] = last[d] /\ rest[d] = f[i]
    BY <1>4, <1>8, <2>1
  <2>3. last[d] = rest[d] \/ (d = 1 /\ last[d] = Junk)
    BY <1>5, <2>1
  <2>. QED
    BY <1>2, <2>1, <2>2, <2>3
<1>12. Len(o) = IF k + n > l THEN k + n ELSE l
  BY <1>1, <1>8 DEF c
<1>. QED
  BY <1>8, <1>9, <1>10, <1>11, <1>12 DEF Wrote, o, n, l, T

(***************************************************************************)
(* The inductive invariant.  FileShape holds as long as no two managers    *)
(* write a long file in parts: the file is made of records, and a save     *)
(* writes its lines at once.  Solo holds as long as no two managers are up *)
(* at the same time: the file is a part of what one save writes, and a     *)
(* table has each of its containers once, and only live ones.              *)
(***************************************************************************)
Steps == {"down", "idle", "open", "write"}

FileShape ==
    /\ step \in [Managers -> Steps]
    /\ next \in [Managers -> {"idle", "down"}]
    /\ table \in [Managers -> Seq(Made)]
    /\ buf \in [Managers -> Seq(AllLines)]
    /\ off \in [Managers -> Nat]
    /\ Regular(file)
    /\ ~chunked => \A m \in Managers : step[m] = "write" =>
          buf[m] = <<>> \/ (off[m] = 0 /\ buf[m] = Lines(table[m]))

\* A table that load_state would find again.
Listing(t, alive) == Once(t) /\ \A i \in 1..Len(t) : t[i][1] \in alive

\* What is in the file and what is still to be written make up the table.
Writing(m) ==
    /\ off[m] = Len(file) /\ Len(file) + Len(buf[m]) = 3 * Len(table[m])
    /\ \A i \in 1..Len(file) : file[i] = Lines(table[m])[i]
    /\ \A i \in 1..Len(buf[m]) : buf[m][i] = Lines(table[m])[Len(file) + i]

Solo ==
    /\ \A m, k \in Managers : step[m] # "down" /\ step[k] # "down" => m = k
    /\ DistinctIds(file)
    /\ \A m \in Managers : /\ Listing(table[m], live)
                           /\ step[m] = "down" => table[m] = <<>>
                           /\ step[m] = "write" => Writing(m)
                           /\ step[m] = "idle" => load_state(file, live) = table[m]

FileInv ==
    /\ chunked \in BOOLEAN /\ together \in BOOLEAN
    /\ ~(chunked /\ together) => FileShape
    /\ ~together => Solo

LEMMA EmptyFacts ==
    ASSUME NEW T, NEW alive
    PROVE  <<>> \in Seq(T) /\ Len(<<>>) = 0 /\ Listing(<<>>, alive)
  BY DEF Listing, Once

LEMMA EmptyFile == Regular(<<>>) /\ DistinctIds(<<>>)
<1>1. \A j \in Nat : ~(3 * j + 1 <= 0) /\ ~(3 * j + 2 <= 0) /\ ~(3 * j + 3 <= 0)
  OBVIOUS
<1>. QED
  BY <1>1, EmptyFacts DEF Regular, DistinctIds

LEMMA EmptyLoaded == \A alive : load_state(<<>>, alive) = <<>>
<1>. SUFFICES ASSUME NEW alive
              PROVE  load_state(<<>>, alive) = <<>>
  OBVIOUS
<1>1. Len(<<>>) = 0
  OBVIOUS
<1>2. PICK g : g[0] = Fresh /\ load_state(<<>>, alive) = g[Len(<<>>)].table
  <2>. DEFINE f == <<>>
  <2>1. Len(f) \in Nat
    BY <1>1
  <2>. HIDE DEF f
  <2>2. \E g : g[0] = Fresh /\ load_state(f, alive) = g[Len(f)].table
    BY <2>1, LoadReads
  <2>. QED
    BY <2>2 DEF f
<1>. QED
  BY <1>1, <1>2 DEF Fresh

\* A call changes its manager's table, and saves it next.
LEMMA CallStep ==
    ASSUME FileInv, NEW m \in Managers, NEW t, NEW then \in {"idle", "down"},
           BeginSave(m, t, then), UNCHANGED <<file, buf, off, chunked>>,
           together' \in BOOLEAN, together => together',
           ~(chunked /\ together') => t \in Seq(Made),
           ~together' => /\ Listing(t, live')
                         /\ \A k \in Managers : step[k] # "down" => k = m
    PROVE  FileInv'
<1>1. ASSUME ~(chunked /\ together')
      PROVE  FileShape'
  <2>1. FileShape /\ t \in Seq(Made)
    BY <1>1 DEF FileInv
  <2>2. /\ step' \in [Managers -> Steps] /\ next' \in [Managers -> {"idle", "down"}]
        /\ table' \in [Managers -> Seq(Made)]
    BY <2>1 DEF FileShape, BeginSave, Steps
  <2>3. \A k \in Managers : step'[k] = "write" => k # m /\ step[k] = "write" /\ table'[k] = table[k]
    BY <2>1 DEF FileShape, BeginSave
  <2>4. Regular(file)'
    BY <2>1 DEF FileShape
  <2>. QED
    BY <2>1, <2>2, <2>3, <2>4 DEF FileShape
<1>2. ASSUME ~together'
      PROVE  Solo'
  <2>1. /\ Solo /\ FileShape /\ Listing(t, live')
        /\ \A k \in Managers : step[k] # "down" => k = m
    BY <1>2 DEF FileInv
  <2>2. /\ \A k \in Managers : k # m => step'[k] = "down" /\ table'[k] = <<>>
        /\ step'[m] = "open" /\ table'[m] = t
    BY <2>1 DEF FileShape, Solo, BeginSave
  <2>3. \A k \in Managers : Listing(table'[k], live')
    BY <2>1, <2>2, EmptyFacts
  <2>4. DistinctIds(file)'
    BY <2>1 DEF Solo
  <2>. QED
    BY <2>2, <2>3, <2>4 DEF Solo
<1>. QED
  BY <1>1, <1>2 DEF FileInv

LEMMA InitStep ==
    ASSUME FileInv, NEW m \in Managers, container_manager_init(m)
    PROVE  FileInv'
<1>. DEFINE loaded == load_state(file, live)
<1>1. /\ step[m] = "down" /\ UNCHANGED <<file, buf, off, live, chunked>>
      /\ together' = (together \/ \E k \in Managers : step[k] # "down")
  BY DEF container_manager_init
<1>2. together' \in BOOLEAN /\ (together => together')
  BY <1>1 DEF FileInv
<1>3. ~together' => ~together /\ \A k \in Managers : step[k] = "down"
  BY <1>1 DEF FileInv
<1>4. ASSUME ~(chunked /\ together')
      PROVE  FileShape /\ loaded \in Seq(Made)
  <2>1. FileShape
    BY <1>2, <1>4 DEF FileInv
  <2>. QED
    BY <2>1, LoadedRecords DEF FileShape
<1>5. ASSUME ~together'
      PROVE  Solo /\ Listing(loaded, live)
  <2>1. Solo /\ FileShape
    BY <1>3, <1>5 DEF FileInv
  <2>. QED
    BY <2>1, LoadedRecords DEF FileShape, Solo, Listing
<1>6. CASE loaded = <<>>
  <2>1. step' = [step EXCEPT ![m] = "idle"] /\ UNCHANGED <<table, next>>
    BY <1>6 DEF container_manager_init
  <2>2. ASSUME ~(chunked /\ together')
        PROVE  FileShape'
    <3>1. FileShape
      BY <1>4, <2>2
    <3>2. step' \in [Managers -> Steps] /\ \A k \in Managers : step'[k] = "write" => step[k] = "write"
      BY <2>1, <3>1 DEF FileShape, Steps
    <3>3. Regular(file)'
      BY <1>1, <3>1 DEF FileShape
    <3>. QED
      BY <1>1, <2>1, <3>1, <3>2, <3>3 DEF FileShape
  <2>3. ASSUME ~together'
        PROVE  Solo'
    <3>1. Solo /\ FileShape
      BY <1>3, <2>3 DEF FileInv
    <3>2. step'[m] = "idle" /\ \A k \in Managers : k # m => step'[k] = "down"
      BY <1>3, <2>1, <2>3, <3>1 DEF FileShape
    <3>3. \A k \in Managers : table'[k] = <<>> /\ table[k] = <<>>
      BY <1>3, <2>1, <2>3, <3>1 DEF Solo
    <3>4. load_state(file, live)' = <<>>
      BY <1>1, <1>6
    <3>5. DistinctIds(file)'
      BY <1>1, <3>1 DEF Solo
    <3>6. \A k \in Managers : Listing(table'[k], live')
      BY <3>3, EmptyFacts
    <3>. QED
      BY <3>2, <3>3, <3>4, <3>5, <3>6 DEF Solo
  <2>. QED
    BY <1>1, <1>2, <2>2, <2>3 DEF FileInv
<1>7. CASE loaded # <<>>
  <2>1. BeginSave(m, loaded, "idle")
    BY <1>7 DEF container_manager_init
  <2>2. ~together' => Listing(loaded, live') /\ \A k \in Managers : step[k] # "down" => k = m
    BY <1>1, <1>3, <1>5
  <2>3. ~(chunked /\ together') => loaded \in Seq(Made)
    BY <1>4
  <2>. HIDE DEF loaded
  <2>. QED
    BY <1>1, <1>2, <2>1, <2>2, <2>3, CallStep
<1>. QED
  BY <1>6, <1>7

LEMMA AppendedOnce ==
    ASSUME NEW t \in Seq(Made), NEW alive, Listing(t, alive), NEW x \in Ids,
           \A i \in 1..Len(t) : t[i][1] # x
    PROVE  Listing(Append(t, <<x, x>>), alive \cup {x})
<1>. DEFINE u == Append(t, <<x, x>>)
<1>1. <<x, x>> \in Made
  BY DEF Made
<1>2. /\ Len(t) \in Nat /\ Len(u) = Len(t) + 1
      /\ \A i \in 1..Len(t) : u[i] = t[i]
      /\ u[Len(t) + 1] = <<x, x>>
  BY <1>1, AppendFacts
<1>. HIDE DEF u
<1>3. ASSUME NEW i \in 1..Len(u)
      PROVE  (i \in 1..Len(t) /\ u[i] = t[i]) \/ (i = Len(t) + 1 /\ u[i] = <<x, x>>)
  <2>1. i \in 1..Len(t) \/ i = Len(t) + 1
    BY <1>2
  <2>. QED
    BY <1>2, <2>1
<1>4. \A i \in 1..Len(t) : t[i] # <<x, x>>
  <2>. SUFFICES ASSUME NEW i \in 1..Len(t), t[i] = <<x, x>>
                PROVE  FALSE
    OBVIOUS
  <2>1. t[i][1] = x
    OBVIOUS
  <2>. QED
    BY <2>1
<1>5. Once(u)
  BY <1>3, <1>4 DEF Once, Listing
<1>6. \A i \in 1..Len(u) : u[i][1] \in alive \cup {x}
  BY <1>3 DEF Listing
<1>. QED
  BY <1>5, <1>6 DEF Listing, u

LEMMA RunStep ==
    ASSUME FileInv, NEW m \in Managers, NEW x \in Ids, container_manager_run(m, x)
    PROVE  FileInv'
<1>. DEFINE t == Append(table[m], <<x, x>>)
<1>1. /\ step[m] = "idle" /\ live' = live \cup {x}
      /\ BeginSave(m, t, "idle")
      /\ UNCHANGED <<file, buf, off, chunked, together>>
      /\ \A r \in Records(table[m]) : r[1] # x
  BY DEF container_manager_run
<1>2. ASSUME ~(chunked /\ together)
      PROVE  table[m] \in Seq(Made) /\ t \in Seq(Made)
  <2>1. table[m] \in Seq(Made) /\ <<x, x>> \in Made
    BY <1>2 DEF FileInv, FileShape, Made
  <2>. QED
    BY <2>1, AppendFacts
<1>3. ASSUME ~together
      PROVE  Listing(t, live') /\ \A k \in Managers : step[k] # "down" => k = m
  <2>1. Solo /\ table[m] \in Seq(Made)
    BY <1>2, <1>3 DEF FileInv
  <2>2. \A i \in 1..Len(table[m]) : table[m][i][1] # x
    BY <1>1, <2>1 DEF Records
  <2>3. Listing(table[m], live)
    BY <2>1 DEF Solo
  <2>4. Listing(t, live \cup {x})
    BY <2>1, <2>2, <2>3, AppendedOnce
  <2>. QED
    BY <1>1, <2>1, <2>4 DEF Solo
<1>. HIDE DEF t
<1>4. together' \in BOOLEAN /\ (together => together') /\ together' = together
  BY <1>1 DEF FileInv
<1>. QED
  BY <1>1, <1>2, <1>3, <1>4, CallStep

LEMMA DestroyStep ==
    ASSUME FileInv, NEW m \in Managers, NEW i \in DOMAIN table[m], container_manager_destroy(m, i)
    PROVE  FileInv'
<1>. DEFINE t == Without(table[m], i)
<1>1. /\ step[m] = "idle" /\ live' = live \ {table[m][i][2]}
      /\ BeginSave(m, t, "idle")
      /\ UNCHANGED <<file, buf, off, chunked, together>>
  BY DEF container_manager_destroy, Without
<1>2. ASSUME ~(chunked /\ together)
      PROVE  table[m] \in Seq(Made) /\ t \in Seq(Made)
  <2>1. table[m] \in Seq(Made)
    BY <1>2 DEF FileInv, FileShape
  <2>. QED
    BY <2>1, WithoutFacts
<1>3. ASSUME ~together
      PROVE  Listing(t, live') /\ \A k \in Managers : step[k] # "down" => k = m
  <2>. DEFINE u == table[m]
              n == Len(u)
              y == u[i][2]
              place(k) == IF k < i THEN k ELSE k + 1
  <2>1. Solo /\ u \in Seq(Made)
    BY <1>2, <1>3 DEF FileInv
  <2>2. n \in Nat /\ i \in 1..n /\ Len(t) = n - 1 /\ \A k \in 1..Len(t) : t[k] = IF k < i THEN u[k] ELSE u[k + 1]
    <3>1. n \in Nat /\ DOMAIN u = 1..n
      BY <2>1
    <3>. HIDE DEF u
    <3>2. i \in DOMAIN u
      BY DEF u
    <3>3. t = Without(u, i)
      BY DEF u
    <3>. HIDE DEF t
    <3>. QED
      BY <2>1, <3>1, <3>2, <3>3, WithoutFacts
  <2>3. Once(u) /\ \A k \in 1..n : u[k][1] \in live
    BY <2>1 DEF Solo, Listing
  <2>. HIDE DEF t, u, n
  <2>4. \A k \in 1..Len(t) : place(k) \in 1..n /\ t[k] = u[place(k)] /\ place(k) # i
    BY <2>2
  <2>5. \A j, k \in 1..Len(t) : place(j) = place(k) => j = k
    BY <2>2
  <2>. HIDE DEF place
  <2>6. Once(t)
    BY <2>3, <2>4, <2>5 DEF Once, n
  <2>7. ASSUME NEW k \in 1..Len(t)
        PROVE  t[k][1] \in live \ {y}
    <3>1. t[k] \in Made /\ u[i] \in Made
      BY <2>1, <2>2, <2>4 DEF n
    <3>2. t[k] # u[i]
      BY <2>2, <2>3, <2>4 DEF Once, n
    <3>3. t[k] = <<t[k][1], t[k][1]>> /\ u[i] = <<u[i][2], u[i][2]>>
      BY <3>1 DEF Made
    <3>4. t[k][1] # u[i][2]
      BY <3>2, <3>3
    <3>5. t[k][1] \in live
      BY <2>3, <2>4
    <3>. QED
      BY <3>4, <3>5
  <2>. QED
    BY <1>1, <2>1, <2>6, <2>7 DEF Solo, Listing, u
<1>. HIDE DEF t
<1>4. together' \in BOOLEAN /\ (together => together') /\ together' = together
  BY <1>1 DEF FileInv
<1>. QED
  BY <1>1, <1>2, <1>3, <1>4, CallStep

LEMMA CleanupStep ==
    ASSUME FileInv, NEW m \in Managers, save_at_cleanup(m)
    PROVE  FileInv'
<1>1. /\ step[m] = "idle" /\ BeginSave(m, table[m], "down")
      /\ UNCHANGED <<file, buf, off, live, chunked, together>>
  BY DEF save_at_cleanup
<1>2. ~(chunked /\ together) => table[m] \in Seq(Made)
  BY DEF FileInv, FileShape
<1>3. ~together => Listing(table[m], live') /\ \A k \in Managers : step[k] # "down" => k = m
  BY <1>1 DEF FileInv, Solo
<1>4. together' \in BOOLEAN /\ (together => together') /\ together' = together
  BY <1>1 DEF FileInv
<1>. QED
  BY <1>1, <1>2, <1>3, <1>4, CallStep

LEMMA OpenStep ==
    ASSUME FileInv, NEW m \in Managers, save_open(m)
    PROVE  FileInv'
<1>1. /\ step[m] = "open" /\ file' = <<>>
      /\ step' = [step EXCEPT ![m] = "write"]
      /\ buf' = [buf EXCEPT ![m] = Lines(table[m])]
      /\ off' = [off EXCEPT ![m] = 0]
      /\ UNCHANGED <<table, next, live, chunked, together>>
  BY DEF save_open
<1>2. Regular(file)' /\ DistinctIds(file)' /\ Len(file') = 0
  BY <1>1, EmptyFile, EmptyFacts
<1>3. ASSUME ~(chunked /\ together)
      PROVE  FileShape'
  <2>1. FileShape
    BY <1>3 DEF FileInv
  <2>2. Lines(table[m]) \in Seq(AllLines)
    BY <2>1, LinesOf DEF FileShape
  <2>3. /\ step' \in [Managers -> Steps] /\ buf' \in [Managers -> Seq(AllLines)]
        /\ off' \in [Managers -> Nat]
    BY <1>1, <2>1, <2>2 DEF FileShape, Steps
  <2>4. ASSUME ~chunked, NEW k \in Managers, step'[k] = "write"
        PROVE  buf'[k] = <<>> \/ (off'[k] = 0 /\ buf'[k] = Lines(table'[k]))
    BY <1>1, <2>1, <2>4 DEF FileShape
  <2>. QED
    BY <1>1, <1>2, <2>1, <2>3, <2>4 DEF FileShape
<1>4. ASSUME ~together
      PROVE  Solo'
  <2>1. Solo /\ FileShape
    BY <1>4 DEF FileInv
  <2>2. step'[m] = "write" /\ \A k \in Managers : k # m => step'[k] = "down" /\ step[k] = "down"
    BY <1>1, <2>1 DEF Solo, FileShape
  <2>3. Writing(m)'
    <3>1. buf'[m] = Lines(table[m]) /\ off'[m] = 0
      BY <1>1, <2>1 DEF FileShape
    <3>2. Len(table[m]) \in Nat /\ Len(Lines(table[m])) = 3 * Len(table[m])
      BY <2>1, LinesOf DEF FileShape
    <3>3. \A i \in Nat : 0 + i = i
      OBVIOUS
    <3>. QED
      BY <1>1, <1>2, <3>1, <3>2, <3>3 DEF Writing
  <2>4. \A k \in Managers : Listing(table[k], live)' /\ (step'[k] = "down" => table'[k] = <<>>)
    BY <1>1, <2>1, <2>2 DEF Solo
  <2>. QED
    BY <1>2, <2>2, <2>3, <2>4 DEF Solo
<1>. QED
  BY <1>1, <1>3, <1>4 DEF FileInv

\* The first n elements of a sequence.
LEMMA Beginning ==
    ASSUME NEW T, NEW s \in Seq(T), NEW n \in 1..Len(s)
    PROVE  /\ SubSeq(s, 1, n) \in Seq(T) /\ Len(SubSeq(s, 1, n)) = n
           /\ \A i \in 1..n : SubSeq(s, 1, n)[i] = s[i]
  OBVIOUS

\* A whole save on top of what another manager has written.
LEMMA OverwriteRegular ==
    ASSUME NEW f, Regular(f), NEW t \in Seq(Made), NEW cut
    PROVE  Regular(Overlay(f, 0, Lines(t), cut))
<1>. DEFINE o == Overlay(f, 0, Lines(t), cut)
            n == Len(t)
            l == Len(f)
            q == Len(o)
<1>1. /\ f \in Seq(AllLines) /\ Lines(t) \in Seq(AllLines) /\ l \in Nat /\ n \in Nat
      /\ Len(Lines(t)) = 3 * n
  BY LinesOf DEF Regular
<1>2. /\ o \in Seq(AllLines) /\ q \in Nat
      /\ q = IF 3 * n > l THEN 3 * n ELSE l
      /\ \A i \in 1..(3 * n) : o[i] = Lines(t)[i]
      /\ \A i \in 1..q : i > 3 * n => o[i] = f[i] \/ (i = 3 * n + 1 /\ o[i].kind = "junk")
  <2>1. 0 \in Nat /\ 0 <= Len(f) /\ 0 + 3 * n = 3 * n /\ 0 + 3 * n + 1 = 3 * n + 1
    BY <1>1
  <2>2. \A i \in 1..(3 * n) : 0 + i = i
    BY <1>1
  <2>3. /\ o \in Seq(AllLines)
        /\ Len(o) = IF 0 + 3 * n > Len(f) THEN 0 + 3 * n ELSE Len(f)
        /\ \A i \in 1..(3 * n) : o[0 + i] = Lines(t)[i]
        /\ \A i \in 1..Len(o) : i > 0 + 3 * n => o[i] = f[i] \/ (i = 0 + 3 * n + 1 /\ o[i].kind = "junk")
    <3>1. Wrote(o, f, 0, Lines(t))
      BY <1>1, <2>1, WriteFacts
    <3>. HIDE DEF o, n
    <3>. QED
      BY <1>1, <3>1 DEF Wrote
  <2>. HIDE DEF o
  <2>4. Len(o) \in Nat
    BY <2>3
  <2>. QED
    BY <2>1, <2>2, <2>3, <2>4
<1>. HIDE DEF o, n, l, q
<1>3. \A j \in Nat : j < n =>
         /\ o[3 * j + 1] = Line("id", t[j + 1][1]) /\ t[j + 1][1] \in Ids
         /\ o[3 * j + 2] = Line("pid", t[j + 1][1])
         /\ o[3 * j + 3] = Line("end", 0)
  <2>. SUFFICES ASSUME NEW j \in Nat, j < n
                PROVE  /\ o[3 * j + 1] = Line("id", t[j + 1][1]) /\ t[j + 1][1] \in Ids
                       /\ o[3 * j + 2] = Line("pid", t[j + 1][1])
                       /\ o[3 * j + 3] = Line("end", 0)
    OBVIOUS
  <2>1. 3 * j + 1 \in 1..(3 * n) /\ 3 * j + 2 \in 1..(3 * n) /\ 3 * j + 3 \in 1..(3 * n)
    BY <1>1
  <2>2. /\ Lines(t)[3 * j + 1] = Line("id", t[j + 1][1]) /\ t[j + 1][1] \in Ids
        /\ Lines(t)[3 * j + 2] = Line("pid", t[j + 1][1])
        /\ Lines(t)[3 * j + 3] = Line("end", 0)
    BY LinesOf DEF n
  <2>. QED
    BY <1>2, <2>1, <2>2
<1>4. ASSUME NEW j \in Nat, ~(j < n)
      PROVE  /\ 3 * j + 1 <= q => 3 * j + 1 <= l /\ (o[3 * j + 1] = f[3 * j + 1] \/ o[3 * j + 1].kind = "junk")
             /\ 3 * j + 2 <= q => 3 * j + 2 <= l /\ o[3 * j + 2] = f[3 * j + 2]
             /\ 3 * j + 3 <= q => 3 * j + 3 <= l /\ o[3 * j + 3] = f[3 * j + 3]
  <2>1. 3 * j + 1 > 3 * n /\ 3 * j + 2 > 3 * n /\ 3 * j + 3 > 3 * n /\ 3 * j + 2 # 3 * n + 1 /\ 3 * j + 3 # 3 * n + 1
    BY <1>1, <1>4
  <2>2. \A i \in Nat : i > 3 * n /\ i <= q => i <= l /\ i \in 1..q
    BY <1>1, <1>2
  <2>. QED
    BY <1>2, <2>1, <2>2
<1>5. ASSUME NEW j \in Nat, 3 * j + 1 <= q
      PROVE  \/ o[3 * j + 1].kind = "junk"
             \/ o[3 * j + 1].kind = "id" /\ o[3 * j + 1].value \in Ids
  <2>1. CASE j < n
    <3>1. o[3 * j + 1] = Line("id", t[j + 1][1]) /\ t[j + 1][1] \in Ids
      BY <1>3, <2>1
    <3>. QED
      BY <3>1 DEF Line
  <2>2. CASE ~(j < n)
    BY <1>4, <1>5, <2>2 DEF Regular, l
  <2>. QED
    BY <2>1, <2>2
<1>6. ASSUME NEW j \in Nat, 3 * j + 2 <= q
      PROVE  /\ o[3 * j + 2].kind = "pid"
             /\ o[3 * j + 1].kind = "id" => o[3 * j + 2].value = o[3 * j + 1].value
  <2>1. CASE j < n
    <3>1. o[3 * j + 1] = Line("id", t[j + 1][1]) /\ o[3 * j + 2] = Line("pid", t[j + 1][1])
      BY <1>3, <2>1
    <3>. QED
      BY <3>1 DEF Line
  <2>2. CASE ~(j < n)
    <3>1. /\ o[3 * j + 2] = f[3 * j + 2] /\ 3 * j + 2 <= l
          /\ o[3 * j + 1] = f[3 * j + 1] \/ o[3 * j + 1].kind = "junk"
      BY <1>2, <1>4, <1>6, <2>2
    <3>2. f[3 * j + 2].kind = "pid" /\ (f[3 * j + 1].kind = "id" => f[3 * j + 2].value = f[3 * j + 1].value)
      BY <3>1 DEF Regular, l
    <3>. QED
      BY <3>1, <3>2
  <2>. QED
    BY <2>1, <2>2
<1>7. ASSUME NEW j \in Nat, 3 * j + 3 <= q
      PROVE  o[3 * j + 3].kind = "end"
  <2>1. CASE j < n
    <3>1. o[3 * j + 3] = Line("end", 0)
      BY <1>3, <2>1
    <3>. QED
      BY <3>1 DEF Line
  <2>2. CASE ~(j < n)
    BY <1>4, <1>7, <2>2 DEF Regular, l
  <2>. QED
    BY <2>1, <2>2
<1>8. Regular(o)
  BY <1>2, <1>5, <1>6, <1>7 DEF Regular, q
<1>. QED
  BY <1>8 DEF o

LEMMA WriteStep ==
    ASSUME FileInv, NEW m \in Managers, NEW n \in 1..Len(buf[m]), NEW cut, save_write(m, n, cut)
    PROVE  FileInv'
<1>. DEFINE b == buf[m]
            t == table[m]
            lines == SubSeq(b, 1, n)
            left == SubSeq(b, n + 1, Len(b))
<1>1. /\ step[m] = "write" /\ (~chunked => n = Len(b))
      /\ file' = Overlay(file, off[m], lines, cut)
      /\ buf' = [buf EXCEPT ![m] = left]
      /\ off' = [off EXCEPT ![m] = off[m] + n]
      /\ UNCHANGED <<table, step, next, live, chunked, together>>
  BY DEF save_write
<1>2. ASSUME ~(chunked /\ together)
      PROVE  /\ FileShape /\ b \in Seq(AllLines) /\ t \in Seq(Made) /\ n \in Nat /\ n <= Len(b) /\ n \in 1..Len(b)
             /\ lines \in Seq(AllLines) /\ Len(lines) = n /\ \A i \in 1..n : lines[i] = b[i]
             /\ left \in Seq(AllLines) /\ Len(left) = Len(b) - n /\ \A i \in 1..(Len(b) - n) : left[i] = b[n + i]
             /\ Len(b) \in Nat /\ Len(t) \in Nat /\ file \in Seq(AllLines) /\ Len(file) \in Nat
  <2>1. FileShape
    BY <1>2 DEF FileInv
  <2>2. b \in Seq(AllLines) /\ t \in Seq(Made) /\ file \in Seq(AllLines)
    BY <2>1 DEF FileShape, Regular
  <2>3. n \in Nat /\ n <= Len(b) /\ n \in 1..Len(b) /\ Len(b) \in Nat /\ Len(t) \in Nat /\ Len(file) \in Nat
    BY <2>2
  <2>. HIDE DEF b
  <2>4. lines \in Seq(AllLines) /\ Len(lines) = n /\ \A i \in 1..n : lines[i] = b[i]
    BY <2>2, <2>3, Beginning
  <2>5. left \in Seq(AllLines) /\ Len(left) = Len(b) - n /\ \A i \in 1..(Len(b) - n) : left[i] = b[n + i]
    BY <2>2, <2>3, Remainder
  <2>. QED
    BY <2>1, <2>2, <2>3, <2>4, <2>5
<1>3. ASSUME ~together
      PROVE  Writing(m)' /\ Regular(file)' /\ DistinctIds(file)'
  <2>. DEFINE k == Len(file)
              o == file'
              p == Len(b)
  <2>1. Solo /\ Writing(m) /\ Once(t)
    BY <1>1, <1>3 DEF FileInv, Solo, Listing
  <2>2. /\ k = off[m] /\ k + p = 3 * Len(t)
        /\ \A i \in 1..k : file[i] = Lines(t)[i]
        /\ \A i \in 1..p : b[i] = Lines(t)[k + i]
    BY <2>1 DEF Writing
  <2>3. k \in Nat /\ p \in Nat /\ n \in 1..p /\ k <= Len(file) /\ k + n > k
    BY <1>2, <1>3
  <2>. HIDE DEF k, p, lines, left, b, t
  <2>4. /\ o \in Seq(AllLines) /\ Len(o) = k + n
        /\ \A i \in 1..k : o[i] = file[i]
        /\ \A i \in 1..n : o[k + i] = lines[i]
    <3>1. Wrote(o, file, k, lines)
      BY <1>1, <1>2, <1>3, <2>2, <2>3, WriteFacts
    <3>2. Len(lines) = n /\ Len(file) = k
      BY <1>2, <1>3 DEF k
    <3>. HIDE DEF o
    <3>. QED
      BY <2>3, <3>1, <3>2 DEF Wrote
  <2>. HIDE DEF o
  <2>5. \A i \in 1..n : o[k + i] = Lines(t)[k + i]
    <3>1. \A i \in 1..n : lines[i] = b[i]
      BY <1>2, <1>3
    <3>2. \A i \in 1..n : i \in 1..p
      BY <2>3
    <3>. QED
      BY <2>2, <2>4, <3>1, <3>2
  <2>6. \A i \in 1..(k + n) : o[i] = Lines(t)[i]
    <3>. SUFFICES ASSUME NEW i \in 1..(k + n)
                  PROVE  o[i] = Lines(t)[i]
      OBVIOUS
    <3>1. CASE i \in 1..k
      BY <2>2, <2>4, <3>1
    <3>2. CASE i \notin 1..k
      <4>. DEFINE d == i - k
      <4>1. d \in 1..n /\ k + d = i
        BY <2>3, <3>2
      <4>. HIDE DEF d
      <4>2. o[k + d] = Lines(t)[k + d]
        BY <2>5, <4>1
      <4>. QED
        BY <4>1, <4>2
    <3>. QED
      BY <3>1, <3>2
  <2>7. off'[m] = k + n /\ buf'[m] = left /\ table'[m] = t
    <3>1. buf \in [Managers -> Seq(AllLines)] /\ off \in [Managers -> Nat]
      BY <1>2, <1>3 DEF FileShape
    <3>. QED
      BY <1>1, <2>2, <3>1 DEF t
  <2>8. (k + n) + (p - n) = 3 * Len(t) /\ k + n <= 3 * Len(t)
    <3>1. Len(t) \in Nat /\ k + p = 3 * Len(t)
      BY <1>2, <1>3, <2>2
    <3>. QED
      BY <2>3, <3>1
  <2>9. \A i \in 1..(p - n) : left[i] = Lines(t)[(k + n) + i]
    <3>. SUFFICES ASSUME NEW i \in 1..(p - n)
                  PROVE  left[i] = Lines(t)[(k + n) + i]
      OBVIOUS
    <3>1. n + i \in 1..p /\ k + (n + i) = (k + n) + i
      BY <2>3
    <3>2. left[i] = b[n + i]
      BY <1>2, <1>3 DEF p
    <3>3. b[n + i] = Lines(t)[k + (n + i)]
      BY <2>2, <3>1
    <3>. QED
      BY <3>1, <3>2, <3>3
  <2>10. Len(left) = p - n
    BY <1>2, <1>3 DEF p
  <2>11. Writing(m)'
    BY <2>4, <2>6, <2>7, <2>8, <2>9, <2>10 DEF Writing, o
  <2>12. Prefix(o, t) /\ t \in Seq(Made)
    BY <1>2, <1>3, <2>4, <2>6, <2>8 DEF Prefix
  <2>. QED
    BY <2>1, <2>11, <2>12, PrefixRegular DEF o
<1>4. ASSUME ~chunked
      PROVE  /\ Regular(file)'
             /\ left = <<>>
  <2>1. off[m] = 0 /\ b = Lines(t) /\ n = Len(b)
    <3>1. b = <<>> \/ (off[m] = 0 /\ b = Lines(t))
      BY <1>1, <1>2, <1>4 DEF FileShape
    <3>2. Len(<<>>) = 0
      OBVIOUS
    <3>3. b # <<>>
      BY <1>2, <1>4, <3>2
    <3>. QED
      BY <1>1, <1>4, <3>1, <3>3
  <2>2. lines = b
    BY <1>2, <1>4, <2>1, SubSeqFull
  <2>3. Regular(Overlay(file, 0, Lines(t), cut))
    BY <1>2, <1>4, OverwriteRegular DEF FileShape
  <2>4. left = <<>>
    <3>. HIDE DEF left, b
    <3>1. left \in Seq(AllLines) /\ Len(left) = 0
      BY <1>2, <1>4, <2>1
    <3>. QED
      BY <3>1
  <2>5. file' = Overlay(file, 0, Lines(t), cut)
    BY <1>1, <2>1, <2>2
  <2>. QED
    BY <2>3, <2>4, <2>5
<1>. HIDE DEF b, t, lines, left
<1>5. ASSUME ~(chunked /\ together)
      PROVE  FileShape'
  <2>1. FileShape /\ left \in Seq(AllLines) /\ n \in Nat
    BY <1>2, <1>5
  <2>2. buf' \in [Managers -> Seq(AllLines)] /\ off' \in [Managers -> Nat]
    BY <1>1, <2>1 DEF FileShape
  <2>3. Regular(file)'
    BY <1>3, <1>4, <1>5 DEF FileInv
  <2>4. ASSUME ~chunked, NEW k \in Managers, step'[k] = "write"
        PROVE  buf'[k] = <<>> \/ (off'[k] = 0 /\ buf'[k] = Lines(table'[k]))
    BY <1>1, <1>4, <2>1, <2>4 DEF FileShape
  <2>. QED
    BY <1>1, <2>1, <2>2, <2>3, <2>4 DEF FileShape
<1>6. ASSUME ~together
      PROVE  Solo'
  <2>1. Solo /\ Writing(m)' /\ DistinctIds(file)'
    BY <1>3, <1>6 DEF FileInv
  <2>2. \A k \in Managers : k # m => step'[k] = "down" /\ step[k] = "down"
    BY <1>1, <2>1 DEF Solo
  <2>3. step'[m] = "write"
    BY <1>1
  <2>4. \A k \in Managers : Listing(table[k], live)' /\ (step'[k] = "down" => table'[k] = <<>>)
    BY <1>1, <2>1 DEF Solo
  <2>. QED
    BY <2>1, <2>2, <2>3, <2>4 DEF Solo
<1>. QED
  BY <1>1, <1>5, <1>6 DEF FileInv

LEMMA CloseStep ==
    ASSUME FileInv, NEW m \in Managers, save_close(m)
    PROVE  FileInv'
<1>1. /\ step[m] = "write" /\ buf[m] = <<>>
      /\ step' = [step EXCEPT ![m] = next[m]]
      /\ table' = [table EXCEPT ![m] = IF next[m] = "down" THEN <<>> ELSE table[m]]
      /\ UNCHANGED <<file, next, buf, off, live, chunked, together>>
  BY DEF save_close
<1>2. ASSUME ~(chunked /\ together)
      PROVE  FileShape'
  <2>1. FileShape
    BY <1>2 DEF FileInv
  <2>2. step' \in [Managers -> Steps] /\ table' \in [Managers -> Seq(Made)]
    BY <1>1, <2>1, EmptyFacts DEF FileShape, Steps
  <2>3. \A k \in Managers : step'[k] = "write" => k # m /\ step[k] = "write" /\ table'[k] = table[k]
    BY <1>1, <2>1 DEF FileShape
  <2>4. Regular(file)'
    BY <1>1, <2>1 DEF FileShape
  <2>. QED
    BY <1>1, <2>1, <2>2, <2>3, <2>4 DEF FileShape
<1>3. ASSUME ~together
      PROVE  Solo'
  <2>. DEFINE t == table[m]
  <2>1. Solo /\ FileShape /\ Writing(m)
    BY <1>1, <1>3 DEF FileInv, Solo
  <2>2. /\ \A k \in Managers : k # m => step'[k] = "down" /\ table'[k] = <<>>
        /\ step'[m] \in {"idle", "down"}
        /\ table'[m] = IF step'[m] = "down" THEN <<>> ELSE t
    BY <1>1, <2>1 DEF Solo, FileShape
  <2>3. t \in Seq(Made) /\ Listing(t, live)
    BY <2>1 DEF FileShape, Solo
  <2>4. file = Lines(t)
    <3>1. Len(buf[m]) = 0 /\ file \in Seq(AllLines) /\ Len(file) \in Nat
      BY <1>1, <2>1, EmptyFacts DEF FileShape, Regular
    <3>2. /\ Lines(t) \in Seq(AllLines) /\ Len(Lines(t)) = 3 * Len(t)
      BY <2>3, LinesOf
    <3>3. Len(file) = Len(Lines(t)) /\ \A i \in 1..Len(file) : file[i] = Lines(t)[i]
      BY <2>1, <3>1, <3>2 DEF Writing
    <3>. DEFINE s == Lines(t)
    <3>. HIDE DEF s
    <3>. QED
      BY <3>1, <3>2, <3>3 DEF s
  <2>5. load_state(file, live) = t
    BY <2>3, <2>4, LoadWhatWasSaved DEF Listing
  <2>6. load_state(file, live)' = t
    BY <1>1, <2>5
  <2>7. \A k \in Managers : Listing(table'[k], live')
    BY <1>1, <2>2, <2>3, EmptyFacts
  <2>8. DistinctIds(file)'
    BY <1>1, <2>1 DEF Solo
  <2>. HIDE DEF t
  <2>. QED
    BY <2>2, <2>6, <2>7, <2>8 DEF Solo
<1>. QED
  BY <1>1, <1>2, <1>3 DEF FileInv

LEMMA CrashStep ==
    ASSUME FileInv, NEW m \in Managers, crash(m)
    PROVE  FileInv'
<1>1. /\ step' = [step EXCEPT ![m] = "down"]
      /\ table' = [table EXCEPT ![m] = <<>>]
      /\ buf' = [buf EXCEPT ![m] = <<>>]
      /\ step[m] # "down"
      /\ UNCHANGED <<file, next, off, live, chunked, together>>
  BY DEF crash
<1>2. ASSUME ~(chunked /\ together)
      PROVE  FileShape'
  <2>1. FileShape
    BY <1>2 DEF FileInv
  <2>2. /\ step' \in [Managers -> Steps] /\ table' \in [Managers -> Seq(Made)]
        /\ buf' \in [Managers -> Seq(AllLines)]
    BY <1>1, <2>1, EmptyFacts DEF FileShape, Steps
  <2>3. \A k \in Managers : step'[k] = "write" =>
           k # m /\ step[k] = "write" /\ table'[k] = table[k] /\ buf'[k] = buf[k]
    BY <1>1, <2>1 DEF FileShape
  <2>4. Regular(file)'
    BY <1>1, <2>1 DEF FileShape
  <2>. QED
    BY <1>1, <2>1, <2>2, <2>3, <2>4 DEF FileShape
<1>3. ASSUME ~together
      PROVE  Solo'
  <2>1. Solo /\ FileShape
    BY <1>3 DEF FileInv
  <2>2. \A k \in Managers : step'[k] = "down" /\ table'[k] = <<>>
    BY <1>1, <2>1 DEF Solo, FileShape
  <2>3. \A k \in Managers : Listing(table'[k], live')
    BY <2>2, EmptyFacts
  <2>4. DistinctIds(file)'
    BY <1>1, <2>1 DEF Solo
  <2>. QED
    BY <2>2, <2>3, <2>4 DEF Solo
<1>. QED
  BY <1>1, <1>2, <1>3 DEF FileInv

LEMMA FileStutter ==
    ASSUME FileInv, UNCHANGED fileVars
    PROVE  FileInv'
<1>1. UNCHANGED <<file, table, step, next, buf, off, live, chunked, together>>
  BY DEF fileVars
<1>2. FileShape => FileShape'
  BY <1>1 DEF FileShape
<1>3. Solo => Solo'
  BY <1>1 DEF Solo, Writing
<1>. QED
  BY <1>1, <1>2, <1>3 DEF FileInv

LEMMA FileInductive == FileSpec => []FileInv
<1>1. FileInit => FileInv
  <2>. SUFFICES ASSUME FileInit
                PROVE  FileInv
    OBVIOUS
  <2>1. FileShape
    BY EmptyFacts, EmptyFile DEF FileInit, FileShape, Steps
  <2>2. Solo
    BY EmptyFacts, EmptyFile DEF FileInit, Solo
  <2>. QED
    BY <2>1, <2>2 DEF FileInit, FileInv
<1>2. ASSUME FileInv, [FileNext]_fileVars
      PROVE  FileInv'
  <2>1. CASE FileNext
    <3>1. PICK m \in Managers :
             \/ container_manager_init(m)
             \/ \E x \in Ids : container_manager_run(m, x)
             \/ \E i \in DOMAIN table[m] : container_manager_destroy(m, i)
             \/ save_at_cleanup(m)
             \/ save_open(m)
             \/ \E n \in 1..Len(buf[m]), cut \in BOOLEAN : save_write(m, n, cut)
             \/ save_close(m)
             \/ crash(m)
      BY <2>1 DEF FileNext
    <3>. QED
      BY <1>2, <3>1, InitStep, RunStep, DestroyStep, CleanupStep, OpenStep, WriteStep, CloseStep, CrashStep
  <2>2. CASE UNCHANGED fileVars
    BY <1>2, <2>2, FileStutter
  <2>. QED
    BY <1>2, <2>1, <2>2
<1>. QED
  BY <1>1, <1>2, PTL DEF FileSpec

\* No manager ever has a record whose id and pid were not saved together, for any
\* number of managers that are started, killed in the middle of a save and write
\* over each other, and for files of any length, unless two managers write a long
\* file in parts at the same time.
THEOREM LoadsWhatWasSaved == FileSpec => []LoadedWasSaved
<1>1. FileInv => LoadedWasSaved
  <2>. SUFFICES ASSUME FileShape, NEW m \in Managers, NEW r \in Records(table[m])
                PROVE  r[1] = r[2]
    BY DEF FileInv, LoadedWasSaved
  <2>1. r \in Made
    BY DEF FileShape, Records
  <2>. QED
    BY <2>1 DEF Made
<1>. QED
  BY <1>1, FileInductive, PTL

\* As long as no two managers are up at the same time, load_state would find
\* exactly the manager's table in the file between any two of its calls, for
\* tables of any length, whatever a manager that was killed in the middle of a
\* save has left there.
THEOREM TableIsSaved == FileSpec => []SavedWhenIdle
<1>1. FileInv => SavedWhenIdle
  BY DEF FileInv, Solo, SavedWhenIdle
<1>. QED
  BY <1>1, FileInductive, PTL
=============================================================================
