--------------------------- MODULE ConsoleProofs ---------------------------
(***************************************************************************)
(* Proofs about what the user types: the terminal is given back, limits    *)
(* reach the cgroup as asked, an automatic id is refused only behind the   *)
(* largest int, and the memory and CPU test does not leak.                 *)
(***************************************************************************)
EXTENDS Terminal, Limits, ContainerIds, Configurations, WellFoundedInduction, TLAPS

(***************************************************************************)
(* The terminal.                                                           *)
(***************************************************************************)

\* The menu has saved the settings it was started with, and they are in force
\* where it asks; killed marks the behaviours the handler has cut short.
RestoreInv ==
    program = "menu" =>
        /\ menu_old = "cooked"
        /\ pc \in {"menu_begin", "menu_form", "menu_exit"} => term = "cooked"
        /\ pc \in {"menu_form", "menu_exit"} => cursor = TRUE
        /\ pc = "ended" /\ killed = FALSE => term = "cooked" /\ cursor = TRUE

\* Unless a signal ends it, the menu gives the terminal back as it found it and
\* asks its questions in that mode, after any keys in any order and however many
\* monitors were left in raw mode (interactive_menu, display_monitor).
THEOREM MenuRestoresTerminal == TerminalSpec => []TerminalRestored
  <1>1. TerminalInit => RestoreInv /\ killed \in BOOLEAN
    BY DEF TerminalInit, Start, RestoreInv
  <1>2. (RestoreInv /\ killed \in BOOLEAN) /\ [TerminalNext]_terminalVars
           => (RestoreInv /\ killed \in BOOLEAN)'
    <2> SUFFICES ASSUME RestoreInv, killed \in BOOLEAN, [TerminalNext]_terminalVars
                 PROVE  RestoreInv' /\ killed' \in BOOLEAN
      OBVIOUS
    <2> USE DEF RestoreInv
    <2>1. CASE menu_begin
      BY <2>1 DEF menu_begin
    <2>2. CASE menu_loop
      BY <2>2 DEF menu_loop
    <2>3. CASE menu_refresh
      BY <2>3 DEF menu_refresh
    <2>4. CASE menu_key
      <3>1. /\ term' = menu_old /\ cursor' = TRUE /\ pc' # "ended"
            /\ UNCHANGED <<program, menu_old, killed>>
        BY <2>4 DEF menu_key, Option
      <3> QED BY <3>1
    <2>5. CASE menu_form
      BY <2>5 DEF menu_form
    <2>6. ASSUME NEW stopped \in BOOLEAN, menu_exit(stopped)
          PROVE  RestoreInv' /\ killed' \in BOOLEAN
      BY <2>6 DEF menu_exit
    <2>7. CASE menu_done
      BY <2>7 DEF menu_done
    <2>8. CASE menu_end
      BY <2>8 DEF menu_end
    <2>9. CASE monitor_begin
      BY <2>9 DEF monitor_begin
    <2>10. CASE monitor_loop
      BY <2>10 DEF monitor_loop
    <2>11. CASE monitor_read
      <3>1. pc' \in {"monitor_end", "monitor_loop"} /\ UNCHANGED <<program, menu_old, killed>>
        BY <2>11 DEF monitor_read
      <3> QED BY <3>1
    <2>12. CASE monitor_end
      BY <2>12 DEF monitor_end
    <2>13. ASSUME NEW k \in Keys, press(k)
           PROVE  RestoreInv' /\ killed' \in BOOLEAN
      BY <2>13 DEF press
    <2>14. CASE signal_handler
      BY <2>14 DEF signal_handler
    <2>15. CASE UNCHANGED terminalVars
      BY <2>15 DEF terminalVars
    <2> QED BY <2>1, <2>2, <2>3, <2>4, <2>5, <2>6, <2>7, <2>8, <2>9, <2>10, <2>11, <2>12,
               <2>13, <2>14, <2>15 DEF TerminalNext, Main
  <1>3. RestoreInv /\ killed \in BOOLEAN => TerminalRestored
    BY DEF RestoreInv, TerminalRestored
  <1> QED BY <1>1, <1>2, <1>3, PTL DEF TerminalSpec

(***************************************************************************)
(* The limits.                                                             *)
(***************************************************************************)

\* What may be typed is a natural number.
LEMMA TypedNumbers == Mbs \subseteq Nat /\ Shares \subseteq Nat
  <1>1. MaxTyped \in Nat
    BY DEF MaxTyped
  <1> QED BY <1>1, LimitsAssumption

\* Up to 2047 MB the bytes fit an int.
LEMMA BytesFit ==
    ASSUME NEW mb \in Nat, mb <= 2047
    PROVE  LimitBytes(mb) = mb
  BY DEF LimitBytes

\* Up to 21474 shares the product fits an int.
LEMMA ProductFits ==
    ASSUME NEW s \in Nat, 0 < s, s <= 21474
    PROVE  Product(s) = s * 3125
  <1> DEFINE n == s * 3125 + 67108864
  <1>1. n \in Nat /\ n < 134217728
    OBVIOUS
  <1>2. n % 134217728 = n
    <2> HIDE DEF n
    <2> QED BY <1>1
  <1> QED BY <1>2 DEF Product

\* Up to 21474 shares the quota is the part of the period that they stand for.
LEMMA QuotaProportional ==
    ASSUME NEW s \in Nat, 0 < s, s <= 21474
    PROVE  /\ Quota(s) \in Nat
           /\ \/ Quota(s) = 1000 /\ s * 3125 < 1000 * 32
              \/ Quota(s) * 32 <= s * 3125 /\ s * 3125 < (Quota(s) + 1) * 32
  <1>1. Product(s) = s * 3125
    BY ProductFits
  <1>2. Quota(s) = IF (s * 3125) \div 32 < 1000 THEN 1000 ELSE (s * 3125) \div 32
    BY <1>1 DEF Quota
  <1> QED BY <1>2

\* More shares give no smaller a quota and no smaller a weight.
LEMMA QuotaMonotone ==
    ASSUME NEW s \in Nat, NEW u \in Nat, 0 < s, s <= u, u <= 21474
    PROVE  Quota(s) <= Quota(u) /\ Weight(s) <= Weight(u)
  <1>1. Product(s) = s * 3125 /\ Product(u) = u * 3125
    BY ProductFits
  <1>2. (s * 3125) \div 32 <= (u * 3125) \div 32
    OBVIOUS
  <1>3. Quota(s) <= Quota(u)
    BY <1>1, <1>2 DEF Quota
  <1>4. Weight(s) <= Weight(u)
    BY DEF Weight
  <1> QED BY <1>3, <1>4

\* The conversions give integers.
LEMMA LimitsAreInts ==
    ASSUME NEW s \in Nat, NEW mb \in Int
    PROVE  /\ LimitBytes(mb) \in Int /\ MemoryMax(mb) \in Int
           /\ Quota(s) \in Int /\ Weight(s) \in Int
  <1>1. Product(s) \in Int
    BY DEF Product
  <1>2. Quota(s) \in Int
    BY <1>1 DEF Quota, Unlimited
  <1> QED BY <1>2 DEF LimitBytes, MemoryMax, Unlimited, Weight

\* The weight of a container that was made without a failure.
WeightOf(v, s) == IF v = "v2" \/ s <= 0 THEN Unlimited ELSE Weight(s)

\* What a user may have asked for, and the shape of an entry.
Numbers == [mb : Mbs \cup {DefaultMb}, shares : Shares \cup {DefaultShares}]
Entry == [asked : Numbers, failed : BOOLEAN, quota : Int, weight : Int, memory : Int]

\* An entry has what its numbers are converted to.
Converted(v, c) ==
    c.failed = FALSE =>
        /\ c.memory = MemoryMax(LimitBytes(c.asked.mb))
        /\ c.quota = Quota(c.asked.shares)
        /\ c.weight = WeightOf(v, c.asked.shares)

\* The configuration always is what was typed, converted; and so are the entries.
LimitsInv ==
    /\ asked \in Numbers
    /\ config = [mb |-> LimitBytes(asked.mb), shares |-> asked.shares]
    /\ made \in Seq(Entry)
    /\ \A i \in DOMAIN made : Converted(version, made[i])

LEMMA NumbersAreNat ==
    ASSUME NEW a \in Numbers
    PROVE  a.mb \in Nat /\ a.shares \in Nat
  <1>1. a.mb \in Mbs \cup {DefaultMb} /\ a.shares \in Shares \cup {DefaultShares}
    BY DEF Numbers
  <1>2. DefaultMb \in Nat /\ DefaultShares \in Nat
    BY DEF DefaultMb, DefaultShares
  <1> QED BY <1>1, <1>2, TypedNumbers

\* What the invariant says of the containers the properties speak of.
LEMMA SoundEntry ==
    ASSUME LimitsInv, NEW c \in Sound
    PROVE  /\ c.asked \in Numbers
           /\ c.memory = MemoryMax(LimitBytes(c.asked.mb))
           /\ c.quota = Quota(c.asked.shares)
           /\ c.weight = WeightOf(version, c.asked.shares)
  <1>1. PICK i \in DOMAIN made : c = made[i]
    BY DEF Sound
  <1>2. c \in Entry /\ Converted(version, c)
    BY <1>1 DEF LimitsInv
  <1>3. c.failed \in BOOLEAN /\ c.asked \in Numbers
    BY <1>2 DEF Entry
  <1>4. ~c.failed
    BY DEF Sound
  <1>5. c.failed = FALSE
    BY <1>3, <1>4
  <1> QED BY <1>2, <1>3, <1>5 DEF Converted

LEMMA LimitsInductive == LimitsSpec => []LimitsInv
  <1>1. LimitsInit => LimitsInv
    <2> SUFFICES ASSUME LimitsInit
                 PROVE  LimitsInv
      OBVIOUS
    <2>1. asked \in Numbers /\ made = <<>>
      BY DEF LimitsInit, Defaults, Numbers
    <2>2. config = [mb |-> LimitBytes(asked.mb), shares |-> asked.shares]
      BY DEF LimitsInit, Defaults, DefaultMb, LimitBytes
    <2> QED BY <2>1, <2>2 DEF LimitsInv
  <1>2. LimitsInv /\ [LimitsNext]_limitsVars => LimitsInv'
    <2> SUFFICES ASSUME LimitsInv, [LimitsNext]_limitsVars
                 PROVE  LimitsInv'
      OBVIOUS
    <2>0. ASSUME UNCHANGED <<version, made>>, asked' \in Numbers,
                 config' = [mb |-> LimitBytes(asked'.mb), shares |-> asked'.shares]
          PROVE  LimitsInv'
      BY <2>0 DEF LimitsInv
    <2>1. ASSUME NEW who \in {"run", "menu"}, resource_limits_init(who)
          PROVE  LimitsInv'
      <3>1. asked' = Defaults /\ config' = Defaults /\ UNCHANGED <<version, made>>
        BY <2>1 DEF resource_limits_init
      <3>2. asked' \in Numbers
        BY <3>1 DEF Defaults, Numbers
      <3>3. config' = [mb |-> LimitBytes(asked'.mb), shares |-> asked'.shares]
        BY <3>1 DEF Defaults, DefaultMb, LimitBytes
      <3> QED BY <3>1, <3>2, <3>3, <2>0
    <2>2. ASSUME NEW mb \in Mbs, option_memory(mb)
          PROVE  LimitsInv'
      <3>1. asked' = [asked EXCEPT !.mb = mb] /\ config' = [config EXCEPT !.mb = LimitBytes(mb)]
        BY <2>2 DEF option_memory
      <3> QED BY <3>1, <2>2, <2>0 DEF option_memory, LimitsInv, Numbers
    <2>3. ASSUME NEW s \in Shares, option_cpu(s)
          PROVE  LimitsInv'
      <3>1. asked' = [asked EXCEPT !.shares = s] /\ config' = [config EXCEPT !.shares = s]
        BY <2>3 DEF option_cpu
      <3> QED BY <3>1, <2>3, <2>0 DEF option_cpu, LimitsInv, Numbers
    <2>4. CASE usage_error
      BY <2>4, <2>0 DEF LimitsInv, usage_error
    <2>5. ASSUME NEW mb \in Mbs, NEW s \in Shares, menu_answers(mb, s)
          PROVE  LimitsInv'
      BY <2>5, <2>0 DEF Numbers, menu_answers
    <2>6. ASSUME NEW F \in SUBSET WriteFaults, create_cgroup(F)
          PROVE  LimitsInv'
      <3> DEFINE new == [asked |-> asked, failed |-> F # {},
                         quota |-> CpuWritten(F).quota, weight |-> CpuWritten(F).weight,
                         memory |-> IF "memory" \in F THEN Unlimited
                                    ELSE MemoryMax(config.mb)]
      <3>1. made' = Append(made, new) /\ UNCHANGED <<version, config, asked>>
        BY <2>6 DEF create_cgroup
      <3>2. asked \in Numbers /\ asked.shares \in Nat /\ asked.mb \in Nat
        BY NumbersAreNat DEF LimitsInv
      <3>3. config.shares = asked.shares /\ config.mb = LimitBytes(asked.mb)
        BY DEF LimitsInv
      <3>4. LimitBytes(asked.mb) \in Int
        BY <3>2, LimitsAreInts
      <3>5. MemoryMax(config.mb) \in Int /\ Quota(config.shares) \in Int /\ Weight(config.shares) \in Int
        BY <3>2, <3>3, <3>4, LimitsAreInts
      <3>6. CpuWritten(F).quota \in Int /\ CpuWritten(F).weight \in Int
        BY <3>5 DEF CpuWritten, Unlimited
      <3>7. new \in Entry
        BY <3>2, <3>5, <3>6 DEF Entry, Unlimited
      <3>8. Converted(version, new)
        <4>1. new.asked = asked /\ (new.failed = FALSE => F = {})
          OBVIOUS
        <4>2. F = {} => /\ CpuWritten(F).quota = Quota(asked.shares)
                        /\ CpuWritten(F).weight = WeightOf(version, asked.shares)
          BY <3>3 DEF CpuWritten, WeightOf
        <4>3. F = {} => new.memory = MemoryMax(LimitBytes(asked.mb))
          BY <3>3
        <4>4. new.quota = CpuWritten(F).quota /\ new.weight = CpuWritten(F).weight
          OBVIOUS
        <4> HIDE DEF new
        <4> QED BY <4>1, <4>2, <4>3, <4>4 DEF Converted
      <3> HIDE DEF new
      <3>9. made' \in Seq(Entry) /\ DOMAIN made' = 1..(Len(made) + 1) /\ Len(made) \in Nat
        BY <3>1, <3>7 DEF LimitsInv
      <3>10. ASSUME NEW i \in DOMAIN made'
             PROVE  Converted(version, made'[i])
        <4>1. CASE i = Len(made) + 1
          <5>1. made'[i] = new
            BY <4>1, <3>1 DEF LimitsInv
          <5> QED BY <5>1, <3>8
        <4>2. CASE i # Len(made) + 1
          <5>1. i \in DOMAIN made /\ made'[i] = made[i]
            BY <4>2, <3>1, <3>9 DEF LimitsInv
          <5> QED BY <5>1 DEF LimitsInv
        <4> QED BY <4>1, <4>2
      <3> QED BY <3>1, <3>9, <3>10 DEF LimitsInv
    <2>7. CASE UNCHANGED limitsVars
      BY <2>7, <2>0 DEF LimitsInv, limitsVars
    <2> QED BY <2>1, <2>2, <2>3, <2>4, <2>5, <2>6, <2>7 DEF LimitsNext
  <1> QED BY <1>1, <1>2, PTL DEF LimitsSpec

\* Every container is confined to the memory that was asked for, as long as the
\* bytes fit the int they are computed in: 2047 MB is the largest such number.
THEOREM MemoryReachesCgroup ==
    ASSUME \A mb \in Mbs : mb <= 2047
    PROVE  LimitsSpec => []MemoryAsAsked
  <1>1. LimitsInv => MemoryAsAsked
    <2> SUFFICES ASSUME LimitsInv, NEW c \in Sound, c.asked.mb > 0
                 PROVE  c.memory = c.asked.mb
      BY DEF MemoryAsAsked
    <2> DEFINE mb == c.asked.mb
    <2>1. c.asked \in Numbers /\ c.memory = MemoryMax(LimitBytes(mb))
      BY SoundEntry
    <2>2. mb \in Mbs \cup {DefaultMb} /\ mb \in Nat
      BY <2>1, NumbersAreNat DEF Numbers
    <2> HIDE DEF mb
    <2>3. mb <= 2047
      BY <2>2 DEF DefaultMb
    <2>4. LimitBytes(mb) = mb
      BY <2>2, <2>3, BytesFit
    <2> QED BY <2>1, <2>4 DEF MemoryMax, mb
  <1> QED BY <1>1, LimitsInductive, PTL

\* The part of a core a container may use is the one its shares stand for, and
\* more shares never mean less of it, as long as shares * period fits an int:
\* 21474 is the largest such number.
THEOREM SharesReachCgroup ==
    ASSUME \A s \in Shares : s <= 21474
    PROVE  LimitsSpec => []CpuProportional
  <1>1. LimitsInv => CpuProportional
    <2> SUFFICES ASSUME LimitsInv
                 PROVE  CpuProportional
      OBVIOUS
    <2>1. ASSUME NEW c \in Sound
          PROVE  c.asked.shares \in Nat /\ c.asked.shares <= 21474
      <3> DEFINE s == c.asked.shares
      <3>1. s \in Shares \cup {DefaultShares} /\ s \in Nat
        BY SoundEntry, NumbersAreNat DEF Numbers
      <3> HIDE DEF s
      <3>2. s <= 21474
        BY <3>1 DEF DefaultShares
      <3> QED BY <3>1, <3>2 DEF s
    <2>2. ASSUME NEW c \in Sound, c.asked.shares > 0
          PROVE  \/ c.quota = 1000 /\ c.asked.shares * 3125 < 1000 * 32
                 \/ /\ c.quota * 32 <= c.asked.shares * 3125
                    /\ c.asked.shares * 3125 < (c.quota + 1) * 32
      <3> DEFINE s == c.asked.shares
      <3>1. s \in Nat /\ 0 < s /\ s <= 21474 /\ c.quota = Quota(s)
        BY <2>1, <2>2, SoundEntry
      <3> HIDE DEF s
      <3>2. \/ Quota(s) = 1000 /\ s * 3125 < 1000 * 32
            \/ Quota(s) * 32 <= s * 3125 /\ s * 3125 < (Quota(s) + 1) * 32
        BY <3>1, QuotaProportional
      <3> QED BY <3>1, <3>2 DEF s
    <2>3. ASSUME NEW c \in Sound, NEW d \in Sound,
                 0 < c.asked.shares, c.asked.shares <= d.asked.shares
          PROVE  c.quota <= d.quota /\ c.weight <= d.weight
      <3> DEFINE s == c.asked.shares
                 u == d.asked.shares
      <3>1. /\ s \in Nat /\ u \in Nat /\ 0 < s /\ s <= u /\ u <= 21474
        BY <2>1, <2>3
      <3>2. /\ c.quota = Quota(s) /\ c.weight = WeightOf(version, s)
            /\ d.quota = Quota(u) /\ d.weight = WeightOf(version, u)
        BY SoundEntry
      <3> HIDE DEF s, u
      <3>3. Quota(s) <= Quota(u) /\ Weight(s) <= Weight(u)
        BY <3>1, QuotaMonotone
      <3>4. WeightOf(version, s) <= WeightOf(version, u)
        BY <3>1, <3>3 DEF WeightOf, Unlimited
      <3> QED BY <3>2, <3>3, <3>4
    <2> QED BY <2>2, <2>3 DEF CpuProportional
  <1> QED BY <1>1, LimitsInductive, PTL

(***************************************************************************)
(* The memory of the configurations.                                       *)
(***************************************************************************)
FieldNames == Range(CopyFields)

LEMMA CopyFieldsFacts ==
    /\ Len(CopyFields) = 9 /\ DOMAIN CopyFields = 1..9
    /\ \A i \in 1..9 : CopyFields[i] \in FieldNames
    /\ \A f \in FieldNames : \E i \in 1..9 : f = CopyFields[i]
  <1>1. Len(CopyFields) = 9 /\ DOMAIN CopyFields = 1..9
    BY DEF CopyFields
  <1> QED BY <1>1 DEF FieldNames, Range

LEMMA CallerFieldsFacts ==
    Len(CallerFields) = 6 /\ \A i \in 1..6 : CallerFields[i] \in FieldNames
  <1>1. Len(CallerFields) = 6 /\ CallerFields = <<"id", "root", "array", "sh", "flag", "text">>
    BY DEF CallerFields
  <1>2. {"id", "root", "array", "sh", "flag", "text"} \subseteq FieldNames
    <2>1. /\ CopyFields[4] = "id" /\ CopyFields[5] = "root" /\ CopyFields[6] = "array"
          /\ CopyFields[7] = "sh" /\ CopyFields[8] = "flag" /\ CopyFields[9] = "text"
      BY DEF CopyFields
    <2> QED BY <2>1, CopyFieldsFacts
  <1>3. ASSUME NEW i \in 1..6
        PROVE  CallerFields[i] \in {"id", "root", "array", "sh", "flag", "text"}
    BY DEF CallerFields
  <1> QED BY <1>1, <1>2, <1>3

\* What is allocated belongs to a container of the table, to the test while it
\* runs, or to the entry that is being made.
Owned ==
    \A b \in heap : \/ b[1] \in table
                    \/ b[1] = Test /\ at # "menu"
                    \/ b[1] = turn /\ at \in {"copy", "finish"}

\* A container of the table has all of its blocks; an entry that is being made
\* is not of the table, and has the blocks up to its step.
Whole ==
    /\ \A k \in table : Saved(k) \subseteq heap
    /\ at = "copy" => /\ turn \notin table
                      /\ \A i \in 1..(step - 1) : <<turn, CopyFields[i]>> \in heap
    /\ at = "finish" => turn \notin table /\ Saved(turn) \subseteq heap

HeapTypeOK ==
    /\ turn \in 1..Turns /\ table \subseteq 1..Turns
    /\ heap \subseteq (0..Turns) \X FieldNames
    /\ at = "copy" => step \in 1..9
    /\ at = "fill" => step \in 1..6

HeapInv == HeapTypeOK /\ Owned /\ Whole

\* Freeing an owner's blocks leaves the others'.
LEMMA FreeBlocks ==
    ASSUME NEW k, heap \subseteq (0..Turns) \X FieldNames
    PROVE  /\ heap \ Blocks(k) \subseteq heap
           /\ \A b \in heap \ Blocks(k) : b[1] # k
           /\ \A j : j # k => (Saved(j) \subseteq heap => Saved(j) \subseteq heap \ Blocks(k))
  BY DEF Blocks, Saved

LEMMA NextTurnFacts ==
    ASSUME HeapTypeOK, NextTurn
    PROVE  /\ turn' \in 1..Turns
           /\ at' \in {"fill", "menu"} /\ step' = 1
  BY ConfigurationsAssumption DEF HeapTypeOK, NextTurn, Goto

LEMMA HeapInductive == ConfigSpec => []HeapInv
  <1>1. ConfigInit => HeapInv
    BY ConfigurationsAssumption DEF ConfigInit, HeapInv, HeapTypeOK, Owned, Whole
  <1>2. HeapInv /\ [ConfigNext]_configVars => HeapInv'
    <2> SUFFICES ASSUME HeapInv, [ConfigNext]_configVars
                 PROVE  HeapInv'
      OBVIOUS
    <2> USE DEF HeapInv
    \* A step that gives up the blocks of the test and its turn.
    <2>a. ASSUME heap' = heap \ Blocks(Test), NextTurn, UNCHANGED table,
                 at \in {"fill", "free"}
          PROVE  HeapInv'
      <3>1. HeapTypeOK'
        BY <2>a, NextTurnFacts DEF HeapTypeOK
      <3>2. Owned'
        BY <2>a, FreeBlocks DEF Owned, HeapTypeOK
      <3>3. Whole'
        <4>1. \A k \in table : k # Test
          BY DEF HeapTypeOK, Test
        <4> QED BY <2>a, <4>1, FreeBlocks, NextTurnFacts DEF Whole, HeapTypeOK, Saved
      <3> QED BY <3>1, <3>2, <3>3
    \* A step that gives up the entry.
    <2>b. ASSUME heap' = heap \ Blocks(turn), Goto("free"), UNCHANGED <<table, turn>>,
                 at \in {"copy", "finish"}
          PROVE  HeapInv'
      <3>1. HeapTypeOK'
        BY <2>b DEF HeapTypeOK, Goto
      <3>2. Owned'
        BY <2>b, FreeBlocks DEF Owned, HeapTypeOK, Goto
      <3>3. Whole'
        <4>1. \A k \in table : k # turn
          BY <2>b DEF Whole
        <4>2. \A k \in table : Saved(k) \subseteq heap \ Blocks(turn)
          BY <4>1, FreeBlocks DEF Whole, HeapTypeOK
        <4> QED BY <2>b, <4>2 DEF Whole, Goto, Saved
      <3> QED BY <3>1, <3>2, <3>3
    <2>1. CASE run_memory_cpu_test
      <3>1. HeapTypeOK'
        BY <2>1, ConfigurationsAssumption DEF run_memory_cpu_test, HeapTypeOK, Goto
      <3>2. Owned' /\ Whole'
        BY <2>1 DEF run_memory_cpu_test, Owned, Whole, Goto, Saved
      <3> QED BY <3>1, <3>2
    <2>2. CASE fill
      <3>1. step \in 1..6 /\ CallerFields[step] \in FieldNames
        BY <2>2, CallerFieldsFacts DEF fill, HeapTypeOK
      <3>2. heap' = heap \cup {<<Test, CallerFields[step]>>} /\ UNCHANGED <<table, turn>>
        BY <2>2 DEF fill
      <3>3. (at' = "fill" /\ step' = step + 1 /\ step < 6) \/ (at' = "create" /\ step' = 1)
        BY <2>2, CallerFieldsFacts DEF fill, Goto
      <3>4. HeapTypeOK'
        <4>1. <<Test, CallerFields[step]>> \in (0..Turns) \X FieldNames
          BY <3>1, ConfigurationsAssumption DEF Test
        <4>2. at' = "fill" => step' \in 1..6
          BY <3>1, <3>3
        <4> QED BY <4>1, <4>2, <3>2, <3>3 DEF HeapTypeOK
      <3>5. Owned'
        BY <3>2, <3>3, <2>2 DEF Owned, fill
      <3>6. Whole'
        BY <3>2, <3>3 DEF Whole, Saved
      <3> QED BY <3>4, <3>5, <3>6
    <2>3. CASE fill_fails
      BY <2>3, <2>a DEF fill_fails
    <2>4. CASE free_command
      BY <2>4, <2>a DEF free_command
    <2>5. CASE create_exists
      BY <2>5 DEF create_exists, HeapTypeOK, Owned, Whole, Goto, Saved
    <2>6. CASE create_begin
      <3>1. HeapTypeOK'
        BY <2>6 DEF create_begin, HeapTypeOK, Goto
      <3>2. Owned'
        BY <2>6 DEF create_begin, Owned, Goto
      <3>3. Whole'
        BY <2>6 DEF create_begin, Whole, Goto, Saved
      <3> QED BY <3>1, <3>2, <3>3
    <2>7. CASE copy_container_config
      <3>1. at = "copy" /\ step \in 1..9 /\ CopyFields[step] \in FieldNames /\ turn \notin table
        BY <2>7, CopyFieldsFacts DEF copy_container_config, HeapTypeOK, Whole
      <3>2. heap' = heap \cup {<<turn, CopyFields[step]>>} /\ UNCHANGED <<table, turn>>
        BY <2>7 DEF copy_container_config
      <3>3. (at' = "copy" /\ step' = step + 1 /\ step < 9)
            \/ (at' = "finish" /\ step' = 1 /\ step = 9)
        BY <2>7, <3>1, CopyFieldsFacts DEF copy_container_config, Goto
      <3>4. HeapTypeOK'
        <4>1. <<turn, CopyFields[step]>> \in (0..Turns) \X FieldNames
          BY <3>1, ConfigurationsAssumption DEF HeapTypeOK
        <4>2. at' = "copy" => step' \in 1..9
          BY <3>1, <3>3
        <4> QED BY <4>1, <4>2, <3>2, <3>3 DEF HeapTypeOK
      <3>5. Owned'
        BY <3>1, <3>2, <3>3 DEF Owned
      <3>6. \A i \in 1..step : <<turn, CopyFields[i]>> \in heap'
        <4> SUFFICES ASSUME NEW i \in 1..step
                     PROVE  <<turn, CopyFields[i]>> \in heap'
          OBVIOUS
        <4>1. CASE i = step
          BY <4>1, <3>2
        <4>2. CASE i # step
          <5>1. i \in 1..(step - 1)
            BY <4>2, <3>1
          <5> QED BY <5>1, <3>1, <3>2 DEF Whole
        <4> QED BY <4>1, <4>2
      <3>7. step = 9 => Saved(turn) \subseteq heap'
        BY <3>6, CopyFieldsFacts DEF Saved, FieldNames
      <3>8. Whole'
        <4>1. \A k \in table' : Saved(k) \subseteq heap'
          BY <3>2 DEF Whole
        <4>2. at' = "copy" => \A i \in 1..(step' - 1) : <<turn, CopyFields[i]>> \in heap'
          BY <3>1, <3>3, <3>6
        <4> QED BY <3>1, <3>2, <3>3, <3>7, <4>1, <4>2 DEF Whole, Saved
      <3> QED BY <3>4, <3>5, <3>8
    <2>8. CASE copy_fails
      BY <2>8, <2>b DEF copy_fails
    <2>9. CASE create_fails
      BY <2>9, <2>b DEF create_fails
    <2>10. CASE container_manager_run
      <3>1. /\ at = "finish" /\ at' = "free" /\ table' = table \cup {turn}
            /\ UNCHANGED <<heap, turn>>
        BY <2>10 DEF container_manager_run, Goto
      <3>2. HeapTypeOK'
        BY <3>1 DEF HeapTypeOK
      <3>3. Owned'
        BY <3>1 DEF Owned
      <3>4. Whole'
        BY <3>1 DEF Whole, Saved
      <3> QED BY <3>2, <3>3, <3>4
    <2>11. CASE clone_fails
      BY <2>11, <2>b DEF clone_fails
    <2>12. ASSUME NEW k \in 1..Turns, remove_container(k)
           PROVE  HeapInv'
      <3>1. /\ at = "menu" /\ table' = table \ {k} /\ heap' = heap \ Blocks(k)
            /\ UNCHANGED <<at, turn, step>>
        BY <2>12 DEF remove_container
      <3>2. HeapTypeOK'
        BY <3>1 DEF HeapTypeOK
      <3>3. Owned'
        BY <3>1, FreeBlocks DEF Owned, HeapTypeOK
      <3>4. Whole'
        <4>1. \A j \in table \ {k} : Saved(j) \subseteq heap \ Blocks(k)
          BY FreeBlocks DEF Whole, HeapTypeOK
        <4> QED BY <3>1, <4>1 DEF Whole, Saved
      <3> QED BY <3>2, <3>3, <3>4
    <2>13. CASE UNCHANGED configVars
      BY <2>13 DEF configVars, HeapTypeOK, Owned, Whole, Saved
    <2> QED BY <2>1, <2>2, <2>3, <2>4, <2>5, <2>6, <2>7, <2>8, <2>9, <2>10, <2>11, <2>12,
               <2>13 DEF ConfigNext
  <1> QED BY <1>1, <1>2, PTL DEF ConfigSpec

\* The test leaves in memory exactly what the containers of the table need, for
\* any number of containers and tests and whatever fails in each of them.
THEOREM TestLeavesNothing == ConfigSpec => []NothingLeaks
  <1>1. HeapInv => NothingLeaks
    <2> SUFFICES ASSUME HeapInv, at = "menu"
                 PROVE  heap = UNION {Saved(k) : k \in table}
      BY DEF NothingLeaks
    <2>1. ASSUME NEW b \in heap
          PROVE  b[1] \in table /\ b \in Saved(b[1])
      BY DEF HeapInv, HeapTypeOK, Owned, Saved, FieldNames
    <2>2. \A k \in table : Saved(k) \subseteq heap
      BY DEF HeapInv, Whole
    <2> QED BY <2>1, <2>2
  <1> QED BY <1>1, HeapInductive, PTL

(***************************************************************************)
(* The ids.                                                                *)
(***************************************************************************)

\* What an id is the numeral of.
Numeral == Int

\* Reducing a number that is small enough changes nothing, for any modulus.
LEMMA SmallModulo ==
    ASSUME NEW m \in Nat, NEW x \in Nat, x < m
    PROVE  x % m = x
  OBVIOUS

LEMMA ModuloRange ==
    ASSUME NEW m \in Nat, 0 < m, NEW x \in Int
    PROVE  x % m \in Int /\ 0 <= x % m /\ x % m < m
  OBVIOUS

\* An int holds the numbers between its limits, and nothing else.
LEMMA IntValues ==
    ASSUME NEW n \in Int
    PROVE  /\ ToInt(n) \in Int /\ -Half <= ToInt(n) /\ ToInt(n) < Half
           /\ -Half <= n /\ n < Half => ToInt(n) = n
  <1>1. Half \in Nat /\ Half > 1
    BY IdsAssumption
  <1> DEFINE m == 2 * Half
             x == n + Half
  <1>2. m \in Nat /\ 0 < m /\ x \in Int
    BY <1>1
  <1>3. x % m \in Int /\ 0 <= x % m /\ x % m < m
    <2> HIDE DEF m, x
    <2> QED BY <1>2, ModuloRange
  <1>4. (x \in Nat /\ x < m) => x % m = x
    <2> HIDE DEF m, x
    <2> QED BY <1>2, SmallModulo
  <1>5. ToInt(n) = (x % m) - Half
    BY DEF ToInt
  <1>6. ToInt(n) \in Int /\ -Half <= ToInt(n) /\ ToInt(n) < Half
    <2> DEFINE r == x % m
    <2>1. r \in Int /\ 0 <= r /\ r < 2 * Half /\ ToInt(n) = r - Half
      BY <1>3, <1>5
    <2> HIDE DEF r
    <2> QED BY <2>1, <1>1
  <1>7. ASSUME -Half <= n, n < Half
        PROVE  ToInt(n) = n
    <2>1. x \in Nat /\ x < m
      BY <1>7, <1>1
    <2>3. ToInt(n) = (n + Half) - Half
      BY <2>1, <1>4, <1>5
    <2> HIDE DEF m, x
    <2> QED BY <2>3, <1>1
  <1> QED BY <1>6, <1>7

LEMMA ExtractedIsInt ==
    ASSUME NEW id \in Int
    PROVE  extract_numeric_id(id) \in Int /\ extract_numeric_id(id) < Half
  BY IntValues, IdsAssumption DEF extract_numeric_id

\* A set of integers that is bounded above and not empty has a largest element.
LEMMA LargestNumber ==
    ASSUME NEW bound \in Int, NEW T \in SUBSET Int, T # {}, \A n \in T : n < bound
    PROVE  \E n \in T : \A k \in T : k <= n
  <1> DEFINE R == OpToRel(<, Nat)
             D == {bound - n : n \in T}
  <1>1. IsWellFoundedOn(R, Nat)
    BY NatLessThanWellFounded
  <1>2. \A m, n \in Nat : <<m, n>> \in R <=> m < n
    BY DEF OpToRel
  <1>3. D \subseteq Nat /\ D # {}
    <2>1. \A n \in T : bound - n \in Nat
      OBVIOUS
    <2>2. PICK n \in T : TRUE
      OBVIOUS
    <2>3. bound - n \in D
      BY <2>2
    <2> QED BY <2>1, <2>3
  <1> HIDE DEF R
  <1>4. PICK d \in D : \A e \in D : ~(<<e, d>> \in R)
    <2> HIDE DEF D
    <2> QED BY <1>1, <1>3, WFMin
  <1>5. \A e \in D : ~(e < d)
    BY <1>2, <1>3, <1>4
  <1>6. PICK n \in T : d = bound - n
    BY <1>4
  <1>7. \A k \in T : k <= n
    BY <1>5, <1>6
  <1> QED BY <1>7

\* The loop of generate_container_id finds the largest number.
LEMMA MaxIdIsLargest ==
    ASSUME NEW s \in Seq(Numeral)
    PROVE  /\ max_id(s) \in Int /\ 0 <= max_id(s) /\ max_id(s) < Half
           /\ \A i \in DOMAIN s : extract_numeric_id(s[i]) <= max_id(s)
           /\ \/ max_id(s) = 0
              \/ \E i \in DOMAIN s : extract_numeric_id(s[i]) = max_id(s)
  <1> DEFINE found == {extract_numeric_id(s[i]) : i \in DOMAIN s} \cup {0}
  <1>1. Half \in Nat /\ Half > 1
    BY IdsAssumption
  <1>2. ASSUME NEW i \in DOMAIN s
        PROVE  extract_numeric_id(s[i]) \in Int /\ extract_numeric_id(s[i]) < Half
    <2>1. s[i] \in Int
      BY DEF Numeral
    <2> QED BY <2>1, ExtractedIsInt
  <1>3. found \in SUBSET Int /\ found # {} /\ (\A n \in found : n < Half)
    BY <1>1, <1>2
  <1>4. \E n \in found : \A k \in found : k <= n
    <2>1. Half \in Int
      BY <1>1
    <2> HIDE DEF found
    <2> QED BY <2>1, <1>3, LargestNumber
  <1>5. max_id(s) \in found /\ \A k \in found : k <= max_id(s)
    BY <1>4 DEF max_id
  <1>6. 0 <= max_id(s) /\ \A i \in DOMAIN s : extract_numeric_id(s[i]) <= max_id(s)
    BY <1>5
  <1> QED BY <1>3, <1>5, <1>6

LEMMA GeneratedIsInt ==
    ASSUME NEW s \in Seq(Numeral)
    PROVE  generate_container_id(s) \in Int
  BY MaxIdIsLargest, IntValues DEF generate_container_id

\* A number that was made and is taken lies behind the largest int.
LEMMA TakenOnlyAtLimit ==
    ASSUME NEW s \in Seq(Numeral), NEW i \in DOMAIN s, s[i] = generate_container_id(s)
    PROVE  \E k \in DOMAIN s : extract_numeric_id(s[k]) = Half - 1
  <1> DEFINE n == max_id(s)
  <1>1. Half \in Nat /\ Half > 1
    BY IdsAssumption
  <1>2. n \in Int /\ 0 <= n /\ n < Half /\ extract_numeric_id(s[i]) <= n
    BY MaxIdIsLargest
  <1>3. n = 0 \/ \E k \in DOMAIN s : extract_numeric_id(s[k]) = n
    BY MaxIdIsLargest
  <1>4. s[i] = ToInt(n + 1)
    BY DEF generate_container_id
  <1> HIDE DEF n
  <1>5. ASSUME n + 1 < Half
        PROVE  FALSE
    <2>1. n + 1 \in Int /\ -Half <= n + 1
      BY <1>1, <1>2
    <2>2. ToInt(n + 1) = n + 1
      BY <2>1, <1>5, IntValues
    <2>3. s[i] > 0 /\ ToInt(s[i]) = n + 1
      BY <2>2, <1>2, <1>4
    <2>4. extract_numeric_id(s[i]) = n + 1
      BY <2>3 DEF extract_numeric_id
    <2> QED BY <2>4, <1>2
  <1>6. n = Half - 1
    BY <1>1, <1>2, <1>5
  <1> QED BY <1>1, <1>3, <1>6

IdsInv ==
    /\ ids \in Seq(Numeral) /\ rest \in Seq(Numeral)
    /\ refused \in BOOLEAN
    /\ rest # <<>> => refused = FALSE
    /\ RefusedOnlyAtLimit

\* A create without a name is refused only if some id is the largest int, in
\* any sequence of creates, destroys, restarts and typed numerals.
THEOREM AutoIdsFreshBelowLimit == IdsSpec => []RefusedOnlyAtLimit
  <1>1. IdsInit => IdsInv
    <2> SUFFICES ASSUME IdsInit
                 PROVE  IdsInv
      OBVIOUS
    <2>1. ids = <<>> /\ rest = <<>> /\ refused = FALSE
      BY DEF IdsInit
    <2>2. RefusedOnlyAtLimit
      BY <2>1 DEF RefusedOnlyAtLimit
    <2>3. <<>> \in Seq(Numeral)
      OBVIOUS
    <2> QED BY <2>1, <2>2, <2>3 DEF IdsInv
  <1>2. IdsInv /\ [IdsNext]_idsVars => IdsInv'
    <2> SUFFICES ASSUME IdsInv, [IdsNext]_idsVars
                 PROVE  IdsInv'
      OBVIOUS
    <2>0. ASSUME ids' \in Seq(Numeral), rest' \in Seq(Numeral), refused' = FALSE
          PROVE  IdsInv'
      BY <2>0 DEF IdsInv, RefusedOnlyAtLimit
    <2>1. ASSUME NEW id \in Typed \cup {Name}, create_named(id)
          PROVE  IdsInv'
      <3>1. id \in Numeral
        BY IdsAssumption DEF Name, Numeral
      <3>2. ids' = Append(ids, id) /\ rest' = rest /\ refused' = FALSE
        BY <2>1 DEF create_named
      <3>3. ids' \in Seq(Numeral)
        BY <3>1, <3>2 DEF IdsInv
      <3>4. rest' \in Seq(Numeral)
        BY <3>2 DEF IdsInv
      <3> QED BY <2>0, <3>2, <3>3, <3>4
    <2>2. CASE create_auto
      <3> DEFINE id == generate_container_id(ids)
      <3>1. id \in Numeral
        BY GeneratedIsInt DEF IdsInv, Numeral
      <3>2. CASE id \in Ids
        <4>1. ids' = ids /\ refused' = TRUE /\ rest' = <<>>
          BY <2>2, <3>2 DEF create_auto
        <4>2. PICK i \in DOMAIN ids : ids[i] = generate_container_id(ids)
          BY <3>2 DEF Ids
        <4>3. \E k \in DOMAIN ids : extract_numeric_id(ids[k]) = Half - 1
          BY <4>2, TakenOnlyAtLimit DEF IdsInv
        <4>4. RefusedOnlyAtLimit'
          BY <4>1, <4>3 DEF RefusedOnlyAtLimit, Ids
        <4> QED BY <4>1, <4>4 DEF IdsInv
      <3>3. CASE id \notin Ids
        <4>1. ids' = Append(ids, id) /\ rest' = rest
          BY <2>2, <3>3 DEF create_auto
        <4>2. refused' = (id \in Ids)
          BY <2>2 DEF create_auto
        <4>3. refused' = FALSE
          <5>1. (id \in Ids) = FALSE
            BY <3>3
          <5> QED BY <4>2, <5>1, Zenon
        <4> HIDE DEF id
        <4>4. ids' \in Seq(Numeral)
          BY <4>1, <3>1 DEF IdsInv
        <4>5. rest' \in Seq(Numeral)
          BY <4>1 DEF IdsInv
        <4> QED BY <4>3, <4>4, <4>5, <2>0
      <3> QED BY <3>2, <3>3
    <2>3. ASSUME NEW id \in Ids, mark_running(id)
          PROVE  IdsInv'
      BY <2>0, <2>3 DEF mark_running, IdsInv
    <2>4. ASSUME NEW i \in DOMAIN ids, destroy(i)
          PROVE  IdsInv'
      <3>1. /\ ids' = SubSeq(ids, 1, i - 1) \o SubSeq(ids, i + 1, Len(ids))
            /\ rest' = rest /\ refused' = FALSE
        BY <2>4 DEF destroy
      <3>2. ids \in Seq(Numeral) /\ i \in 1..Len(ids)
        BY <2>4 DEF IdsInv
      <3>3. SubSeq(ids, 1, i - 1) \in Seq(Numeral) /\ SubSeq(ids, i + 1, Len(ids)) \in Seq(Numeral)
        BY <3>2
      <3>4. ids' \in Seq(Numeral)
        BY <3>1, <3>3
      <3>5. rest' \in Seq(Numeral)
        BY <3>1 DEF IdsInv
      <3> QED BY <3>1, <3>4, <3>5, <2>0
    <2>5. CASE restart
      BY <2>0, <2>5 DEF restart, IdsInv
    <2>6. CASE load_record
      <3>1. rest # <<>> /\ rest' = Tail(rest) /\ refused' = FALSE
        BY <2>6 DEF load_record, IdsInv
      <3>2. Head(rest) \in Numeral /\ Tail(rest) \in Seq(Numeral)
        BY <3>1 DEF IdsInv
      <3>3. LoadedId(Head(rest)) \in Numeral
        BY <3>2, GeneratedIsInt DEF LoadedId, IdsInv, Numeral
      <3>4. ids' = Append(ids, LoadedId(Head(rest))) \/ ids' = ids
        BY <2>6 DEF load_record
      <3>5. ids' \in Seq(Numeral)
        BY <3>3, <3>4 DEF IdsInv
      <3> QED BY <3>1, <3>2, <3>5, <2>0
    <2>7. CASE UNCHANGED idsVars
      BY <2>7 DEF idsVars, IdsInv, RefusedOnlyAtLimit, Ids
    <2> QED BY <2>1, <2>2, <2>3, <2>4, <2>5, <2>6, <2>7 DEF IdsNext
  <1>3. IdsInv => RefusedOnlyAtLimit
    BY DEF IdsInv
  <1> QED BY <1>1, <1>2, <1>3, PTL DEF IdsSpec
=============================================================================
