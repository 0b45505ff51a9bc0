----------------------------- MODULE StateFile -----------------------------
(***************************************************************************)
(* The state file, line by line: save_state empties it and writes it again *)
(* through a stdio buffer, load_state reads it line by line.  Managers are *)
(* processes (the menu, one command, mini-container-web) that share the    *)
(* file and nothing else, and any of them may be killed at any step.       *)
(*                                                                         *)
(* A container x that is RUNNING is the record <<x, x>> of id and pid, so  *)
(* that a record put together from two others shows; it is three lines of  *)
(* the file: its id, its pid (the state and the times go with it) and the  *)
(* closing brace.  Lines of brackets are left out: load_state skips them.  *)
(* A file that fits into the buffer is written by fclose at once; a longer *)
(* one (chunked) in parts.                                                 *)
(***************************************************************************)
EXTENDS Naturals, Sequences

CONSTANTS Managers,  \* processes that use the file
          Ids,       \* containers
          MaxStarts, \* bound on the starts of managers in a behaviour
          Crashes    \* managers that may be killed

ASSUME StateFileAssumption ==
    Ids \subseteq Nat \ {0} /\ MaxStarts \in Nat /\ Crashes \subseteq Managers

VARIABLES file,   \* lines on disk
          table,  \* records in each manager's table
          step,   \* "down", "idle", or the step of save_state
          next,   \* where a manager goes when its save is done
          buf,    \* lines that a save has still to write
          off,    \* lines that it has written
          live,   \* containers that were run and not destroyed
          listed, \* those of them that a save has finished writing
          starts, \* starts of managers so far
          chunked,  \* the file is larger than the buffer of stdio
          together  \* two managers have been up at the same time

fileVars == <<file, table, step, next, buf, off, live, listed, starts, chunked,
              together>>

FileInit ==
    /\ file = <<>>
    /\ table = [m \in Managers |-> <<>>]
    /\ step = [m \in Managers |-> "down"]
    /\ next = [m \in Managers |-> "down"]
    /\ buf = [m \in Managers |-> <<>>]
    /\ off = [m \in Managers |-> 0]
    /\ live = {} /\ listed = {} /\ starts = 0
    /\ chunked \in BOOLEAN /\ together = FALSE

Line(kind, value) == [kind |-> kind, value |-> value]
Junk == Line("junk", 0)   \* zero bytes, or a line that lost its beginning

Records(t) == {t[i] : i \in DOMAIN t}

(***************************************************************************)
(* load_state.                                                             *)
(***************************************************************************)
Blank == [in |-> FALSE, id |-> 0, pid |-> 0]

\* Behind a closing brace nothing is remembered.
EndOfRecord(r) == Blank

\* Mutant of Takes: a record is taken as soon as its id is known.
TakesEarly(r, line) == line.kind = "id"

\* A record is added at its closing brace.
Takes(r, line) == r.in /\ line.kind = "end" /\ r.id # 0

\* r holds the local variables, r.table what was added so far.  A record that
\* says RUNNING is left out if its process is not alive; without a pid line the
\* record says CREATED, which is the state 0.
Scan(r, line, alive) ==
    LET f == r.fields
        read == IF line.kind = "id" THEN [f EXCEPT !.in = TRUE, !.id = line.value]
                ELSE IF line.kind = "pid" /\ f.in THEN [f EXCEPT !.pid = line.value]
                ELSE f
    IN  IF Takes(f, line)
        THEN [fields |-> EndOfRecord(read),
              table |-> IF read.pid \in alive \cup {0}
                        THEN Append(r.table, <<read.id, read.pid>>)
                        ELSE r.table]
        ELSE [r EXCEPT !.fields = read]

load_state(f, alive) ==
    LET loop[n \in 0..Len(f)] ==
            IF n = 0 THEN [fields |-> Blank, table |-> <<>>]
            ELSE Scan(loop[n - 1], f[n], alive)
    IN  loop[Len(f)].table

(***************************************************************************)
(* save_state.                                                             *)
(***************************************************************************)
Lines(t) ==
    [i \in 1..(3 * Len(t)) |->
        LET record == t[((i - 1) \div 3) + 1]
        IN  IF i % 3 = 1 THEN Line("id", record[1])
            ELSE IF i % 3 = 2 THEN Line("pid", record[2])
            ELSE Line("end", 0)]

\* A table that has changed is saved before the call returns to then.
BeginSave(m, t, then) ==
    /\ table' = [table EXCEPT ![m] = t]
    /\ step' = [step EXCEPT ![m] = "open"]
    /\ next' = [next EXCEPT ![m] = then]

\* Mutant of save_open: the file is opened without emptying it.
save_open_in_place(m) ==
    /\ step[m] = "open"
    /\ step' = [step EXCEPT ![m] = "write"]
    /\ buf' = [buf EXCEPT ![m] = Lines(table[m])]
    /\ off' = [off EXCEPT ![m] = 0]
    /\ UNCHANGED <<file, table, next, live, listed, starts, chunked, together>>

\* fopen(state_file, "w") empties the file.
save_open(m) ==
    /\ step[m] = "open"
    /\ file' = <<>>
    /\ step' = [step EXCEPT ![m] = "write"]
    /\ buf' = [buf EXCEPT ![m] = Lines(table[m])]
    /\ off' = [off EXCEPT ![m] = 0]
    /\ UNCHANGED <<table, next, live, listed, starts, chunked, together>>

\* n lines written at offset k: a gap before them, left by someone who emptied
\* the file, reads as zero bytes and swallows the first line; of the longer
\* contents of someone else, what lies behind them stays, and its first line
\* may be cut since lines differ in length.
Overlay(f, k, lines, cut) ==
    LET n == Len(lines)
        first == IF k > Len(f) THEN <<Junk>> \o Tail(lines) ELSE lines
        head == [i \in 1..k |-> IF i <= Len(f) THEN f[i] ELSE Junk]
        rest == SubSeq(f, k + n + 1, Len(f))
    IN  head \o first \o
        (IF cut /\ rest # <<>> THEN <<Junk>> \o Tail(rest) ELSE rest)

\* stdio writes a full buffer, fclose the rest.
save_write(m, n, cut) ==
    /\ step[m] = "write" /\ n \in 1..Len(buf[m])
    /\ ~chunked => n = Len(buf[m])
    /\ file' = Overlay(file, off[m], SubSeq(buf[m], 1, n), cut)
    /\ buf' = [buf EXCEPT ![m] = SubSeq(@, n + 1, Len(@))]
    /\ off' = [off EXCEPT ![m] = @ + n]
    /\ UNCHANGED <<table, step, next, live, listed, starts, chunked, together>>

save_close(m) ==
    /\ step[m] = "write" /\ buf[m] = <<>>
    /\ step' = [step EXCEPT ![m] = next[m]]
    /\ table' = [table EXCEPT ![m] = IF next[m] = "down" THEN <<>> ELSE @]
    /\ listed' = listed \cup {r[1] : r \in Records(table[m])}
    /\ UNCHANGED <<file, next, buf, off, live, starts, chunked, together>>

(***************************************************************************)
(* The calls that save.                                                    *)
(***************************************************************************)

\* container_manager_init saves again if it has loaded something.
container_manager_init(m) ==
    /\ step[m] = "down" /\ starts < MaxStarts
    /\ LET loaded == load_state(file, live)
       IN  IF loaded = <<>>
           THEN /\ step' = [step EXCEPT ![m] = "idle"]
                /\ UNCHANGED <<table, next>>
           ELSE BeginSave(m, loaded, "idle")
    /\ starts' = starts + 1
    /\ together' = (together \/ \E k \in Managers : step[k] # "down")
    /\ UNCHANGED <<file, buf, off, live, listed, chunked>>

\* create and run: the record is saved with its pid.
container_manager_run(m, x) ==
    /\ step[m] = "idle" /\ x \notin live
    /\ \A k \in Managers : \A r \in Records(table[k]) : r[1] # x
    /\ BeginSave(m, Append(table[m], <<x, x>>), "idle")
    /\ live' = live \cup {x}
    /\ UNCHANGED <<file, buf, off, listed, starts, chunked, together>>

\* destroy: stop kills the process that has the recorded pid.
container_manager_destroy(m, i) ==
    /\ step[m] = "idle" /\ i \in DOMAIN table[m]
    /\ BeginSave(m, SubSeq(table[m], 1, i - 1)
                       \o SubSeq(table[m], i + 1, Len(table[m])), "idle")
    /\ live' = live \ {table[m][i][2]}
    /\ listed' = listed \ {table[m][i][2]}
    /\ UNCHANGED <<file, buf, off, starts, chunked, together>>

\* container_manager_cleanup: the end of list, of a detached run, of the web
\* server.
save_at_cleanup(m) ==
    /\ step[m] = "idle"
    /\ BeginSave(m, table[m], "down")
    /\ UNCHANGED <<file, buf, off, live, listed, starts, chunked, together>>

\* SIGKILL, or the loss of the host's power: what was written stays.
crash(m) ==
    /\ m \in Crashes /\ step[m] # "down"
    /\ step' = [step EXCEPT ![m] = "down"]
    /\ table' = [table EXCEPT ![m] = <<>>]
    /\ buf' = [buf EXCEPT ![m] = <<>>]
    /\ UNCHANGED <<file, next, off, live, listed, starts, chunked, together>>

FileNext == \E m \in Managers :
    \/ container_manager_init(m)
    \/ \E x \in Ids : container_manager_run(m, x)
    \/ \E i \in DOMAIN table[m] : container_manager_destroy(m, i)
    \/ save_at_cleanup(m)
    \/ save_open(m)
    \/ \E n \in 1..Len(buf[m]), cut \in BOOLEAN : save_write(m, n, cut)
    \/ save_close(m)
    \/ crash(m)

FileSpec == FileInit /\ [][FileNext]_fileVars

(***************************************************************************)
(* Properties.                                                             *)
(***************************************************************************)

\* No manager ever has a record whose id and pid were not saved together
\* (save_state, load_state), although any save may be cut short by a crash and
\* two managers may write over each other, unless they write a long file in
\* parts: a container with another's pid, or with none, would have the wrong
\* processes killed.
LoadedWasSaved ==
    ~(chunked /\ together) => \A m \in Managers : \A r \in Records(table[m]) : r[1] = r[2]

\* As long as no two managers are up at once, each finds exactly its table in the
\* file between any two calls, whatever the one killed before it has left there.
SavedWhenIdle ==
    ~together => \A m \in Managers : step[m] = "idle" => load_state(file, live) = table[m]

\* While nobody is inside a save, the file lists every container that a save
\* has listed before and nobody has destroyed.
StaysListed ==
    (\A m \in Managers : step[m] \in {"idle", "down"})
       => \A x \in listed \cap live : <<x, x>> \in Records(load_state(file, live))

=============================================================================
