--------------------------- MODULE Configurations ---------------------------
(***************************************************************************)
(* Who owns the memory of a container's configuration.  The menu's memory  *)
(* and CPU test (run_memory_cpu_test, main.cpp) allocates a configuration  *)
(* for each of its containers, container_manager_run copies it             *)
(* (copy_container_config) and the test frees its own again; the copy lives*)
(* as long as the container.  Every allocation and every call may fail,    *)
(* and the test goes on with the next container.                           *)
(***************************************************************************)
EXTENDS Naturals, Sequences

CONSTANTS Turns,    \* number of containers of the test
          MaxTests, \* bound on the tests of a behaviour
          AllocFaults,   \* allocations, by field, and calls that may fail
          RootPaths \* what config.root_path, which nobody sets, may hold

Test == 0   \* the owner of what run_memory_cpu_test allocates

Strings == {"sh", "flag", "text"}   \* the command's words

\* What the test allocates, in this order.
CallerFields == <<"id", "root", "array", "sh", "flag", "text">>

\* What container_manager_create allocates, in this order: the entry, then the
\* copy of the configuration.
EntryFields == {"name", "info"}
CopyFields == <<"name", "info", "config", "id", "root", "array", "sh", "flag", "text">>

Range(s) == {s[i] : i \in DOMAIN s}

ASSUME ConfigurationsAssumption ==
    /\ Turns \in Nat \ {0} /\ MaxTests \in Nat
    /\ AllocFaults \subseteq {"caller", "cgroup", "add", "clone"} \cup Range(CopyFields)
    /\ RootPaths \subseteq {"null", "garbage"}

VARIABLES heap,  \* blocks <<owner, field>>; the owner is Test or a container
          table, \* containers in the table, named after the test's turns
          at,    \* menu, fill, create, copy, finish, free
          turn, step,
          tests, \* tests begun
          report,\* the test has said that the containers were created
          fault  \* a block was freed twice, or a wild pointer was followed

configVars == <<heap, table, at, turn, step, tests, report, fault>>

ConfigInit ==
    /\ heap = {} /\ table = {} /\ at = "menu" /\ turn = 1 /\ step = 1
    /\ tests = 0 /\ report = FALSE /\ fault = FALSE

Blocks(owner) == {b \in heap : b[1] = owner}
Saved(k) == {<<k, f>> : f \in Range(CopyFields)}

Goto(l) == at' = l /\ step' = 1

(***************************************************************************)
(* The test.                                                               *)
(***************************************************************************)
run_memory_cpu_test ==
    /\ at = "menu" /\ tests < MaxTests
    /\ Goto("fill") /\ turn' = 1
    /\ tests' = tests + 1 /\ report' = FALSE
    /\ UNCHANGED <<heap, table, fault>>

\* The turn is over, and perhaps the test.
NextTurn ==
    /\ IF turn < Turns THEN Goto("fill") /\ turn' = turn + 1 /\ UNCHANGED report
       ELSE Goto("menu") /\ turn' = 1 /\ report' = TRUE

fill ==
    /\ at = "fill"
    /\ heap' = heap \cup {<<Test, CallerFields[step]>>}
    /\ IF step < Len(CallerFields) THEN step' = step + 1 /\ UNCHANGED at
       ELSE Goto("create")
    /\ UNCHANGED <<table, turn, tests, report, fault>>

\* Mutant of fill_fails: the array of the command is forgotten.
fill_fails_keeps_array ==
    /\ at = "fill" /\ "caller" \in AllocFaults
    /\ heap' = (heap \ Blocks(Test)) \cup (heap \cap {<<Test, "array">>})
    /\ NextTurn
    /\ UNCHANGED <<table, tests, fault>>

\* The blocks allocated so far are freed and the turn is given up.
fill_fails ==
    /\ at = "fill" /\ "caller" \in AllocFaults
    /\ heap' = heap \ Blocks(Test)
    /\ NextTurn
    /\ UNCHANGED <<table, tests, fault>>

\* Behind container_manager_run, whatever it returned.
free_command ==
    /\ at = "free"
    /\ heap' = heap \ Blocks(Test)
    /\ NextTurn
    /\ UNCHANGED <<table, tests, fault>>

(***************************************************************************)
(* container_manager_create.                                               *)
(***************************************************************************)

\* The id is taken: the call fails before anything but the name is allocated.
create_exists ==
    /\ at = "create" /\ turn \in table
    /\ Goto("free")
    /\ UNCHANGED <<heap, table, turn, tests, report, fault>>

create_begin ==
    /\ at = "create" /\ turn \notin table
    /\ Goto("copy")
    /\ UNCHANGED <<heap, table, turn, tests, report, fault>>

\* One allocation after the other; behind the id, root_path is looked at.
copy_container_config ==
    /\ at = "copy"
    /\ heap' = heap \cup {<<turn, CopyFields[step]>>}
    /\ IF step < Len(CopyFields) THEN step' = step + 1 /\ UNCHANGED at
       ELSE Goto("finish")
    /\ fault' \in {CopyFields[step] = "root" /\ p = "garbage" : p \in RootPaths}
    /\ UNCHANGED <<table, turn, tests, report>>

\* An allocation fails.  If it is one of the command's words, the words before it
\* and the array are freed; free_container_config then frees all that the
\* configuration points to, which still includes them.
copy_fails ==
    LET field == CopyFields[step]
        words == {b \in Blocks(turn) :
                     field \in Strings /\ b[2] \in Strings \cup {"array"}}
        config == {b \in Blocks(turn) : b[2] \notin EntryFields}
    IN  /\ at = "copy" /\ field \in AllocFaults
        /\ heap' = heap \ Blocks(turn)
        /\ fault' = (words \cap config # {})
        /\ Goto("free")
        /\ UNCHANGED <<table, turn, tests, report>>

\* The cgroup, the root file system or the entry of the table fails: the copy
\* and the entry are freed.
create_fails ==
    /\ at = "finish" /\ AllocFaults \cap {"cgroup", "add"} # {}
    /\ heap' = heap \ Blocks(turn)
    /\ Goto("free")
    /\ UNCHANGED <<table, turn, tests, report, fault>>

container_manager_run ==
    /\ at = "finish"
    /\ table' = table \cup {turn}
    /\ Goto("free")
    /\ UNCHANGED <<heap, turn, tests, report, fault>>

\* clone fails: run destroys the container it has created.
clone_fails ==
    /\ at = "finish" /\ "clone" \in AllocFaults
    /\ heap' = heap \ Blocks(turn)
    /\ Goto("free")
    /\ UNCHANGED <<table, turn, tests, report, fault>>

\* remove_container, for the menu's destroy.
remove_container(k) ==
    /\ at = "menu" /\ k \in table
    /\ table' = table \ {k}
    /\ heap' = heap \ Blocks(k)
    /\ report' = FALSE
    /\ UNCHANGED <<at, turn, step, tests, fault>>

\* Nothing is defined behind a fault.
ConfigNext ==
    /\ ~fault
    /\ \/ run_memory_cpu_test \/ fill \/ fill_fails \/ free_command
       \/ create_exists \/ create_begin \/ copy_container_config \/ copy_fails
       \/ create_fails \/ container_manager_run \/ clone_fails
       \/ \E k \in 1..Turns : remove_container(k)

ConfigSpec == ConfigInit /\ [][ConfigNext]_configVars

(***************************************************************************)
(* Properties.                                                             *)
(***************************************************************************)

\* In the menu, the memory in use is that of the containers in the table, whole
\* and without anything else, whatever failed in which turn of which test.
NothingLeaks == at = "menu" => heap = UNION {Saved(k) : k \in table}

\* "container_manager_run: Creates and immediately starts a container"
\* (docs/api.md); if it cannot, it says so and returns.
CallsReturn == ~fault

\* "Test containers created successfully!" (run_memory_cpu_test)
TestTellsTheTruth == report => table = 1..Turns
=============================================================================
