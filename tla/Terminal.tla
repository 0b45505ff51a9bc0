------------------------------ MODULE Terminal ------------------------------
(***************************************************************************)
(* The terminal under the menu and the monitor: who puts it into raw mode, *)
(* who hides the cursor, who puts both back, and which key goes where.     *)
(* interactive_menu and display_monitor each save the settings they find   *)
(* and restore them; the monitor runs inside the menu or as a command of   *)
(* its own, and a signal may end the program at any step.                  *)
(***************************************************************************)
EXTENDS Naturals, Sequences

CONSTANTS Programs,  \* "menu" and "monitor": the ways to start the program
          MaxKeys,   \* bound on the keys of a behaviour
          Signals    \* whether SIGINT or SIGTERM may arrive

ASSUME TerminalAssumption ==
    Programs \subseteq {"menu", "monitor"} /\ MaxKeys \in Nat /\ Signals \in BOOLEAN

\* Keys: 2 is the monitor, 0 the exit, "form" any option that asks questions,
\* "enter" an answer to one of them.
Keys == {"2", "0", "form", "enter", "q", "other"}

VARIABLES program,       \* how the program was started
          pc,            \* the step of the main thread
          term,          \* "cooked" or "raw"
          cursor,        \* whether the cursor is shown
          menu_old,      \* old_term of interactive_menu
          monitor_old,   \* old_term of display_monitor
          running, monitor_mode,
          input,         \* keys that were pressed and not read yet
          pressed,       \* number of keys pressed
          killed         \* history: the signal handler has ended the program

terminalVars == <<program, pc, term, cursor, menu_old, monitor_old, running,
                  monitor_mode, input, pressed, killed>>

Start(p) == IF p = "menu" THEN "menu_begin" ELSE "monitor_begin"

TerminalInit ==
    /\ program \in Programs /\ pc = Start(program)
    /\ term = "cooked" /\ cursor = TRUE
    /\ menu_old = "cooked" /\ monitor_old = "cooked"
    /\ running = TRUE /\ monitor_mode = (program = "monitor")
    /\ input = <<>> /\ pressed = 0 /\ killed = FALSE

(***************************************************************************)
(* interactive_menu.                                                       *)
(***************************************************************************)
menu_begin ==
    /\ pc = "menu_begin" /\ pc' = "menu_loop"
    /\ menu_old' = term /\ cursor' = FALSE
    /\ UNCHANGED <<program, term, monitor_old, running, monitor_mode, input, pressed,
                   killed>>

\* Mutant of menu_loop: every turn saves the settings again.
menu_loop_saves ==
    /\ pc = "menu_loop" /\ running
    /\ pc' = "menu_select" /\ term' = "raw" /\ menu_old' = term
    /\ UNCHANGED <<program, cursor, monitor_old, running, monitor_mode, input, pressed,
                   killed>>

menu_loop ==
    /\ pc = "menu_loop" /\ running
    /\ pc' = "menu_select" /\ term' = "raw"
    /\ UNCHANGED <<program, cursor, menu_old, monitor_old, running, monitor_mode,
                   input, pressed, killed>>

\* select returns after five seconds: the screen is drawn again.
menu_refresh ==
    /\ pc = "menu_select" /\ input = <<>> /\ pc' = "menu_loop"
    /\ UNCHANGED <<program, term, cursor, menu_old, monitor_old, running,
                   monitor_mode, input, pressed, killed>>

\* Where the main thread goes with a key.
Option(key) ==
    IF key = "2" THEN "monitor_begin"
    ELSE IF key = "0" THEN "menu_exit"
    ELSE IF key = "form" THEN "menu_form"
    ELSE "menu_done"

\* A key: the option runs with the terminal and the cursor as they were found.
menu_key ==
    /\ pc = "menu_select" /\ input # <<>>
    /\ input' = Tail(input)
    /\ term' = menu_old /\ cursor' = TRUE
    /\ pc' = Option(Head(input))
    /\ monitor_mode' = (monitor_mode \/ Head(input) = "2")
    /\ UNCHANGED <<program, menu_old, monitor_old, running, pressed, killed>>

\* Questions and "Press Enter to continue": whole lines through stdio.
menu_form ==
    /\ pc = "menu_form" /\ input # <<>>
    /\ input' = Tail(input)
    /\ pc' = IF Head(input) = "enter" THEN "menu_done" ELSE pc
    /\ UNCHANGED <<program, term, cursor, menu_old, monitor_old, running,
                   monitor_mode, pressed, killed>>

\* Option 0 stops the containers, and waits for Enter if there was one.
menu_exit(stopped) ==
    /\ pc = "menu_exit"
    /\ stopped => "enter" \in {input[i] : i \in DOMAIN input}
    /\ input' = IF stopped THEN <<>> ELSE input
    /\ running' = FALSE /\ pc' = "menu_done"
    /\ UNCHANGED <<program, term, cursor, menu_old, monitor_old, monitor_mode, pressed,
                   killed>>

menu_done ==
    /\ pc = "menu_done" /\ pc' = "menu_loop"
    /\ term' = "raw" /\ cursor' = FALSE
    /\ UNCHANGED <<program, menu_old, monitor_old, running, monitor_mode, input, pressed,
                   killed>>

menu_end ==
    /\ pc = "menu_loop" /\ ~running /\ pc' = "ended"
    /\ term' = menu_old /\ cursor' = TRUE
    /\ UNCHANGED <<program, menu_old, monitor_old, running, monitor_mode, input, pressed,
                   killed>>

(***************************************************************************)
(* display_monitor.                                                        *)
(***************************************************************************)
monitor_begin ==
    /\ pc = "monitor_begin" /\ pc' = "monitor_loop"
    /\ cursor' = FALSE
    /\ UNCHANGED <<program, term, menu_old, monitor_old, running, monitor_mode,
                   input, pressed, killed>>

\* Mutant of monitor_loop: keys that are waiting are thrown away (TCSAFLUSH).
monitor_loop_flushes ==
    /\ pc = "monitor_loop" /\ monitor_mode /\ running
    /\ monitor_old' = term /\ term' = "raw" /\ input' = <<>>
    /\ pc' = "monitor_read"
    /\ UNCHANGED <<program, cursor, menu_old, running, monitor_mode, pressed, killed>>

\* Every turn saves the settings again.
monitor_loop ==
    /\ pc = "monitor_loop" /\ monitor_mode /\ running
    /\ monitor_old' = term /\ term' = "raw"
    /\ pc' = "monitor_read"
    /\ UNCHANGED <<program, cursor, menu_old, running, monitor_mode, input, pressed,
                   killed>>

\* One key at most is read in a turn; 'q' leaves the loop before the settings
\* are put back, any other turn puts them back and sleeps.
monitor_read ==
    LET quit == input # <<>> /\ Head(input) = "q"
    IN  /\ pc = "monitor_read"
        /\ input' = IF input = <<>> THEN input ELSE Tail(input)
        /\ pc' = IF quit THEN "monitor_end" ELSE "monitor_loop"
        /\ monitor_mode' = (monitor_mode /\ ~quit)
        /\ term' = IF quit THEN term ELSE monitor_old
        /\ UNCHANGED <<program, cursor, menu_old, monitor_old, running, pressed,
                       killed>>

\* Back to the menu, or the end of the command.
monitor_end ==
    /\ pc = "monitor_end"
    /\ pc' = IF program = "menu" THEN "menu_done" ELSE "ended"
    /\ cursor' = TRUE /\ monitor_mode' = FALSE
    /\ UNCHANGED <<program, term, menu_old, monitor_old, running, input, pressed,
                   killed>>

(***************************************************************************)
(* The user, and the signal handler.                                       *)
(***************************************************************************)
press(k) ==
    /\ pc # "ended" /\ pressed < MaxKeys
    /\ input' = Append(input, k) /\ pressed' = pressed + 1
    /\ UNCHANGED <<program, pc, term, cursor, menu_old, monitor_old, running, monitor_mode,
                   killed>>

\* signal_handler shows the cursor and ends in exit.
signal_handler ==
    /\ Signals /\ pc # "ended"
    /\ pc' = "ended" /\ running' = FALSE /\ monitor_mode' = FALSE /\ cursor' = TRUE
    /\ killed' = TRUE
    /\ UNCHANGED <<program, term, menu_old, monitor_old, input, pressed>>

Main ==
    \/ menu_begin \/ menu_loop \/ menu_refresh \/ menu_key \/ menu_form
    \/ \E stopped \in BOOLEAN : menu_exit(stopped)
    \/ menu_done \/ menu_end
    \/ monitor_begin \/ monitor_loop \/ monitor_read \/ monitor_end

TerminalNext == Main \/ (\E k \in Keys : press(k)) \/ signal_handler

\* The main thread is not held up for ever while it can take a step.
TerminalSpec == TerminalInit /\ [][TerminalNext]_terminalVars /\ WF_terminalVars(Main)

(***************************************************************************)
(* Properties.                                                             *)
(***************************************************************************)

\* TerminalTypeOK: the values of the variables.
TerminalTypeOK ==
    /\ program \in {"menu", "monitor"}
    /\ pc \in {"menu_begin", "menu_loop", "menu_select", "menu_form", "menu_exit",
               "menu_done", "monitor_begin", "monitor_loop", "monitor_read",
               "monitor_end", "ended"}
    /\ {term, menu_old, monitor_old} \subseteq {"cooked", "raw"}
    /\ {cursor, running, monitor_mode, killed} \subseteq BOOLEAN
    /\ input \in Seq(Keys) /\ pressed \in 0..MaxKeys

\* Unless a signal ends it, the menu leaves the terminal as it found it, and asks
\* its questions with echo, line editing and a cursor, also after any number of
\* monitors that were left by 'q' in raw mode (interactive_menu restores old_term
\* before every option).  The commands monitor and htop have no menu around them:
\* when 'q' has left the loop, they end in raw mode.
TerminalRestored ==
    program = "menu" /\ ~killed /\ pc \in {"ended", "menu_form", "menu_exit"} =>
        term = "cooked" /\ cursor

InMonitor == pc \in {"monitor_begin", "monitor_loop", "monitor_read", "monitor_end"}

\* 'q' ends the monitor, also when other keys were pressed before it: the
\* monitor reads one key in a turn.
QuitEndsMonitor ==
    (InMonitor /\ "q" \in {input[i] : i \in DOMAIN input}) ~> ~InMonitor

=============================================================================
