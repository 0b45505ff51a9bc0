----------------------------- MODULE MCConsole -----------------------------
(***************************************************************************)
(* What the user types, in four scenes that share no state: the keys of    *)
(* the menu and of the monitor; the limits; the ids; the memory and CPU    *)
(* test.  A behaviour stays in its scene; the variables of the others      *)
(* rest.                                                                   *)
(***************************************************************************)
EXTENDS Terminal, Limits, ContainerIds, Configurations

VARIABLE scene

consoleVars == <<scene, terminalVars, limitsVars, idsVars, configVars>>

ConsoleInit ==
    /\ scene \in {"keys", "numbers", "names", "test"}
    /\ TerminalInit /\ (scene # "keys" => program = "menu")
    /\ LimitsInit /\ (scene # "numbers" => version = "v2")
    /\ IdsInit /\ ConfigInit

ConsoleNext ==
    \/ scene = "keys" /\ TerminalNext /\ UNCHANGED <<scene, limitsVars, idsVars, configVars>>
    \/ scene = "numbers" /\ LimitsNext /\ UNCHANGED <<scene, terminalVars, idsVars, configVars>>
    \/ scene = "names" /\ IdsNext /\ UNCHANGED <<scene, terminalVars, limitsVars, configVars>>
    \/ scene = "test" /\ ConfigNext /\ UNCHANGED <<scene, terminalVars, limitsVars, idsVars>>

\* The main thread is not held up for ever while it can take a step.
ConsoleFairness ==
    WF_consoleVars(scene = "keys" /\ Main
                     /\ UNCHANGED <<scene, limitsVars, idsVars, configVars>>)

ConsoleSpec == ConsoleInit /\ [][ConsoleNext]_consoleVars /\ ConsoleFairness
=============================================================================
