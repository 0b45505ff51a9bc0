---------------------------- MODULE MCWebServer ----------------------------
(***************************************************************************)
(* The web server, in three scenes that share no state: the life of the    *)
(* server with a browser that polls, and the two pages that keep samples.  *)
(* A behaviour stays in its scene; the variables of the others rest.       *)
(***************************************************************************)
EXTENDS WebServer, Dashboard, SystemInfo

VARIABLE scene

lifeVars == vars
sceneVars == <<scene, lifeVars, pageVars, hostVars>>

SceneInit ==
    /\ scene \in {"life", "page", "host"}
    /\ Init /\ (scene # "life" => mode = "menu")
    /\ PageInit
    /\ HostInit /\ (scene # "host" => busy = 0)

SceneNext ==
    \/ scene = "life" /\ Next /\ UNCHANGED <<scene, pageVars, hostVars>>
    \/ scene = "page" /\ PageNext /\ UNCHANGED <<scene, lifeVars, hostVars>>
    \/ scene = "host" /\ HostNext /\ UNCHANGED <<scene, lifeVars, pageVars>>

Polled == scene = "life" /\ UNCHANGED <<scene, pageVars, hostVars>>

\* The system schedules both threads; the browser keeps polling, and whoever
\* connects sends a request or closes.
SceneFairness ==
    /\ WF_sceneVars(Polled /\ Main)
    /\ WF_sceneVars(Polled /\ main_ends /\ mode = "web")
    /\ WF_sceneVars(Polled /\ ServerThread)
    /\ WF_sceneVars(Polled /\ connect)
    /\ WF_sceneVars(Polled /\ client_acts)

SceneSpec == SceneInit /\ [][SceneNext]_sceneVars /\ SceneFairness
=============================================================================
