----------------------------- MODULE WebServer -----------------------------
(***************************************************************************)
(* The life of the web server (web_server_simple.cpp) inside mini-container*)
(* (main.cpp) and mini-container-web (web_server_main.cpp): a main thread, *)
(* a server thread that accepts one client after the other, and a signal   *)
(* handler that runs on top of either of them.                             *)
(*                                                                         *)
(* A thread is a stack of frames; only the top frame takes steps.  The     *)
(* first frame of main is main() and that of the server is serverThread(); *)
(* every other frame is an activation of signal_handler.                   *)
(***************************************************************************)
EXTENDS Integers, Sequences

CONSTANTS Modes,      \* how the process may be started
          SignalAt,   \* locations of the main thread where a signal may strike
          MaxSignals, \* bound on the number of signals
          MaxClients, \* bound on the connections that wait to be accepted
          Faults      \* calls of the server thread that may fail

\* menu: mini-container without arguments.  command: with any command but run.
\* run: the command run.  web: mini-container-web.
AllModes == {"menu", "command", "run", "web"}

\* Locations of main() and of the handler.
\*   begin, spawn, assign   in start(): before running_ is set, before the thread
\*                          is created, before it is moved to server_thread_
\*   work                   the menu, the command, the loop of mini-container-web
\*   handle                 the handler, before it looks at web_server
\*   stop, clear, close, join  in stop(), before each of its statements
\*   return                 at the end of the handler of mini-container-web
\*   delete, free           in delete web_server: before and behind the
\*                          destructor's call of stop()
\*   null                   before web_server = nullptr
\*   cleanup                before container_manager_cleanup
\*   exit                   behind it, before the process is gone
MainAt == {"begin", "spawn", "assign", "work", "handle", "stop", "clear", "close",
           "join", "return", "delete", "free", "null", "cleanup", "exit"}

\* Locations of serverThread(); blocked is inside accept, behind its check of
\* the descriptor.
ServerAt == {"socket", "bind", "listen", "loop", "accept", "blocked", "read",
             "serve", "finish"}

Threads == {"main", "server"}
Signals == {"SIGINT", "SIGTERM"}

ASSUME WebServerAssumption ==
    /\ Modes \subseteq AllModes
    /\ SignalAt \subseteq MainAt
    /\ MaxSignals \in Nat
    /\ MaxClients \in Nat
    /\ Faults \subseteq {"socket", "bind", "listen", "accept", "stoul"}

VARIABLES mode,           \* how the process was started
          stack,          \* the frames of each thread
          running,        \* the flag of main.cpp and web_server_main.cpp
          running_,       \* the flag of the server
          server_socket_, \* a descriptor, or -1
          fd,             \* that descriptor: never opened, open or closed
          listening,      \* listen has succeeded
          pending,        \* connections that wait to be accepted
          input,          \* what the accepted client has done
          server_thread_, \* empty, joinable or joined
          web_server,     \* the pointer: set or null
          object,         \* what it points to: live or freed
          table,          \* the container manager's memory: live or freed
          process,        \* up, exited, aborted, uncaught or undefined
          signals,        \* number of signals sent so far
          struck          \* history: the locations of main where they struck

socketVars == <<server_socket_, fd, listening, pending, input>>
serverVars == <<running_, server_thread_>>
objectVars == <<web_server, object, table>>
controlVars == <<mode, running, signals, struck>>
vars == <<stack, socketVars, serverVars, objectVars, controlVars, process>>

\* sig: the signal whose handler this is; ret: where stop() returns to.
Frame(sig, at, ret) == [sig |-> sig, at |-> at, ret |-> ret]

Init ==
    /\ mode \in Modes
    /\ stack = [t \in Threads |->
                   IF t = "main" THEN <<Frame("none", "begin", "none")>> ELSE <<>>]
    /\ running = TRUE
    /\ running_ = FALSE
    /\ server_socket_ = -1 /\ fd = "none" /\ listening = FALSE
    /\ pending = 0 /\ input = "none"
    /\ server_thread_ = "empty"
    /\ web_server = "set" /\ object = "live" /\ table = "live"
    /\ process = "up"
    /\ signals = 0 /\ struck = {}

Top(t) == stack[t][Len(stack[t])]

At(t, l) == process = "up" /\ stack[t] # <<>> /\ Top(t).at = l

Enter(t, l, r) ==
    stack' = [stack EXCEPT ![t][Len(stack[t])] = Frame(@.sig, l, r)]
Goto(t, l) == Enter(t, l, Top(t).ret)
Pop(t) == stack' = [stack EXCEPT ![t] = SubSeq(@, 1, Len(@) - 1)]

\* The process ends, or goes on in a way the language does not define.
Die(how) ==
    /\ process' = how
    /\ UNCHANGED <<stack, socketVars, serverVars, objectVars, controlVars>>

InHandler(t) == Top(t).sig # "none"

(***************************************************************************)
(* start(), and the end of main().                                         *)
(***************************************************************************)
start_flag ==
    /\ At("main", "begin")
    /\ running_' = TRUE
    /\ Goto("main", "spawn")
    /\ UNCHANGED <<socketVars, server_thread_, objectVars, controlVars, process>>

start_thread ==
    /\ At("main", "spawn")
    /\ stack' = [stack EXCEPT !["main"][Len(stack["main"])].at = "assign",
                              !["server"] = <<Frame("none", "socket", "none")>>]
    /\ UNCHANGED <<socketVars, serverVars, objectVars, controlVars, process>>

start_assign ==
    /\ At("main", "assign")
    /\ server_thread_' = "joinable"
    /\ Goto("main", "work")
    /\ UNCHANGED <<running_, socketVars, objectVars, controlVars, process>>

\* The run command leaves main() without a stop.
main_ends ==
    /\ At("main", "work")
    /\ mode = "web" => ~running
    /\ CASE mode = "run" -> Goto("main", "exit")
         [] mode = "web" -> Goto("main", "delete")
         [] mode \notin {"run", "web"} /\ web_server = "null" -> Goto("main", "cleanup")
         [] OTHER -> Enter("main", "stop", "delete")
    /\ UNCHANGED <<socketVars, serverVars, objectVars, controlVars, process>>

(***************************************************************************)
(* stop(), called by thread t.                                             *)
(***************************************************************************)
stop_check(t) ==
    /\ At(t, "stop")
    /\ IF object = "freed" THEN Die("undefined")
       ELSE /\ Goto(t, IF running_ THEN "clear" ELSE Top(t).ret)
            /\ UNCHANGED <<socketVars, serverVars, objectVars, controlVars, process>>

stop_clear(t) ==
    /\ At(t, "clear")
    /\ running_' = FALSE
    /\ Goto(t, "close")
    /\ UNCHANGED <<socketVars, server_thread_, objectVars, controlVars, process>>

\* close(server_socket_).  The kernel drops the waiting connections, unless a
\* thread is still inside accept: the socket then lives on until it returns.
CloseSocket ==
    IF server_socket_ = -1 THEN UNCHANGED <<fd, pending>>
    ELSE /\ fd' = "closed"
         /\ pending' = IF \E i \in DOMAIN stack["server"] :
                             stack["server"][i].at = "blocked"
                       THEN pending ELSE 0

stop_close(t) ==
    /\ At(t, "close")
    /\ CloseSocket /\ server_socket_' = -1
    /\ Goto(t, "join")
    /\ UNCHANGED <<listening, input, serverVars, objectVars, controlVars, process>>

\* Mutant of stop_join: the thread is not waited for.
stop_without_join(t) ==
    /\ At(t, "join")
    /\ Goto(t, Top(t).ret)
    /\ UNCHANGED <<socketVars, serverVars, objectVars, controlVars, process>>

\* A thread that joins itself gets an exception nobody catches.
stop_join(t) ==
    /\ At(t, "join")
    /\ \/ /\ server_thread_ = "joinable" /\ t = "server"
          /\ Die("aborted")
       \/ /\ server_thread_ = "joinable" => t = "main" /\ stack["server"] = <<>>
          /\ server_thread_' = IF server_thread_ = "joinable" THEN "joined"
                                                              ELSE server_thread_
          /\ Goto(t, Top(t).ret)
          /\ UNCHANGED <<running_, socketVars, objectVars, controlVars, process>>

(***************************************************************************)
(* delete web_server, and what follows it.                                 *)
(***************************************************************************)
delete_object(t) ==
    /\ At(t, "delete")
    /\ Enter(t, "stop", "free")
    /\ UNCHANGED <<socketVars, serverVars, objectVars, controlVars, process>>

\* Only the handler and the end of a command clear the pointer.
AfterFree(t) ==
    IF InHandler(t) \/ mode = "command" THEN "null" ELSE "cleanup"

\* The destructor of a std::thread that is joinable ends the process.
free_object(t) ==
    /\ At(t, "free")
    /\ CASE object = "freed" -> Die("undefined")
         [] object = "live" /\ server_thread_ = "joinable" -> Die("aborted")
         [] OTHER ->
              /\ object' = "freed"
              /\ Goto(t, AfterFree(t))
              /\ UNCHANGED <<socketVars, serverVars, web_server, table, controlVars,
                             process>>

clear_pointer(t) ==
    /\ At(t, "null")
    /\ web_server' = "null"
    /\ Goto(t, "cleanup")
    /\ UNCHANGED <<socketVars, serverVars, object, table, controlVars, process>>

cleanup(t) ==
    /\ At(t, "cleanup")
    /\ IF table = "freed" THEN Die("undefined")
       ELSE /\ table' = "freed"
            /\ Goto(t, "exit")
            /\ UNCHANGED <<socketVars, serverVars, web_server, object, controlVars,
                           process>>

leave(t) ==
    /\ At(t, "exit")
    /\ Die("exited")

(***************************************************************************)
(* Signals.  The kernel gives a signal to the main thread, unless that is  *)
(* in the handler of the same signal; the server thread is next.           *)
(***************************************************************************)
Blocked(t, sig) == \E i \in DOMAIN stack[t] : stack[t][i].sig = sig

deliver(sig) ==
    /\ process = "up" /\ signals < MaxSignals
    /\ \E t \in Threads :
          /\ stack[t] # <<>> /\ ~Blocked(t, sig)
          /\ t = "main" => Top(t).at \in SignalAt
          /\ t = "server" => Blocked("main", sig)
          /\ stack' = [stack EXCEPT ![t] = Append(@, Frame(sig, "handle", "none"))]
          /\ struck' = IF t = "main" THEN struck \cup {Top(t).at} ELSE struck
    /\ signals' = signals + 1
    /\ UNCHANGED <<mode, running, socketVars, serverVars, objectVars, process>>

\* Mutant of handle: the table is freed before the server is stopped.
handle_cleanup_first(t) ==
    /\ At(t, "handle")
    /\ running' = FALSE
    /\ table' = "freed"
    /\ Enter(t, "stop", "delete")
    /\ UNCHANGED <<mode, signals, struck, socketVars, serverVars, web_server, object,
                   process>>

\* The handler of mini-container walks over the containers and stops them, that
\* of mini-container-web does not.
handle(t) ==
    /\ At(t, "handle")
    /\ IF mode # "web" /\ table = "freed" THEN Die("undefined")
       ELSE /\ running' = FALSE
            /\ CASE web_server = "set" ->
                      Enter(t, "stop", IF mode = "web" THEN "return" ELSE "delete")
                 [] web_server = "null" /\ mode = "web" -> Goto(t, "return")
                 [] OTHER -> Goto(t, "cleanup")
            /\ UNCHANGED <<mode, signals, struck, socketVars, serverVars, objectVars, process>>

handler_returns(t) ==
    /\ At(t, "return")
    /\ Pop(t)
    /\ UNCHANGED <<socketVars, serverVars, objectVars, controlVars, process>>

(***************************************************************************)
(* serverThread().                                                         *)
(***************************************************************************)
Valid == server_socket_ # -1 /\ fd = "open"

\* The thread returns.
Over == stack' = [stack EXCEPT !["server"] = <<>>]

create_socket ==
    /\ At("server", "socket")
    /\ \/ /\ server_socket_' = 3 /\ fd' = "open"
          /\ Goto("server", "bind")
       \/ "socket" \in Faults /\ Over /\ UNCHANGED <<server_socket_, fd>>
    /\ UNCHANGED <<listening, pending, input, serverVars, objectVars, controlVars, process>>

\* Mutant of bind_socket: the error path does not close the socket.
bind_leaks ==
    /\ At("server", "bind")
    /\ \/ Valid /\ Goto("server", "listen") /\ UNCHANGED <<server_socket_, fd, pending>>
       \/ /\ ~Valid \/ "bind" \in Faults
          /\ server_socket_' = -1 /\ Over /\ UNCHANGED <<fd, pending>>
    /\ UNCHANGED <<listening, input, serverVars, objectVars, controlVars, process>>

bind_socket ==
    /\ At("server", "bind")
    /\ \/ Valid /\ Goto("server", "listen") /\ UNCHANGED <<server_socket_, fd, pending>>
       \/ /\ ~Valid \/ "bind" \in Faults
          /\ CloseSocket /\ server_socket_' = -1 /\ Over
    /\ UNCHANGED <<listening, input, serverVars, objectVars, controlVars, process>>

\* This error path keeps the number of the closed descriptor.
listen_socket ==
    /\ At("server", "listen")
    /\ \/ /\ Valid /\ listening' = TRUE /\ Goto("server", "loop")
          /\ UNCHANGED <<fd, pending>>
       \/ /\ ~Valid \/ "listen" \in Faults
          /\ CloseSocket /\ Over /\ UNCHANGED listening
    /\ UNCHANGED <<server_socket_, input, serverVars, objectVars, controlVars, process>>

\* Mutant of loop: the flag is not looked at again.
loop_forever ==
    /\ At("server", "loop")
    /\ Goto("server", "accept")
    /\ UNCHANGED <<socketVars, serverVars, objectVars, controlVars, process>>

loop ==
    /\ At("server", "loop")
    /\ Goto("server", IF running_ THEN "accept" ELSE "finish")
    /\ UNCHANGED <<socketVars, serverVars, objectVars, controlVars, process>>

call_accept ==
    /\ At("server", "accept")
    /\ \/ Valid /\ Goto("server", "blocked")
       \/ (~Valid \/ "accept" \in Faults) /\ Goto("server", "loop")
    /\ UNCHANGED <<socketVars, serverVars, objectVars, controlVars, process>>

\* accept returns when there is a connection; closing the descriptor does not
\* wake it.
accept_returns ==
    /\ At("server", "blocked") /\ pending > 0
    /\ pending' = IF fd = "open" THEN pending - 1 ELSE 0
    /\ input' = "none"
    /\ Goto("server", "read")
    /\ UNCHANGED <<server_socket_, fd, listening, serverVars, objectVars, controlVars, process>>

\* read waits until the client has sent something, or has closed.
read_request ==
    /\ At("server", "read") /\ input # "none"
    /\ Goto("server", IF input = "request" THEN "serve" ELSE "loop")
    /\ UNCHANGED <<socketVars, serverVars, objectVars, controlVars, process>>

\* A request is answered.  Or it is for the list of containers while one without
\* a CPU quota runs: std::stoul throws (parse_fails in Dashboard), nothing catches
\* the exception, and the process ends.
handleRequest ==
    /\ At("server", "serve")
    /\ \/ /\ Goto("server", "loop")
          /\ UNCHANGED <<socketVars, serverVars, objectVars, controlVars, process>>
       \/ "stoul" \in Faults /\ Die("uncaught")

finish_thread ==
    /\ At("server", "finish")
    /\ CloseSocket /\ server_socket_' = -1
    /\ Over
    /\ UNCHANGED <<listening, input, serverVars, objectVars, controlVars, process>>

\* The thread goes on with members of an object that is gone.
use_after_delete ==
    /\ process = "up" /\ stack["server"] # <<>> /\ object = "freed"
    /\ ~InHandler("server")
    /\ Die("undefined")

(***************************************************************************)
(* Clients: browsers that show the dashboard poll it.                      *)
(***************************************************************************)
InAccept == stack["server"] # <<>> /\ stack["server"][1].at = "blocked"

connect ==
    /\ process = "up"
    /\ listening /\ (fd = "open" \/ InAccept) /\ pending < MaxClients
    /\ pending' = pending + 1
    /\ UNCHANGED <<stack, server_socket_, fd, listening, input, serverVars, objectVars,
                   controlVars, process>>

client_acts ==
    /\ process = "up"
    /\ stack["server"] # <<>> /\ stack["server"][1].at = "read" /\ input = "none"
    /\ input' \in {"request", "closed"}
    /\ UNCHANGED <<stack, server_socket_, fd, listening, pending, serverVars, objectVars,
                   controlVars, process>>

(***************************************************************************)
(* The specification.  The operating system runs both threads; nothing     *)
(* obliges a client to connect or to send, or a user to leave the menu.    *)
(***************************************************************************)
Stop(t) == stop_check(t) \/ stop_clear(t) \/ stop_close(t) \/ stop_join(t)
Shutdown(t) ==
    \/ handle(t) \/ handler_returns(t) \/ Stop(t) \/ delete_object(t) \/ free_object(t)
    \/ clear_pointer(t) \/ cleanup(t) \/ leave(t)
Main == start_flag \/ start_thread \/ start_assign \/ Shutdown("main")
ServerThread ==
    \/ create_socket \/ bind_socket \/ listen_socket \/ loop \/ call_accept
    \/ accept_returns \/ read_request \/ handleRequest \/ finish_thread
    \/ use_after_delete \/ Shutdown("server")
Clients == connect \/ client_acts

Next == Main \/ main_ends \/ ServerThread \/ Clients \/ \E sig \in Signals : deliver(sig)

Fairness ==
    /\ WF_vars(Main)
    /\ WF_vars(main_ends /\ mode = "web")
    /\ WF_vars(ServerThread)

Spec == Init /\ [][Next]_vars /\ Fairness

(***************************************************************************)
(* Properties.                                                             *)
(***************************************************************************)

\* Every variable has its type.
TypeOK ==
    /\ mode \in Modes
    /\ \A t \in Threads : \A i \in DOMAIN stack[t] :
          /\ stack[t][i].sig \in Signals \cup {"none"}
          /\ stack[t][i].at \in MainAt \cup ServerAt
    /\ running \in BOOLEAN /\ running_ \in BOOLEAN
    /\ server_socket_ \in {-1, 3} /\ fd \in {"none", "open", "closed"}
    /\ pending \in 0..MaxClients /\ input \in {"none", "request", "closed"}
    /\ server_thread_ \in {"empty", "joinable", "joined"}
    /\ web_server \in {"set", "null"} /\ object \in {"live", "freed"}
    /\ table \in {"live", "freed"}
    /\ process \in {"up", "exited", "aborted", "uncaught", "undefined"}
    /\ signals \in 0..MaxSignals /\ struck \subseteq SignalAt

\* The points of the main thread where a signal finds the server in order; at
\* the others the handler and the interrupted call get in each other's way.
SafePoints == {"begin", "work", "stop", "clear", "delete", "free"}

\* At most one signal so far, at a safe point.
Calm == signals <= 1 /\ struck \subseteq SafePoints

\* With one signal at a point where the handler is safe, or none, the shutdown
\* neither aborts nor touches freed memory, whoever of main() and the handler
\* gets to stop, delete and clean up first (stop, signal_handler).  The end of the
\* process by the exception of a request ("uncaught") is no shutdown, and may
\* come at any time that a request is served.
Graceful == Calm => process \notin {"aborted", "undefined"}

\* In the same behaviours the thread that reads the table is over when
\* container_manager_cleanup frees it.
QuietAtCleanup == Calm /\ table = "freed" => stack["server"] = <<>>

\* Whatever any number of signals do to the order of start(), stop() and failing
\* calls, no open socket outlives the server thread (serverThread).
SocketReleased == stack["server"] = <<>> => fd # "open"

\* A shutdown that has begun ends the process.
ShutdownEnds ==
    (\E i \in DOMAIN stack["main"] : stack["main"][i].at \notin
        {"begin", "spawn", "assign", "work"}) ~> process # "up"
=============================================================================
