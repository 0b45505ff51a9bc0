-------------------------- MODULE WebServerProofs --------------------------
(***************************************************************************)
(* Proofs about the web server: no open socket outlives the server thread; *)
(* one signal at a safe point leads to an orderly shutdown; the CPU times  *)
(* of the dashboard and the percentage of the host are right.              *)
(***************************************************************************)
EXTENDS WebServer, Dashboard, SystemInfo, TLAPS

(***************************************************************************)
(* The stacks of the two threads.                                          *)
(***************************************************************************)
StopAt == {"stop", "clear", "close", "join"}
StartAt == {"begin", "spawn", "assign", "work"}
Frames == [sig : Signals \cup {"none"}, at : MainAt \cup ServerAt,
           ret : {"none", "delete", "free", "return"}]

\* What a frame may be: the first of main, the first of the server, a handler.
MainFrame(f) ==
    /\ f.sig = "none"
    /\ f.at \in MainAt \ {"handle", "return"}
    /\ f.ret # "return"
    /\ f.at \in StopAt => f.ret \in {"delete", "free"}
ServerFrame(f) == f.sig = "none" /\ f.at \in ServerAt
HandlerFrame(f) ==
    /\ f.sig \in Signals
    /\ f.at \in MainAt \ StartAt
    /\ f.at \in StopAt => f.ret \in {"delete", "free", "return"}

\* The i-th frame of thread t may be f.
Fits(t, i, f) ==
    IF i > 1 THEN HandlerFrame(f) ELSE IF t = "main" THEN MainFrame(f) ELSE ServerFrame(f)

StackInv ==
    /\ stack \in [Threads -> Seq(Frames)]
    /\ stack["main"] # <<>>
    /\ \A t \in Threads : \A i \in 1..Len(stack[t]) : Fits(t, i, stack[t][i])

\* The socket is open only while the thread that has opened it is there, and
\* its number is not forgotten meanwhile.
SocketInv ==
    /\ stack["main"][1].at \in {"begin", "spawn"} => stack["server"] = <<>>
    /\ stack["server"] # <<>> /\ stack["server"][1].at = "socket" => fd # "open"
    /\ fd = "open" => server_socket_ # -1 /\ stack["server"] # <<>>

(***************************************************************************)
(* The orderly shutdown.                                                   *)
(***************************************************************************)

\* One handler at most, on top of a main() that waits at a safe point.
OneHandler ==
    /\ Len(stack["server"]) <= 1
    /\ Len(stack["main"]) <= 1 + signals
    /\ Len(stack["main"]) = 2 => stack["main"][1].at \in SafePoints

\* The thread is there only while main creates it or it can be joined, and it can
\* be joined only while the flag is up or somebody is about to join it.
ThreadInv ==
    /\ stack["server"] # <<>> =>
          server_thread_ = "joinable" \/ stack["main"][1].at = "assign"
    /\ server_thread_ = "joinable" => running_ \/ Top("main").at \in {"close", "join"}
    /\ stack["main"][1].at \in {"spawn", "assign"} => running_
    /\ Top("main").at \in {"close", "join"} => ~running_
    /\ \A i \in 1..Len(stack["main"]) : stack["main"][i].at = "free" => ~running_

\* What is freed tells how far the top of main has come.
FreeInv ==
    /\ object = "freed" => Top("main").at \in {"null", "cleanup", "exit"}
    /\ object = "freed" => stack["server"] = <<>>
    /\ Top("main").at \in {"null", "cleanup"} => object = "freed"
    /\ web_server = "null" => Top("main").at \in {"cleanup", "exit"}
    /\ table = "freed" => Top("main").at = "exit" /\ object = "freed"

ShutdownInv ==
    Calm => /\ OneHandler /\ ThreadInv /\ FreeInv
            /\ process \notin {"aborted", "undefined"}

TypeInv ==
    /\ signals \in Nat /\ running_ \in BOOLEAN
    /\ web_server \in {"set", "null"} /\ object \in {"live", "freed"}
    /\ table \in {"live", "freed"}
    /\ fd \in {"none", "open", "closed"}
    /\ StackInv

(***************************************************************************)
(* How the stacks change.                                                  *)
(***************************************************************************)

\* The top frame of thread t becomes f.
Moves(t, f) ==
    /\ stack' \in [Threads -> Seq(Frames)]
    /\ Len(stack'[t]) = Len(stack[t])
    /\ \A i \in 1..Len(stack[t]) :
          stack'[t][i] = IF i = Len(stack[t]) THEN f ELSE stack[t][i]
    /\ \A u \in Threads : u # t => stack'[u] = stack[u]

\* A stack with a frame on it has a positive length.
LEMMA StackLen ==
    ASSUME StackInv, NEW t \in Threads, stack[t] # <<>>
    PROVE  /\ Len(stack[t]) \in Nat /\ Len(stack[t]) >= 1
           /\ Len(stack[t]) = 1 \/ Len(stack[t]) > 1
           /\ 1 \in 1..Len(stack[t])
  <1> DEFINE n == Len(stack[t])
  <1>1. stack[t] \in Seq(Frames)
    BY DEF StackInv
  <1>2. n \in Nat /\ n # 0
    BY <1>1
  <1> HIDE DEF n
  <1>3. n >= 1 /\ (n = 1 \/ n > 1) /\ 1 \in 1..n
    BY <1>2
  <1> QED BY <1>2, <1>3 DEF n

\* The top of a stack is a frame of its place.
LEMMA TopFits ==
    ASSUME StackInv, NEW t \in Threads, stack[t] # <<>>
    PROVE  /\ stack[t] \in Seq(Frames) /\ Len(stack[t]) \in Nat \ {0}
           /\ Top(t) \in Frames /\ Fits(t, Len(stack[t]), Top(t))
  <1>1. stack[t] \in Seq(Frames)
    BY DEF StackInv
  <1>2. Len(stack[t]) \in Nat \ {0}
    BY <1>1
  <1>3. Top(t) \in Frames
    BY <1>1, <1>2 DEF Top
  <1>4. Fits(t, Len(stack[t]), Top(t))
    BY <1>2 DEF StackInv, Top
  <1> QED BY <1>1, <1>2, <1>3, <1>4

\* Replacing the top by a frame that fits keeps the stacks in order.
LEMMA MovesKeepStacks ==
    ASSUME StackInv, NEW t \in Threads, stack[t] # <<>>, NEW f, Moves(t, f),
           Fits(t, Len(stack[t]), f)
    PROVE  StackInv'
  <1> USE DEF Moves
  <1>1. stack[t] \in Seq(Frames) /\ Len(stack[t]) \in Nat \ {0}
    BY TopFits
  <1>2. stack' \in [Threads -> Seq(Frames)]
    OBVIOUS
  <1>3. stack'["main"] # <<>>
    <2>1. CASE t = "main"
      BY <2>1, <1>1
    <2>2. CASE t # "main"
      BY <2>2 DEF StackInv, Threads
    <2> QED BY <2>1, <2>2
  <1>4. ASSUME NEW u \in Threads, NEW i \in 1..Len(stack'[u])
        PROVE  Fits(u, i, stack'[u][i])
    <2>1. CASE u # t
      BY <2>1, <1>4 DEF StackInv
    <2>2. CASE u = t /\ i # Len(stack[t])
      BY <2>2, <1>4, <1>1 DEF StackInv
    <2>3. CASE u = t /\ i = Len(stack[t])
      BY <2>3, <1>4, <1>1
    <2> QED BY <2>1, <2>2, <2>3
  <1> QED BY <1>2, <1>3, <1>4 DEF StackInv

\* What Enter does.
LEMMA EnterMoves ==
    ASSUME StackInv, NEW t \in Threads, stack[t] # <<>>, NEW l, NEW r, Enter(t, l, r),
           Frame(Top(t).sig, l, r) \in Frames
    PROVE  Moves(t, Frame(Top(t).sig, l, r))
  <1> DEFINE n == Len(stack[t])
             f == Frame(Top(t).sig, l, r)
             s == [stack[t] EXCEPT ![n] = f]
  <1>1. /\ stack[t] \in Seq(Frames) /\ n \in Nat \ {0}
        /\ stack \in [Threads -> Seq(Frames)]
    BY TopFits DEF StackInv
  <1>2. stack' = [stack EXCEPT ![t] = s]
    BY DEF Enter, Top
  <1>3. /\ s \in Seq(Frames) /\ Len(s) = n
        /\ \A i \in 1..n : s[i] = IF i = n THEN f ELSE stack[t][i]
    BY <1>1
  <1> HIDE DEF s
  <1>4. stack'[t] = s /\ \A u \in Threads : u # t => stack'[u] = stack[u]
    BY <1>1, <1>2
  <1>5. stack' \in [Threads -> Seq(Frames)]
    BY <1>1, <1>2, <1>3
  <1> QED BY <1>3, <1>4, <1>5 DEF Moves

\* A frame of main() or of a handler goes on to l, where it is no longer starting.
LEMMA EnterFits ==
    ASSUME StackInv, NEW t \in Threads, stack[t] # <<>>, Top(t).at \in MainAt,
           NEW l \in MainAt \ (StartAt \cup {"handle"}),
           NEW r \in {"none", "delete", "free", "return"},
           l \in StopAt => r # "none",
           Len(stack[t]) = 1 => l # "return" /\ r # "return",
           Enter(t, l, r)
    PROVE  StackInv' /\ Moves(t, Frame(Top(t).sig, l, r))
  <1> DEFINE f == Frame(Top(t).sig, l, r)
  <1>1. /\ Len(stack[t]) \in Nat \ {0}
        /\ Top(t) \in Frames /\ Fits(t, Len(stack[t]), Top(t))
    BY TopFits
  <1>2. f \in Frames
    BY <1>1 DEF Frames, Frame
  <1>3. f.sig = Top(t).sig /\ f.at = l /\ f.ret = r
    BY DEF Frame
  <1>4. Fits(t, Len(stack[t]), f)
    <2>1. CASE Len(stack[t]) > 1
      BY <2>1, <1>1, <1>3 DEF Fits, HandlerFrame, StopAt
    <2>2. CASE Len(stack[t]) = 1
      <3>1. t = "main"
        BY <2>2, <1>1 DEF Fits, ServerFrame, MainAt, ServerAt
      <3>2. MainFrame(Top(t))
        BY <3>1, <2>2, <1>1 DEF Fits
      <3>3. MainFrame(f)
        BY <3>2, <2>2, <1>3 DEF MainFrame
      <3> QED BY <3>1, <3>3, <2>2 DEF Fits
    <2>3. Len(stack[t]) > 1 \/ Len(stack[t]) = 1
      BY StackLen
    <2> QED BY <2>1, <2>2, <2>3
  <1>5. Moves(t, f)
    BY <1>2, EnterMoves
  <1> QED BY <1>4, <1>5, MovesKeepStacks

\* What the shutdown code does to the stacks: the server thread's own frame and
\* the beginning of main() are not its business.
ShutdownMoves ==
    /\ StackInv'
    /\ stack["server"] # <<>> <=> stack'["server"] # <<>>
    /\ stack["server"] # <<>> => stack'["server"][1] = stack["server"][1]
    /\ stack'["main"][1].at \in StartAt => stack'["main"][1] = stack["main"][1]

LEMMA MovesShutdown ==
    ASSUME StackInv, StackInv', NEW t \in Threads, stack[t] # <<>>, Top(t).at \in MainAt,
           NEW f, f.at \notin StartAt, Moves(t, f)
    PROVE  ShutdownMoves
  <1>1. /\ stack[t] \in Seq(Frames) /\ Len(stack[t]) \in Nat \ {0}
        /\ Fits(t, Len(stack[t]), Top(t))
    BY TopFits
  <1>2. CASE t = "main"
    <2>1. stack'["server"] = stack["server"]
      BY <1>2 DEF Moves, Threads
    <2>2. stack'["main"][1] = IF 1 = Len(stack[t]) THEN f ELSE stack["main"][1]
      <3>1. \A i \in 1..Len(stack[t]) :
               stack'[t][i] = IF i = Len(stack[t]) THEN f ELSE stack[t][i]
        BY DEF Moves
      <3>2. 1 \in 1..Len(stack[t])
        BY StackLen
      <3> QED BY <3>1, <3>2, <1>2
    <2> QED BY <2>1, <2>2 DEF ShutdownMoves
  <1>3. CASE t = "server"
    <2>1. stack'["main"] = stack["main"]
      BY <1>3 DEF Moves, Threads
    <2>2. Len(stack[t]) \in Nat /\ Len(stack[t]) > 1
      <3>1. Len(stack[t]) = 1 => ServerFrame(Top(t))
        BY <1>1, <1>3 DEF Fits
      <3>2. ~ServerFrame(Top(t))
        BY DEF ServerFrame, MainAt, ServerAt
      <3>3. Len(stack[t]) \in Nat /\ (Len(stack[t]) > 1 \/ Len(stack[t]) = 1)
        BY StackLen
      <3> QED BY <3>1, <3>2, <3>3
    <2>3. stack'["server"][1] = stack["server"][1] /\ stack'["server"] # <<>>
      <3>1. /\ Len(stack'[t]) = Len(stack[t]) /\ stack' \in [Threads -> Seq(Frames)]
            /\ \A i \in 1..Len(stack[t]) :
                  stack'[t][i] = IF i = Len(stack[t]) THEN f ELSE stack[t][i]
        BY DEF Moves
      <3>2. stack'[t] # <<>>
        BY <3>1, <1>1
      <3>3. stack'[t][1] = stack[t][1]
        BY <3>1, <2>2
      <3> QED BY <3>2, <3>3, <1>3
    <2> QED BY <2>1, <2>3, <1>3 DEF ShutdownMoves
  <1> QED BY <1>2, <1>3 DEF Threads

LEMMA EnterShutdown ==
    ASSUME StackInv, NEW t \in Threads, stack[t] # <<>>, Top(t).at \in MainAt,
           NEW l \in MainAt \ (StartAt \cup {"handle"}),
           NEW r \in {"none", "delete", "free", "return"},
           l \in StopAt => r # "none",
           Len(stack[t]) = 1 => l # "return" /\ r # "return",
           Enter(t, l, r)
    PROVE  ShutdownMoves
  <1>1. StackInv' /\ Moves(t, Frame(Top(t).sig, l, r))
    BY EnterFits
  <1>2. Frame(Top(t).sig, l, r).at = l
    BY DEF Frame
  <1> QED BY <1>1, <1>2, MovesShutdown

\* A frame that is not about to return keeps its ret, if it is in main or not.
LEMMA GotoShutdown ==
    ASSUME StackInv, NEW t \in Threads, stack[t] # <<>>, Top(t).at \in MainAt,
           NEW l \in MainAt \ (StartAt \cup {"handle"}),
           l \in StopAt => Top(t).ret # "none",
           Len(stack[t]) = 1 => l # "return",
           Goto(t, l)
    PROVE  ShutdownMoves
  <1>1. /\ Len(stack[t]) \in Nat \ {0}
        /\ Top(t) \in Frames /\ Fits(t, Len(stack[t]), Top(t))
    BY TopFits
  <1>2. Top(t).ret \in {"none", "delete", "free", "return"}
    BY <1>1 DEF Frames
  <1>3. Len(stack[t]) = 1 => Top(t).ret # "return"
    <2>1. Len(stack[t]) = 1 => t = "main"
      BY <1>1 DEF Fits, ServerFrame, MainAt, ServerAt
    <2> QED BY <2>1, <1>1 DEF Fits, MainFrame
  <1> QED BY <1>2, <1>3, EnterShutdown DEF Goto

\* A handler that returns uncovers a frame below it.
LEMMA PopShutdown ==
    ASSUME StackInv, NEW t \in Threads, stack[t] # <<>>, Top(t).at = "return", Pop(t)
    PROVE  /\ ShutdownMoves
           /\ Len(stack[t]) # 1
           /\ Len(stack'[t]) = Len(stack[t]) - 1
           /\ \A i \in 1..Len(stack[t]) - 1 : stack'[t][i] = stack[t][i]
           /\ \A u \in Threads : u # t => stack'[u] = stack[u]
  <1> DEFINE n == Len(stack[t])
             s == SubSeq(stack[t], 1, n - 1)
  <1>1. stack[t] \in Seq(Frames) /\ stack \in [Threads -> Seq(Frames)]
    BY DEF StackInv
  <1>2. n \in Nat /\ n > 1 /\ n # 1
    <2>1. n # 1
      <3>1. ~MainFrame(Top(t)) /\ ~ServerFrame(Top(t))
        BY DEF MainFrame, ServerFrame, ServerAt
      <3>2. Fits(t, Len(stack[t]), Top(t))
        BY TopFits
      <3>3. n = 1 => MainFrame(Top(t)) \/ ServerFrame(Top(t))
        BY <3>2 DEF Fits
      <3> QED BY <3>1, <3>3
    <2> QED BY <2>1, StackLen
  <1>3. s \in Seq(Frames) /\ Len(s) = n - 1 /\ \A i \in 1..(n - 1) : s[i] = stack[t][i]
    BY <1>1, <1>2
  <1>4. stack' = [stack EXCEPT ![t] = s]
    BY DEF Pop
  <1> HIDE DEF s
  <1>5. /\ stack'[t] = s /\ \A u \in Threads : u # t => stack'[u] = stack[u]
        /\ stack' \in [Threads -> Seq(Frames)]
    BY <1>1, <1>3, <1>4
  <1>6. s # <<>> /\ s[1] = stack[t][1]
    BY <1>2, <1>3
  <1>7. StackInv'
    <2>1. stack'["main"] # <<>>
      BY <1>5, <1>6 DEF StackInv, Threads
    <2>2. ASSUME NEW u \in Threads, NEW i \in 1..Len(stack'[u])
          PROVE  Fits(u, i, stack'[u][i])
      <3>1. CASE u # t
        BY <3>1, <2>2, <1>5 DEF StackInv
      <3>2. CASE u = t
        <4>1. i \in 1..(n - 1) /\ i \in 1..n
          BY <3>2, <2>2, <1>2, <1>3, <1>5
        <4>2. stack'[u][i] = stack[u][i]
          BY <4>1, <3>2, <1>3, <1>5
        <4> QED BY <4>1, <4>2, <3>2 DEF StackInv
      <3> QED BY <3>1, <3>2
    <2> QED BY <2>1, <2>2, <1>5 DEF StackInv
  <1>8. ShutdownMoves
    <2>1. \A u \in Threads : /\ stack[u] # <<>> <=> stack'[u] # <<>>
                             /\ stack[u] # <<>> => stack'[u][1] = stack[u][1]
      BY <1>5, <1>6
    <2> QED BY <2>1, <1>7 DEF ShutdownMoves, Threads, StackInv
  <1> QED BY <1>2, <1>3, <1>5, <1>8

\* Every step of the shutdown code, by whichever thread.
LEMMA ShutdownSteps ==
    ASSUME TypeInv, NEW t \in Threads, Shutdown(t)
    PROVE  /\ ShutdownMoves
           /\ \/ fd' = fd /\ server_socket_' = server_socket_
              \/ fd' = "closed"
           /\ running_' \in BOOLEAN /\ web_server' \in {"set", "null"}
           /\ object' \in {"live", "freed"} /\ table' \in {"live", "freed"}
           /\ signals' = signals /\ struck' = struck
  <1> USE DEF TypeInv, socketVars, serverVars, objectVars, controlVars
  <1>1. ASSUME UNCHANGED stack
        PROVE  ShutdownMoves
    BY <1>1 DEF ShutdownMoves, StackInv
  <1>2. ASSUME NEW l, At(t, l), l \in MainAt
        PROVE  /\ stack[t] # <<>> /\ Top(t).at = l /\ Top(t).at \in MainAt
               /\ l \in StopAt => Top(t).ret \in {"delete", "free", "return"}
               /\ l \in StopAt /\ Len(stack[t]) = 1 => Top(t).ret # "return"
               /\ l \in {"handle", "return"} => Len(stack[t]) # 1
    <2>1. stack[t] # <<>> /\ Top(t).at = l
      BY <1>2 DEF At
    <2>2. Fits(t, Len(stack[t]), Top(t))
      BY <2>1, TopFits
    <2>3. MainFrame(Top(t)) \/ HandlerFrame(Top(t))
      <3>1. ~ServerFrame(Top(t))
        BY <2>1, <1>2 DEF ServerFrame, MainAt, ServerAt
      <3> QED BY <2>2, <3>1 DEF Fits
    <2>4. Len(stack[t]) = 1 => MainFrame(Top(t))
      <3>1. ~ServerFrame(Top(t))
        BY <2>1, <1>2 DEF ServerFrame, MainAt, ServerAt
      <3> QED BY <2>2, <3>1 DEF Fits
    <2> QED BY <2>1, <2>3, <2>4, <1>2 DEF MainFrame, HandlerFrame
  <1>3. CASE handle(t)
    <2> USE DEF handle
    <2>1. At(t, "handle") /\ "handle" \in MainAt
      BY <1>3 DEF MainAt
    <2>2. stack[t] # <<>> /\ Top(t).at \in MainAt /\ Len(stack[t]) # 1
      BY <2>1, <1>2
    <2>3. \/ UNCHANGED stack
          \/ Enter(t, "stop", "return") \/ Enter(t, "stop", "delete")
          \/ Goto(t, "return") \/ Goto(t, "cleanup")
      BY <1>3 DEF Die
    <2>4. ShutdownMoves
      <3>1. ASSUME NEW r \in {"return", "delete"}, Enter(t, "stop", r) PROVE ShutdownMoves
        BY <3>1, <2>2, EnterShutdown DEF MainAt, StartAt
      <3>2. ASSUME NEW l \in {"return", "cleanup"}, Goto(t, l) PROVE ShutdownMoves
        BY <3>2, <2>2, GotoShutdown DEF MainAt, StartAt, StopAt
      <3> QED BY <2>3, <3>1, <3>2, <1>1
    <2> QED BY <2>4, <1>3 DEF Die
  <1>4. CASE handler_returns(t)
    <2>1. At(t, "return") /\ Pop(t)
      BY <1>4 DEF handler_returns
    <2>2. ShutdownMoves
      BY <2>1, PopShutdown DEF At
    <2> QED BY <2>2, <1>4 DEF handler_returns
  <1>5. ASSUME NEW l0 \in StopAt, At(t, l0),
               NEW l \in StopAt \cup {"delete", "free", "return"}, Goto(t, l),
               l = Top(t).ret \/ l \in StopAt
        PROVE  ShutdownMoves
    <2>1. l0 \in MainAt
      BY <1>5 DEF StopAt, MainAt
    <2>2. /\ stack[t] # <<>> /\ Top(t).at \in MainAt
          /\ Top(t).ret \in {"delete", "free", "return"}
          /\ Len(stack[t]) = 1 => Top(t).ret # "return"
      BY <2>1, <1>2, <1>5
    <2>3. l \in MainAt \ (StartAt \cup {"handle"}) /\ (Len(stack[t]) = 1 => l # "return")
      BY <2>2, <1>5 DEF MainAt, StartAt, StopAt
    <2> QED BY <2>2, <2>3, <1>5, GotoShutdown
  <1>6. CASE stop_check(t)
    <2>1. At(t, "stop") /\ "stop" \in MainAt /\ "stop" \in StopAt
      BY <1>6 DEF stop_check, MainAt, StopAt
    <2>2. Top(t).ret \in {"delete", "free", "return"}
      BY <2>1, <1>2
    <2>3. \/ UNCHANGED stack
          \/ Goto(t, "clear") \/ Goto(t, Top(t).ret)
      BY <1>6 DEF stop_check, Die
    <2>4. ShutdownMoves
      BY <2>1, <2>2, <2>3, <1>1, <1>5 DEF StopAt
    <2> QED BY <2>4, <1>6 DEF stop_check, Die
  <1>7. CASE stop_clear(t)
    <2>1. At(t, "clear") /\ Goto(t, "close")
      BY <1>7 DEF stop_clear
    <2>2. ShutdownMoves
      BY <2>1, <1>5 DEF StopAt
    <2> QED BY <2>2, <1>7 DEF stop_clear
  <1>8. CASE stop_close(t)
    <2>1. At(t, "close") /\ Goto(t, "join")
      BY <1>8 DEF stop_close
    <2>2. ShutdownMoves
      BY <2>1, <1>5 DEF StopAt
    <2>3. \/ fd' = fd /\ server_socket_' = server_socket_
          \/ fd' = "closed"
      BY <1>8 DEF stop_close, CloseSocket
    <2> QED BY <2>2, <2>3, <1>8 DEF stop_close
  <1>9. CASE stop_join(t)
    <2>1. At(t, "join") /\ "join" \in MainAt /\ "join" \in StopAt
      BY <1>9 DEF stop_join, MainAt, StopAt
    <2>2. Top(t).ret \in {"delete", "free", "return"}
      BY <2>1, <1>2
    <2>3. UNCHANGED stack \/ Goto(t, Top(t).ret)
      BY <1>9 DEF stop_join, Die
    <2>4. ShutdownMoves
      BY <2>1, <2>2, <2>3, <1>1, <1>5 DEF StopAt
    <2> QED BY <2>4, <1>9 DEF stop_join, Die
  <1>10. CASE delete_object(t)
    <2>1. At(t, "delete") /\ "delete" \in MainAt /\ Enter(t, "stop", "free")
      BY <1>10 DEF delete_object, MainAt
    <2>2. stack[t] # <<>> /\ Top(t).at \in MainAt
      BY <2>1, <1>2
    <2>3. ShutdownMoves
      BY <2>1, <2>2, EnterShutdown DEF MainAt, StartAt
    <2> QED BY <2>3, <1>10 DEF delete_object
  <1>11. ASSUME NEW l0 \in {"free", "null", "cleanup"}, At(t, l0),
                NEW l \in {"null", "cleanup", "exit"}, Goto(t, l)
         PROVE  ShutdownMoves
    <2>1. stack[t] # <<>> /\ Top(t).at \in MainAt
      BY <1>11, <1>2 DEF MainAt
    <2> QED BY <2>1, <1>11, GotoShutdown DEF MainAt, StartAt, StopAt
  <1>12. CASE free_object(t)
    <2>1. At(t, "free") /\ AfterFree(t) \in {"null", "cleanup", "exit"}
      BY <1>12 DEF free_object, AfterFree
    <2>2. UNCHANGED stack \/ Goto(t, AfterFree(t))
      BY <1>12 DEF free_object, Die
    <2>3. ShutdownMoves
      BY <2>1, <2>2, <1>1, <1>11
    <2> QED BY <2>3, <1>12 DEF free_object, Die
  <1>13. CASE clear_pointer(t)
    <2>1. At(t, "null") /\ Goto(t, "cleanup")
      BY <1>13 DEF clear_pointer
    <2>2. ShutdownMoves
      BY <2>1, <1>11
    <2> QED BY <2>2, <1>13 DEF clear_pointer
  <1>14. CASE cleanup(t)
    <2>1. At(t, "cleanup") /\ (UNCHANGED stack \/ Goto(t, "exit"))
      BY <1>14 DEF cleanup, Die
    <2>2. ShutdownMoves
      BY <2>1, <1>1, <1>11
    <2> QED BY <2>2, <1>14 DEF cleanup, Die
  <1>15. CASE leave(t)
    <2>1. ShutdownMoves
      BY <1>15, <1>1 DEF leave, Die
    <2> QED BY <2>1, <1>15 DEF leave, Die
  <1> QED BY <1>3, <1>4, <1>6, <1>7, <1>8, <1>9, <1>10, <1>12, <1>13, <1>14, <1>15
          DEF Shutdown, Stop

(***************************************************************************)
(* The server thread's own steps.                                          *)
(***************************************************************************)

\* Only the first frame of the server is at one of its locations.
LEMMA ServerAlone ==
    ASSUME StackInv, NEW l \in ServerAt, At("server", l)
    PROVE  /\ stack["server"] # <<>> /\ Len(stack["server"]) = 1
           /\ Top("server") = stack["server"][1] /\ Top("server").at = l
           /\ Top("server").sig = "none" /\ Top("server") \in Frames
  <1>1. stack["server"] # <<>> /\ Top("server").at = l /\ "server" \in Threads
    BY DEF At, Threads
  <1>2. Fits("server", Len(stack["server"]), Top("server")) /\ Top("server") \in Frames
    BY <1>1, TopFits
  <1>3. ~HandlerFrame(Top("server"))
    BY <1>1 DEF HandlerFrame, MainAt, ServerAt
  <1>4. ~(Len(stack["server"]) > 1) /\ ServerFrame(Top("server"))
    BY <1>2, <1>3 DEF Fits
  <1>5. Len(stack["server"]) = 1
    BY <1>1, <1>4, StackLen
  <1>6. Top("server") = stack["server"][1]
    BY <1>5 DEF Top
  <1> QED BY <1>1, <1>2, <1>4, <1>5, <1>6 DEF ServerFrame

LEMMA ServerGoto ==
    ASSUME StackInv, NEW l0 \in ServerAt, At("server", l0), NEW l \in ServerAt,
           Goto("server", l)
    PROVE  /\ StackInv' /\ stack'["main"] = stack["main"]
           /\ Len(stack'["server"]) = 1 /\ stack'["server"] # <<>>
           /\ stack'["server"][1].at = l
  <1> DEFINE f == Frame(Top("server").sig, l, Top("server").ret)
  <1>1. /\ stack["server"] # <<>> /\ Len(stack["server"]) = 1
        /\ Top("server").sig = "none" /\ Top("server") \in Frames
        /\ "server" \in Threads
    BY ServerAlone DEF Threads
  <1>2. f \in Frames /\ f.sig = "none" /\ f.at = l
    BY <1>1 DEF Frames, Frame
  <1>3. Fits("server", Len(stack["server"]), f)
    BY <1>1, <1>2 DEF Fits, ServerFrame
  <1>4. Moves("server", f)
    BY <1>1, <1>2, EnterMoves DEF Goto
  <1>5. StackInv'
    BY <1>1, <1>3, <1>4, MovesKeepStacks
  <1>6. /\ stack'["server"][1] = f /\ Len(stack'["server"]) = 1
        /\ stack' \in [Threads -> Seq(Frames)]
    BY <1>1, <1>4 DEF Moves
  <1>7. stack'["server"] # <<>>
    BY <1>1, <1>6
  <1> QED BY <1>2, <1>4, <1>5, <1>6, <1>7 DEF Moves, Threads

LEMMA ServerOver ==
    ASSUME StackInv, Over
    PROVE  /\ StackInv' /\ stack'["main"] = stack["main"]
           /\ stack'["server"] = <<>> /\ Len(stack'["server"]) = 0
  <1>1. stack \in [Threads -> Seq(Frames)] /\ <<>> \in Seq(Frames) /\ Len(<<>>) = 0
    BY DEF StackInv
  <1>2. /\ stack' \in [Threads -> Seq(Frames)]
        /\ stack'["main"] = stack["main"] /\ stack'["server"] = <<>>
    BY <1>1 DEF Over, Threads
  <1>3. ASSUME NEW u \in Threads, NEW i \in 1..Len(stack'[u])
        PROVE  Fits(u, i, stack'[u][i])
    <2>1. CASE u = "main"
      BY <2>1, <1>2, <1>3 DEF StackInv
    <2>2. CASE u = "server"
      BY <2>2, <1>1, <1>2, <1>3
    <2> QED BY <2>1, <2>2 DEF Threads
  <1> QED BY <1>1, <1>2, <1>3 DEF StackInv

ServerOwn ==
    \/ create_socket \/ bind_socket \/ listen_socket \/ loop \/ call_accept
    \/ accept_returns \/ read_request \/ handleRequest \/ finish_thread

\* The thread works on the socket and on its own frame.
LEMMA ServerSteps ==
    ASSUME TypeInv, SocketInv, ServerOwn
    PROVE  /\ StackInv' /\ SocketInv' /\ fd' \in {"none", "open", "closed"}
           /\ stack'["main"] = stack["main"]
           /\ stack["server"] # <<>> /\ Len(stack'["server"]) <= 1
           /\ UNCHANGED <<running_, server_thread_, web_server, object, table, mode,
                          running, signals, struck>>
           /\ process' \in {process, "uncaught"}
  <1> USE DEF TypeInv, socketVars, serverVars, objectVars, controlVars
  <1> DEFINE Rest == /\ UNCHANGED <<running_, server_thread_, web_server, object, table,
                                    mode, running, signals, struck>>
                     /\ process' \in {process, "uncaught"}
  <1>1. ASSUME NEW l0 \in ServerAt, At("server", l0), NEW l \in ServerAt,
               Goto("server", l), l # "socket",
               \/ UNCHANGED <<fd, server_socket_>>
               \/ l0 = "socket" /\ fd' = "open" /\ server_socket_' = 3
        PROVE  /\ StackInv' /\ SocketInv' /\ fd' \in {"none", "open", "closed"}
               /\ stack'["main"] = stack["main"]
               /\ stack["server"] # <<>> /\ Len(stack'["server"]) <= 1
    <2>1. /\ stack["server"] # <<>> /\ Len(stack["server"]) = 1
          /\ stack["server"][1].at = l0
      BY <1>1, ServerAlone
    <2>2. /\ StackInv' /\ stack'["main"] = stack["main"]
          /\ Len(stack'["server"]) = 1 /\ stack'["server"] # <<>>
          /\ stack'["server"][1].at = l
      BY <1>1, ServerGoto
    <2>3. SocketInv'
      BY <2>1, <2>2, <1>1 DEF SocketInv
    <2>4. Len(stack'["server"]) <= 1
      BY <2>2
    <2> QED BY <2>1, <2>2, <2>3, <2>4, <1>1
  <1>2. ASSUME NEW l0 \in ServerAt, At("server", l0), Over,
               \/ l0 = "socket" /\ fd' = fd
               \/ server_socket_ = -1 /\ fd' = fd
               \/ fd' = "closed"
        PROVE  /\ StackInv' /\ SocketInv' /\ fd' \in {"none", "open", "closed"}
               /\ stack'["main"] = stack["main"]
               /\ stack["server"] # <<>> /\ Len(stack'["server"]) <= 1
    <2>1. stack["server"] # <<>> /\ stack["server"][1].at = l0
      BY <1>2, ServerAlone
    <2>2. /\ StackInv' /\ stack'["main"] = stack["main"] /\ stack'["server"] = <<>>
          /\ Len(stack'["server"]) = 0
      BY <1>2, ServerOver
    <2>3. fd' # "open"
      BY <2>1, <1>2 DEF SocketInv
    <2>4. SocketInv'
      BY <2>1, <2>2, <2>3 DEF SocketInv
    <2>5. Len(stack'["server"]) <= 1
      BY <2>2
    <2> QED BY <2>1, <2>2, <2>4, <2>5, <1>2
  <1>3. ServerAt = {"socket", "bind", "listen", "loop", "accept", "blocked", "read",
                    "serve", "finish"}
    BY DEF ServerAt
  <1>4. CloseSocket => \/ server_socket_ = -1 /\ fd' = fd
                       \/ fd' = "closed"
    BY DEF CloseSocket
  <1>5. CASE create_socket
    <2>1. At("server", "socket") /\ Rest
      BY <1>5 DEF create_socket
    <2>2. \/ Goto("server", "bind") /\ server_socket_' = 3 /\ fd' = "open"
          \/ Over /\ fd' = fd
      BY <1>5 DEF create_socket
    <2> QED BY <2>1, <2>2, <1>1, <1>2, <1>3
  <1>6. CASE bind_socket
    <2>1. At("server", "bind") /\ Rest
      BY <1>6 DEF bind_socket
    <2>2. \/ Goto("server", "listen") /\ UNCHANGED <<server_socket_, fd>>
          \/ Over /\ CloseSocket
      BY <1>6 DEF bind_socket
    <2> QED BY <2>1, <2>2, <1>1, <1>2, <1>3, <1>4
  <1>7. CASE listen_socket
    <2>1. At("server", "listen") /\ Rest
      BY <1>7 DEF listen_socket
    <2>2. \/ Goto("server", "loop") /\ UNCHANGED <<server_socket_, fd>>
          \/ Over /\ CloseSocket
      BY <1>7 DEF listen_socket
    <2> QED BY <2>1, <2>2, <1>1, <1>2, <1>3, <1>4
  <1>8. CASE loop
    <2>1. /\ At("server", "loop") /\ Rest /\ UNCHANGED <<server_socket_, fd>>
          /\ Goto("server", "accept") \/ Goto("server", "finish")
      BY <1>8 DEF loop
    <2> QED BY <2>1, <1>1, <1>3
  <1>9. CASE call_accept
    <2>1. /\ At("server", "accept") /\ Rest /\ UNCHANGED <<server_socket_, fd>>
          /\ Goto("server", "blocked") \/ Goto("server", "loop")
      BY <1>9 DEF call_accept
    <2> QED BY <2>1, <1>1, <1>3
  <1>10. CASE accept_returns
    <2>1. /\ At("server", "blocked") /\ Rest /\ UNCHANGED <<server_socket_, fd>>
          /\ Goto("server", "read")
      BY <1>10 DEF accept_returns
    <2> QED BY <2>1, <1>1, <1>3
  <1>11. CASE read_request
    <2>1. /\ At("server", "read") /\ Rest /\ UNCHANGED <<server_socket_, fd>>
          /\ Goto("server", "serve") \/ Goto("server", "loop")
      BY <1>11 DEF read_request
    <2> QED BY <2>1, <1>1, <1>3
  <1>12. CASE handleRequest
    <2>1. /\ At("server", "serve") /\ Rest /\ UNCHANGED <<server_socket_, fd>>
          /\ Goto("server", "loop") \/ UNCHANGED stack
      BY <1>12 DEF handleRequest, Die
    <2>2. CASE UNCHANGED stack
      <3>1. stack["server"] # <<>> /\ Len(stack["server"]) = 1
        BY <2>1, <1>3, ServerAlone
      <3>2. StackInv' /\ SocketInv'
        BY <2>1, <2>2 DEF StackInv, SocketInv
      <3>3. Len(stack'["server"]) <= 1
        BY <2>2, <3>1
      <3> QED BY <2>1, <2>2, <3>1, <3>2, <3>3
    <2> QED BY <2>1, <2>2, <1>1, <1>3
  <1>13. CASE finish_thread
    <2>1. At("server", "finish") /\ Rest /\ Over /\ CloseSocket
      BY <1>13 DEF finish_thread
    <2> QED BY <2>1, <1>2, <1>3, <1>4
  <1> QED BY <1>5, <1>6, <1>7, <1>8, <1>9, <1>10, <1>11, <1>12, <1>13 DEF ServerOwn

(***************************************************************************)
(* The other steps: main() starts and ends, a signal strikes.              *)
(***************************************************************************)

\* Nothing is on top of main() while it starts.
LEMMA MainAlone ==
    ASSUME StackInv, NEW l \in StartAt, At("main", l)
    PROVE  /\ Len(stack["main"]) = 1 /\ stack["main"] # <<>>
           /\ Top("main") = stack["main"][1] /\ Top("main").at = l
           /\ Top("main").sig = "none" /\ Top("main") \in Frames
           /\ MainFrame(Top("main"))
  <1>1. stack["main"] # <<>> /\ Top("main").at = l /\ "main" \in Threads
    BY DEF At, Threads
  <1>2. Fits("main", Len(stack["main"]), Top("main")) /\ Top("main") \in Frames
    BY <1>1, TopFits
  <1>3. ~HandlerFrame(Top("main"))
    BY <1>1 DEF HandlerFrame
  <1>4. ~(Len(stack["main"]) > 1) /\ MainFrame(Top("main"))
    BY <1>2, <1>3 DEF Fits
  <1>5. Len(stack["main"]) = 1
    BY <1>1, <1>4, StackLen
  <1>6. Top("main") = stack["main"][1]
    BY <1>5 DEF Top
  <1> QED BY <1>1, <1>2, <1>4, <1>5, <1>6 DEF MainFrame

LEMMA StartGoto ==
    ASSUME StackInv, NEW l0 \in StartAt, At("main", l0), NEW l \in StartAt,
           Goto("main", l)
    PROVE  /\ StackInv' /\ stack'["server"] = stack["server"]
           /\ Len(stack'["main"]) = 1 /\ stack'["main"][1].at = l
  <1> DEFINE f == Frame(Top("main").sig, l, Top("main").ret)
  <1>1. /\ stack["main"] # <<>> /\ Len(stack["main"]) = 1
        /\ Top("main").sig = "none" /\ Top("main") \in Frames
        /\ "main" \in Threads /\ MainFrame(Top("main"))
    BY MainAlone DEF Threads
  <1>2. f \in Frames /\ f.sig = "none" /\ f.at = l /\ f.ret = Top("main").ret
    BY <1>1 DEF Frames, Frame, StartAt, MainAt
  <1>3. MainFrame(f)
    BY <1>1, <1>2 DEF MainFrame, StartAt, MainAt, StopAt
  <1>4. Fits("main", Len(stack["main"]), f)
    BY <1>1, <1>3 DEF Fits
  <1>5. Moves("main", f)
    BY <1>1, <1>2, EnterMoves DEF Goto
  <1>6. StackInv'
    BY <1>1, <1>4, <1>5, MovesKeepStacks
  <1> QED BY <1>1, <1>2, <1>5, <1>6 DEF Moves, Threads

LEMMA ThreadCreated ==
    ASSUME StackInv, start_thread
    PROVE  /\ StackInv' /\ Len(stack'["main"]) = 1
           /\ stack'["main"][1].at = "assign"
           /\ Len(stack'["server"]) = 1 /\ stack'["server"][1].at = "socket"
           /\ stack'["server"] # <<>>
  <1> DEFINE f == [stack["main"][1] EXCEPT !.at = "assign"]
             g == Frame("none", "socket", "none")
             s == [stack["main"] EXCEPT ![1] = f]
  <1>1. /\ Len(stack["main"]) = 1 /\ stack["main"] # <<>>
        /\ stack["main"][1] \in Frames /\ MainFrame(stack["main"][1])
    BY MainAlone DEF start_thread, StartAt
  <1>2. stack \in [Threads -> Seq(Frames)] /\ stack["main"] \in Seq(Frames)
    BY DEF StackInv, Threads
  <1>3. f \in Frames /\ f.at = "assign" /\ f.sig = stack["main"][1].sig
        /\ f.ret = stack["main"][1].ret
    BY <1>1 DEF Frames, MainAt
  <1>4. MainFrame(f)
    BY <1>1, <1>3 DEF MainFrame, MainAt, StopAt
  <1>5. g \in Frames /\ ServerFrame(g) /\ g.at = "socket"
    BY DEF Frames, Frame, ServerFrame, ServerAt
  <1>6. stack' = [stack EXCEPT !["main"] = s, !["server"] = <<g>>]
    BY <1>1 DEF start_thread
  <1>7. s \in Seq(Frames) /\ Len(s) = 1 /\ s[1] = f
    BY <1>1, <1>2, <1>3
  <1>8. <<g>> \in Seq(Frames) /\ Len(<<g>>) = 1 /\ <<g>>[1] = g /\ <<g>> # <<>>
    BY <1>5
  <1> HIDE DEF s, f, g
  <1>9. /\ stack'["main"] = s /\ stack'["server"] = <<g>>
        /\ stack' \in [Threads -> Seq(Frames)]
    BY <1>2, <1>6, <1>7, <1>8 DEF Threads
  <1>10. ASSUME NEW u \in Threads, NEW i \in 1..Len(stack'[u])
         PROVE  Fits(u, i, stack'[u][i])
    <2>1. CASE u = "main"
      <3>1. i \in 1..Len(s)
        BY <2>1, <1>9, <1>10
      <3>2. i = 1 /\ s[i] = f
        BY <3>1, <1>7
      <3>3. i = 1 /\ stack'[u][i] = f
        BY <3>2, <2>1, <1>9
      <3> QED BY <3>3, <2>1, <1>4 DEF Fits
    <2>2. CASE u = "server"
      <3>1. i = 1 /\ stack'[u][i] = g
        BY <2>2, <1>8, <1>9, <1>10
      <3> QED BY <3>1, <2>2, <1>5 DEF Fits
    <2> QED BY <2>1, <2>2 DEF Threads
  <1>11. stack'["main"] # <<>>
    <2>1. s # <<>>
      BY <1>7
    <2> QED BY <2>1, <1>9
  <1> QED BY <1>3, <1>5, <1>7, <1>8, <1>9, <1>10, <1>11 DEF StackInv

\* main() leaves its work for the shutdown.
LEMMA MainEnds ==
    ASSUME StackInv, main_ends
    PROVE  \E l \in {"exit", "delete", "cleanup", "stop"}, r \in {"none", "delete", "free"} :
              /\ StackInv' /\ Moves("main", Frame("none", l, r))
              /\ l = "cleanup" => web_server = "null"
  <1>1. /\ Len(stack["main"]) = 1 /\ stack["main"] # <<>> /\ Top("main").at = "work"
        /\ Top("main").sig = "none" /\ Top("main") \in Frames
        /\ MainFrame(Top("main")) /\ "main" \in Threads
    BY MainAlone DEF main_ends, StartAt, Threads
  <1>2. \E l \in {"exit", "delete", "cleanup", "stop"}, r \in {"none", "delete", "free"} :
           /\ Enter("main", l, r) /\ (l = "cleanup" => web_server = "null")
           /\ l = "stop" => r = "delete"
    <2>1. Top("main").ret \in {"none", "delete", "free"}
      BY <1>1 DEF Frames, MainFrame
    <2>2. \/ Goto("main", "exit") \/ Goto("main", "delete")
          \/ Goto("main", "cleanup") /\ web_server = "null"
          \/ Enter("main", "stop", "delete")
      BY DEF main_ends
    <2> QED BY <2>1, <2>2 DEF Goto
  <1>3. PICK l \in {"exit", "delete", "cleanup", "stop"}, r \in {"none", "delete", "free"} :
           /\ Enter("main", l, r) /\ (l = "cleanup" => web_server = "null")
           /\ l = "stop" => r = "delete"
    BY <1>2
  <1>4. StackInv' /\ Moves("main", Frame(Top("main").sig, l, r))
    <2>1. l \in MainAt \ (StartAt \cup {"handle"})
      BY DEF MainAt, StartAt
    <2>2. Top("main").at \in MainAt
      BY <1>1 DEF MainAt
    <2>3. l \in StopAt => r # "none"
      BY <1>3 DEF StopAt
    <2> QED BY <2>1, <2>2, <2>3, <1>1, <1>3, EnterFits
  <1> QED BY <1>1, <1>3, <1>4

\* A signal puts a handler on top of a thread.
LEMMA Delivered ==
    ASSUME StackInv, NEW sig \in Signals, NEW t \in Threads, stack[t] # <<>>,
           stack' = [stack EXCEPT ![t] = Append(@, Frame(sig, "handle", "none"))]
    PROVE  /\ StackInv'
           /\ Len(stack'[t]) = Len(stack[t]) + 1
           /\ stack'[t][Len(stack[t]) + 1].at = "handle"
           /\ \A i \in 1..Len(stack[t]) : stack'[t][i] = stack[t][i]
           /\ stack'[t] # <<>>
           /\ \A u \in Threads : u # t => stack'[u] = stack[u]
  <1> DEFINE f == Frame(sig, "handle", "none")
             n == Len(stack[t])
             s == Append(stack[t], f)
  <1>1. /\ stack \in [Threads -> Seq(Frames)] /\ stack[t] \in Seq(Frames)
        /\ n \in Nat /\ n >= 1
    BY StackLen DEF StackInv
  <1>2. f \in Frames /\ HandlerFrame(f) /\ f.at = "handle"
    BY DEF Frames, Frame, HandlerFrame, MainAt, StartAt, StopAt
  <1>3. s \in Seq(Frames) /\ Len(s) = n + 1 /\ s[n + 1] = f
        /\ \A i \in 1..n : s[i] = stack[t][i]
    BY <1>1, <1>2
  <1> HIDE DEF s, f
  <1>4. /\ stack'[t] = s /\ \A u \in Threads : u # t => stack'[u] = stack[u]
        /\ stack' \in [Threads -> Seq(Frames)]
    BY <1>1, <1>3 DEF s, f
  <1>5. s # <<>>
    BY <1>1, <1>3
  <1>6. ASSUME NEW u \in Threads, NEW i \in 1..Len(stack'[u])
        PROVE  Fits(u, i, stack'[u][i])
    <2>1. CASE u # t
      BY <2>1, <1>4, <1>6 DEF StackInv
    <2>2. CASE u = t /\ i = n + 1
      <3>1. i > 1 /\ stack'[u][i] = f
        BY <2>2, <1>1, <1>3, <1>4
      <3> QED BY <3>1, <1>2 DEF Fits
    <2>3. CASE u = t /\ i # n + 1
      <3>1. i \in 1..n /\ stack'[u][i] = stack[u][i]
        BY <2>3, <1>1, <1>3, <1>4, <1>6
      <3> QED BY <3>1, <2>3 DEF StackInv
    <2> QED BY <2>1, <2>2, <2>3
  <1>7. stack'["main"] # <<>>
    BY <1>4, <1>5 DEF StackInv, Threads
  <1>8. StackInv'
    BY <1>4, <1>6, <1>7 DEF StackInv
  <1> QED BY <1>2, <1>3, <1>4, <1>5, <1>8

(***************************************************************************)
(* No open socket outlives the thread.                                     *)
(***************************************************************************)
ReleaseInv == TypeInv /\ SocketInv

LEMMA ReleaseInit == Init => ReleaseInv
  <1> SUFFICES ASSUME Init PROVE ReleaseInv
    OBVIOUS
  <1> DEFINE f == Frame("none", "begin", "none")
  <1>1. f \in Frames /\ MainFrame(f) /\ f.at = "begin"
    BY DEF Frames, Frame, MainFrame, MainAt, StopAt
  <1>2. stack["main"] = <<f>> /\ stack["server"] = <<>>
    BY DEF Init, Threads
  <1> HIDE DEF f
  <1>3. /\ <<f>> \in Seq(Frames) /\ <<>> \in Seq(Frames)
        /\ Len(<<f>>) = 1 /\ <<f>>[1] = f /\ Len(<<>>) = 0 /\ <<f>> # <<>>
    BY <1>1
  <1>4. stack \in [Threads -> Seq(Frames)]
    BY <1>3 DEF Init, f
  <1>5. ASSUME NEW u \in Threads, NEW i \in 1..Len(stack[u])
        PROVE  Fits(u, i, stack[u][i])
    <2>1. CASE u = "main"
      <3>1. i \in 1..Len(<<f>>)
        BY <2>1, <1>2, <1>5
      <3>2. i = 1 /\ stack[u][i] = f
        BY <3>1, <2>1, <1>2, <1>3
      <3> QED BY <3>2, <2>1, <1>1 DEF Fits
    <2>2. CASE u = "server"
      BY <2>2, <1>2, <1>3, <1>5
    <2> QED BY <2>1, <2>2 DEF Threads
  <1>6. StackInv
    BY <1>2, <1>3, <1>4, <1>5 DEF StackInv
  <1> QED BY <1>2, <1>3, <1>6 DEF Init, ReleaseInv, TypeInv, SocketInv

LEMMA ReleaseStep == ReleaseInv /\ [Next]_vars => ReleaseInv'
  <1> SUFFICES ASSUME TypeInv, SocketInv, [Next]_vars
               PROVE  TypeInv' /\ SocketInv'
    BY DEF ReleaseInv
  <1> USE DEF socketVars, serverVars, objectVars, controlVars
  <1>1. ASSUME UNCHANGED stack, UNCHANGED <<fd, server_socket_, serverVars, objectVars,
                                            controlVars>>
        PROVE  TypeInv' /\ SocketInv'
    BY <1>1 DEF TypeInv, SocketInv, StackInv
  <1>2. CASE start_flag
    <2>1. /\ StackInv' /\ stack'["server"] = stack["server"]
          /\ stack'["main"][1].at = "spawn"
      BY <1>2, StartGoto DEF start_flag, StartAt, TypeInv
    <2>2. stack["main"][1].at = "begin"
      BY <1>2, MainAlone DEF start_flag, StartAt, TypeInv
    <2> QED BY <2>1, <2>2, <1>2 DEF start_flag, TypeInv, SocketInv
  <1>3. CASE start_thread
    <2>1. /\ StackInv' /\ stack'["main"][1].at = "assign"
          /\ stack'["server"][1].at = "socket" /\ stack'["server"] # <<>>
      BY <1>3, ThreadCreated DEF TypeInv
    <2>2. stack["main"][1].at = "spawn"
      BY <1>3, MainAlone DEF start_thread, StartAt, TypeInv
    <2> QED BY <2>1, <2>2, <1>3 DEF start_thread, TypeInv, SocketInv
  <1>4. CASE start_assign
    <2>1. /\ StackInv' /\ stack'["server"] = stack["server"]
          /\ stack'["main"][1].at = "work"
      BY <1>4, StartGoto DEF start_assign, StartAt, TypeInv
    <2> QED BY <2>1, <1>4 DEF start_assign, TypeInv, SocketInv
  <1>5. CASE main_ends
    <2>1. PICK l \in {"exit", "delete", "cleanup", "stop"}, r \in {"none", "delete", "free"} :
              StackInv' /\ Moves("main", Frame("none", l, r))
      BY <1>5, MainEnds DEF TypeInv
    <2>2. Len(stack["main"]) = 1
      BY <1>5, MainAlone DEF main_ends, StartAt, TypeInv
    <2>3. stack'["main"][1].at = l /\ stack'["server"] = stack["server"]
      BY <2>1, <2>2 DEF Moves, Threads, Frame
    <2> QED BY <2>1, <2>3, <1>5 DEF main_ends, TypeInv, SocketInv
  <1>6. ASSUME NEW t \in Threads, Shutdown(t)
        PROVE  TypeInv' /\ SocketInv'
    <2>1. /\ ShutdownMoves
          /\ \/ fd' = fd /\ server_socket_' = server_socket_
             \/ fd' = "closed"
          /\ running_' \in BOOLEAN /\ web_server' \in {"set", "null"}
          /\ object' \in {"live", "freed"} /\ table' \in {"live", "freed"}
          /\ signals' = signals
      BY <1>6, ShutdownSteps
    <2>2. TypeInv'
      BY <2>1 DEF TypeInv, ShutdownMoves
    <2>3. SocketInv'
      BY <2>1 DEF SocketInv, ShutdownMoves, StartAt
    <2> QED BY <2>2, <2>3
  <1>7. CASE ServerOwn
    BY <1>7, ServerSteps DEF TypeInv
  <1>8. CASE use_after_delete
    BY <1>8, <1>1 DEF use_after_delete, Die
  <1>9. CASE Clients
    BY <1>9, <1>1 DEF Clients, connect, client_acts
  <1>10. ASSUME NEW sig \in Signals, deliver(sig)
         PROVE  TypeInv' /\ SocketInv'
    <2>1. PICK t \in Threads :
             /\ stack[t] # <<>>
             /\ stack' = [stack EXCEPT ![t] = Append(@, Frame(sig, "handle", "none"))]
      BY <1>10 DEF deliver
    <2>2. /\ StackInv' /\ stack'[t] # <<>>
          /\ \A i \in 1..Len(stack[t]) : stack'[t][i] = stack[t][i]
          /\ \A u \in Threads : u # t => stack'[u] = stack[u]
      BY <2>1, Delivered DEF TypeInv
    <2>3. 1 \in 1..Len(stack[t])
      BY <2>1, StackLen DEF TypeInv
    <2>4. \A u \in Threads : /\ stack[u] # <<>> <=> stack'[u] # <<>>
                             /\ stack[u] # <<>> => stack'[u][1] = stack[u][1]
      BY <2>1, <2>2, <2>3
    <2>5. signals' \in Nat
      BY <1>10 DEF deliver, TypeInv
    <2>6. TypeInv'
      BY <2>2, <2>5, <1>10 DEF deliver, TypeInv
    <2>7. /\ stack'["main"][1] = stack["main"][1]
          /\ stack["server"] # <<>> <=> stack'["server"] # <<>>
          /\ stack["server"] # <<>> => stack'["server"][1] = stack["server"][1]
      BY <2>4 DEF Threads, StackInv, TypeInv
    <2>8. SocketInv'
      BY <2>7, <1>10 DEF deliver, SocketInv
    <2> QED BY <2>6, <2>8
  <1>11. CASE UNCHANGED vars
    BY <1>11, <1>1 DEF vars
  <1>12. Next => \/ start_flag \/ start_thread \/ start_assign \/ main_ends
                 \/ \E t \in Threads : Shutdown(t)
                 \/ ServerOwn \/ use_after_delete \/ Clients
                 \/ \E sig \in Signals : deliver(sig)
    BY DEF Next, Main, ServerThread, ServerOwn, Threads
  <1> QED BY <1>2, <1>3, <1>4, <1>5, <1>6, <1>7, <1>8, <1>9, <1>10, <1>11, <1>12

LEMMA ReleaseInvariant == Spec => []ReleaseInv
  BY ReleaseInit, ReleaseStep, PTL DEF Spec

\* Whatever any number of signals do to start() and stop(), and whichever calls
\* fail, the server thread leaves no open descriptor behind (serverThread).
THEOREM SpecSocketReleased == Spec => []SocketReleased
  <1>1. ReleaseInv => SocketReleased
    BY DEF ReleaseInv, SocketInv, SocketReleased
  <1> QED BY <1>1, ReleaseInvariant, PTL

(***************************************************************************)
(* One signal at a safe point.                                             *)
(***************************************************************************)

\* The top frame of main goes on to l; what is below it, and the server, rest.
Goes(l) ==
    /\ Top("main")'.at = l
    /\ Len(stack'["main"]) = Len(stack["main"])
    /\ stack'["main"][1].at = IF Len(stack["main"]) = 1 THEN l ELSE stack["main"][1].at
    /\ stack'["server"] = stack["server"]
    /\ \A i \in 1..Len(stack["main"]) :
          stack'["main"][i].at = "free" => l = "free" \/ stack["main"][i].at = "free"

LEMMA MovesGoes ==
    ASSUME StackInv, NEW f, Moves("main", f)
    PROVE  Goes(f.at)
  <1> DEFINE n == Len(stack["main"])
  <1>1. "main" \in Threads /\ stack["main"] # <<>>
    BY DEF Threads, StackInv
  <1>2. n \in Nat /\ n >= 1 /\ 1 \in 1..n /\ n \in 1..n
    BY <1>1, StackLen
  <1>3. /\ Len(stack'["main"]) = n /\ stack'["server"] = stack["server"]
        /\ \A i \in 1..n :
              stack'["main"][i] = IF i = n THEN f ELSE stack["main"][i]
    BY DEF Moves, Threads
  <1> HIDE DEF n
  <1>4. stack'["main"][n] = f
    BY <1>2, <1>3
  <1>5. Top("main")' = f
    BY <1>3, <1>4 DEF Top
  <1>6. stack'["main"][1].at = IF n = 1 THEN f.at ELSE stack["main"][1].at
    BY <1>2, <1>3
  <1>7. \A i \in 1..n :
           stack'["main"][i].at = "free" => f.at = "free" \/ stack["main"][i].at = "free"
    BY <1>3
  <1> QED BY <1>3, <1>5, <1>6, <1>7 DEF Goes, n

LEMMA EnterGoes ==
    ASSUME StackInv, NEW l \in MainAt, NEW r \in {"none", "delete", "free", "return"},
           Enter("main", l, r)
    PROVE  Goes(l)
  <1> DEFINE f == Frame(Top("main").sig, l, r)
  <1>1. "main" \in Threads /\ stack["main"] # <<>>
    BY DEF Threads, StackInv
  <1>2. Top("main") \in Frames
    BY <1>1, TopFits
  <1>3. f \in Frames /\ f.at = l
    BY <1>2 DEF Frames, Frame
  <1>4. Moves("main", f)
    BY <1>1, <1>3, EnterMoves
  <1>5. Goes(f.at)
    BY <1>4, MovesGoes
  <1> QED BY <1>3, <1>5

LEMMA GotoGoes ==
    ASSUME StackInv, NEW l \in MainAt, Goto("main", l)
    PROVE  Goes(l)
  <1>1. "main" \in Threads /\ stack["main"] # <<>>
    BY DEF Threads, StackInv
  <1>2. Top("main").ret \in {"none", "delete", "free", "return"}
    BY <1>1, TopFits DEF Frames
  <1> QED BY <1>2, EnterGoes DEF Goto

\* The order of the shutdown, without its condition.
OrderInv == OneHandler /\ ThreadInv /\ FreeInv

\* The top of main and its first frame.
LEMMA MainTop ==
    ASSUME StackInv
    PROVE  /\ Len(stack["main"]) \in Nat /\ Len(stack["main"]) >= 1
           /\ Len(stack["main"]) = 1 => Top("main") = stack["main"][1]
           /\ Top("main") = stack["main"][Len(stack["main"])]
           /\ Len(stack["main"]) \in 1..Len(stack["main"])
           /\ stack["server"] \in Seq(Frames) /\ Len(stack["server"]) \in Nat
  <1>1. "main" \in Threads /\ stack["main"] # <<>> /\ "server" \in Threads
    BY DEF Threads, StackInv
  <1>2. Len(stack["main"]) \in Nat /\ Len(stack["main"]) >= 1
    BY <1>1, StackLen
  <1>3. Len(stack["main"]) \in 1..Len(stack["main"])
    BY <1>2
  <1>4. stack["server"] \in Seq(Frames)
    BY <1>1 DEF StackInv
  <1>5. Len(stack["server"]) \in Nat
    BY <1>4
  <1> QED BY <1>2, <1>3, <1>4, <1>5 DEF Top

\* With one frame at most, the server thread is not in the shutdown code.
LEMMA ServerNotInHandler ==
    ASSUME TypeInv, OneHandler, NEW l \in MainAt
    PROVE  ~At("server", l)
  <1> SUFFICES ASSUME At("server", l) PROVE FALSE
    OBVIOUS
  <1>1. "server" \in Threads /\ stack["server"] # <<>> /\ Top("server").at = l /\ StackInv
    BY DEF At, Threads, TypeInv
  <1>2. Len(stack["server"]) = 1
    BY <1>1, StackLen DEF OneHandler
  <1>3. Fits("server", Len(stack["server"]), Top("server"))
    BY <1>1, TopFits
  <1>4. ServerFrame(Top("server"))
    BY <1>2, <1>3 DEF Fits
  <1> QED BY <1>1, <1>4 DEF ServerFrame, MainAt, ServerAt

\* The shutdown code of main(), or of the handler on top of it, keeps the order
\* and does not fail.
LEMMA OrderShutdown ==
    ASSUME TypeInv, OrderInv, Calm, Shutdown("main")
    PROVE  OrderInv' /\ (process' = process \/ process' = "exited")
  <1> USE DEF socketVars, serverVars, objectVars, controlVars
  <1>1. StackInv /\ "main" \in Threads
    BY DEF TypeInv, Threads
  <1>2. /\ Len(stack["main"]) \in Nat /\ Len(stack["main"]) >= 1
        /\ Len(stack["main"]) = 1 => Top("main") = stack["main"][1]
        /\ Top("main") = stack["main"][Len(stack["main"])]
        /\ Len(stack["main"]) \in 1..Len(stack["main"])
    BY <1>1, MainTop
  <1>3. ASSUME NEW l, Goes(l), signals' = signals
        PROVE  OneHandler'
    BY <1>2, <1>3 DEF OrderInv, OneHandler, Goes
  <1>4. Top("main").at \in StopAt => Top("main").ret \in {"delete", "free", "return"}
    <2>1. Fits("main", Len(stack["main"]), Top("main")) /\ Top("main") \in Frames
      BY <1>1, TopFits DEF StackInv
    <2>2. MainFrame(Top("main")) \/ HandlerFrame(Top("main"))
      BY <2>1 DEF Fits
    <2> QED BY <2>2 DEF MainFrame, HandlerFrame
  <1>16. /\ Len(stack["main"]) = 1 \/ Len(stack["main"]) = 2
         /\ Top("main").at \notin {"spawn", "assign"} =>
               stack["main"][1].at \notin {"spawn", "assign"}
    <2>1. Len(stack["main"]) <= 1 + signals /\ signals \in Nat /\ signals <= 1
      BY DEF OrderInv, OneHandler, Calm, TypeInv
    <2>2. Len(stack["main"]) = 1 \/ Len(stack["main"]) = 2
      <3> DEFINE n == Len(stack["main"])
      <3>1. n \in Nat /\ n >= 1 /\ n <= 1 + signals
        BY <2>1, <1>2
      <3> HIDE DEF n
      <3>2. n = 1 \/ n = 2
        BY <3>1, <2>1
      <3> QED BY <3>2 DEF n
    <2>3. Len(stack["main"]) = 2 => stack["main"][1].at \notin {"spawn", "assign"}
      BY DEF OrderInv, OneHandler, SafePoints
    <2>4. Len(stack["main"]) = 1 => Top("main") = stack["main"][1]
      BY <1>2
    <2> QED BY <2>2, <2>3, <2>4
  <1>5. CASE handle("main")
    <2>1. Top("main").at = "handle"
      BY <1>5 DEF handle, At
    <2>2. web_server = "set" /\ table = "live"
      BY <2>1 DEF OrderInv, FreeInv, TypeInv
    <2>3. /\ \E r \in {"delete", "return"} : Enter("main", "stop", r)
          /\ UNCHANGED <<serverVars, objectVars, signals, process>>
      BY <2>2, <1>5 DEF handle
    <2>4. Goes("stop")
      BY <2>3, <1>1, EnterGoes DEF MainAt
    <2>5. OneHandler'
      BY <2>3, <2>4, <1>3
    <2>6. ThreadInv'
      BY <2>1, <2>3, <2>4, <1>2 DEF OrderInv, ThreadInv, Goes
    <2>7. FreeInv'
      BY <2>1, <2>3, <2>4 DEF OrderInv, FreeInv, Goes
    <2> QED BY <2>3, <2>5, <2>6, <2>7 DEF OrderInv
  <1>6. CASE stop_check("main")
    <2>1. Top("main").at = "stop"
      BY <1>6 DEF stop_check, At
    <2>2. object = "live"
      BY <2>1 DEF OrderInv, FreeInv, TypeInv
    <2>3. PICK l \in {"clear", "delete", "free", "return"} :
             Goto("main", l) /\ (l = "clear" <=> running_)
      BY <2>1, <2>2, <1>4, <1>6 DEF stop_check, StopAt, TypeInv
    <2>4. UNCHANGED <<serverVars, objectVars, signals, process>>
      BY <2>2, <1>6 DEF stop_check
    <2>5. Goes(l)
      BY <2>3, <1>1, GotoGoes DEF MainAt
    <2>6. OneHandler'
      BY <2>4, <2>5, <1>3
    <2>7. ThreadInv'
      BY <2>1, <2>3, <2>4, <2>5, <1>2 DEF OrderInv, ThreadInv, Goes
    <2>8. FreeInv'
      BY <2>1, <2>2, <2>4, <2>5 DEF OrderInv, FreeInv, Goes
    <2> QED BY <2>4, <2>6, <2>7, <2>8 DEF OrderInv
  <1>7. CASE stop_clear("main")
    <2>1. Top("main").at = "clear" /\ Goto("main", "close") /\ running_' = FALSE
      BY <1>7 DEF stop_clear, At
    <2>2. UNCHANGED <<server_thread_, objectVars, signals, process>>
      BY <1>7 DEF stop_clear
    <2>3. Goes("close")
      BY <2>1, <1>1, GotoGoes DEF MainAt
    <2>4. OneHandler'
      BY <2>2, <2>3, <1>3
    <2>5. stack["main"][1].at \notin {"spawn", "assign"}
      BY <2>1, <1>16
    <2>6. ThreadInv'
      BY <2>1, <2>2, <2>3, <2>5, <1>2 DEF OrderInv, ThreadInv, Goes
    <2>7. FreeInv'
      BY <2>1, <2>2, <2>3 DEF OrderInv, FreeInv, Goes
    <2> QED BY <2>2, <2>4, <2>6, <2>7 DEF OrderInv
  <1>8. CASE stop_close("main")
    <2>1. Top("main").at = "close" /\ Goto("main", "join")
      BY <1>8 DEF stop_close, At
    <2>2. UNCHANGED <<serverVars, objectVars, signals, process>>
      BY <1>8 DEF stop_close
    <2>3. Goes("join")
      BY <2>1, <1>1, GotoGoes DEF MainAt
    <2>4. OneHandler'
      BY <2>2, <2>3, <1>3
    <2>5. ThreadInv'
      BY <2>1, <2>2, <2>3, <1>2 DEF OrderInv, ThreadInv, Goes
    <2>6. FreeInv'
      BY <2>1, <2>2, <2>3 DEF OrderInv, FreeInv, Goes
    <2> QED BY <2>2, <2>4, <2>5, <2>6 DEF OrderInv
  <1>9. CASE stop_join("main")
    <2>1. Top("main").at = "join"
      BY <1>9 DEF stop_join, At
    <2>2. /\ server_thread_ = "joinable" => stack["server"] = <<>>
          /\ server_thread_' # "joinable"
          /\ Goto("main", Top("main").ret)
          /\ UNCHANGED <<running_, objectVars, signals, process>>
      BY <1>9 DEF stop_join
    <2>3. PICK l \in {"delete", "free", "return"} : Goto("main", l)
      BY <2>1, <2>2, <1>4 DEF StopAt
    <2>4. Goes(l)
      BY <2>3, <1>1, GotoGoes DEF MainAt
    <2>5. OneHandler'
      BY <2>2, <2>4, <1>3
    <2>6. stack["main"][1].at # "assign"
      BY <2>1, <1>16
    <2>7. stack["server"] = <<>> /\ ~running_
      BY <2>1, <2>2, <2>6 DEF OrderInv, ThreadInv
    <2>8. ThreadInv'
      BY <2>1, <2>2, <2>4, <2>7, <1>2 DEF OrderInv, ThreadInv, Goes
    <2>9. FreeInv'
      BY <2>1, <2>2, <2>4 DEF OrderInv, FreeInv, Goes
    <2> QED BY <2>2, <2>5, <2>8, <2>9 DEF OrderInv
  <1>10. CASE delete_object("main")
    <2>1. Top("main").at = "delete" /\ Enter("main", "stop", "free")
      BY <1>10 DEF delete_object, At
    <2>2. UNCHANGED <<serverVars, objectVars, signals, process>>
      BY <1>10 DEF delete_object
    <2>3. Goes("stop")
      BY <2>1, <1>1, EnterGoes DEF MainAt
    <2>4. OneHandler'
      BY <2>2, <2>3, <1>3
    <2>5. ThreadInv'
      BY <2>1, <2>2, <2>3, <1>2 DEF OrderInv, ThreadInv, Goes
    <2>6. FreeInv'
      BY <2>1, <2>2, <2>3 DEF OrderInv, FreeInv, Goes
    <2> QED BY <2>2, <2>4, <2>5, <2>6 DEF OrderInv
  <1>11. CASE free_object("main")
    <2>1. Top("main").at = "free"
      BY <1>11 DEF free_object, At
    <2>2. object = "live"
      BY <2>1 DEF OrderInv, FreeInv, TypeInv
    <2>3. ~running_ /\ server_thread_ # "joinable"
      BY <2>1, <1>2 DEF OrderInv, ThreadInv
    <2>4. /\ object' = "freed" /\ Goto("main", AfterFree("main"))
          /\ UNCHANGED <<serverVars, web_server, table, signals, process>>
      BY <2>2, <2>3, <1>11 DEF free_object
    <2>5. PICK l \in {"null", "cleanup"} : Goto("main", l)
      BY <2>4 DEF AfterFree
    <2>6. Goes(l)
      BY <2>5, <1>1, GotoGoes DEF MainAt
    <2>7. OneHandler'
      BY <2>4, <2>6, <1>3
    <2>8. stack["main"][1].at # "assign"
      BY <2>1, <1>16
    <2>9. stack["server"] = <<>>
      BY <2>3, <2>8 DEF OrderInv, ThreadInv
    <2>10. ThreadInv'
      BY <2>1, <2>3, <2>4, <2>6, <2>9, <1>2 DEF OrderInv, ThreadInv, Goes
    <2>11. FreeInv'
      BY <2>1, <2>4, <2>6, <2>9 DEF OrderInv, FreeInv, Goes
    <2> QED BY <2>4, <2>7, <2>10, <2>11 DEF OrderInv
  <1>12. CASE clear_pointer("main")
    <2>1. Top("main").at = "null" /\ Goto("main", "cleanup") /\ web_server' = "null"
      BY <1>12 DEF clear_pointer, At
    <2>2. UNCHANGED <<serverVars, object, table, signals, process>>
      BY <1>12 DEF clear_pointer
    <2>3. Goes("cleanup")
      BY <2>1, <1>1, GotoGoes DEF MainAt
    <2>4. OneHandler'
      BY <2>2, <2>3, <1>3
    <2>5. ThreadInv'
      BY <2>1, <2>2, <2>3, <1>2 DEF OrderInv, ThreadInv, Goes
    <2>6. FreeInv'
      BY <2>1, <2>2, <2>3 DEF OrderInv, FreeInv, Goes
    <2> QED BY <2>2, <2>4, <2>5, <2>6 DEF OrderInv
  <1>13. CASE cleanup("main")
    <2>1. Top("main").at = "cleanup"
      BY <1>13 DEF cleanup, At
    <2>2. table = "live"
      BY <2>1 DEF OrderInv, FreeInv, TypeInv
    <2>3. /\ table' = "freed" /\ Goto("main", "exit")
          /\ UNCHANGED <<serverVars, web_server, object, signals, process>>
      BY <2>2, <1>13 DEF cleanup
    <2>4. Goes("exit")
      BY <2>3, <1>1, GotoGoes DEF MainAt
    <2>5. OneHandler'
      BY <2>3, <2>4, <1>3
    <2>6. ThreadInv'
      BY <2>1, <2>3, <2>4, <1>2 DEF OrderInv, ThreadInv, Goes
    <2>7. FreeInv'
      BY <2>1, <2>3, <2>4 DEF OrderInv, FreeInv, Goes
    <2> QED BY <2>3, <2>5, <2>6, <2>7 DEF OrderInv
  <1>14. CASE leave("main")
    <2>1. UNCHANGED <<stack, serverVars, objectVars, signals>> /\ process' = "exited"
      BY <1>14 DEF leave, Die
    <2> QED BY <2>1 DEF OrderInv, OneHandler, ThreadInv, FreeInv, Top
  <1>15. CASE handler_returns("main")
    <2>1. Top("main").at = "return" /\ Pop("main") /\ stack["main"] # <<>>
      BY <1>15 DEF handler_returns, At
    <2>2. UNCHANGED <<serverVars, objectVars, signals, process>>
      BY <1>15 DEF handler_returns
    <2>3. /\ Len(stack["main"]) # 1
          /\ Len(stack'["main"]) = Len(stack["main"]) - 1
          /\ \A i \in 1..Len(stack["main"]) - 1 : stack'["main"][i] = stack["main"][i]
          /\ \A u \in Threads : u # "main" => stack'[u] = stack[u]
          /\ StackInv'
      BY <2>1, <1>1, PopShutdown DEF ShutdownMoves
    <2>4. Len(stack["main"]) = 2
      BY <2>3, <1>16
    <2>5. /\ Len(stack'["main"]) = 1 /\ stack'["main"][1] = stack["main"][1]
          /\ stack'["server"] = stack["server"]
      BY <2>3, <2>4 DEF Threads
    <2>6. Top("main")' = stack["main"][1]
      BY <2>5 DEF Top
    <2>7. stack["main"][1].at \in SafePoints
      BY <2>4 DEF OrderInv, OneHandler
    <2>8. OneHandler'
      BY <2>2, <2>5 DEF OrderInv, OneHandler, TypeInv
    <2>9. ThreadInv'
      BY <2>1, <2>2, <2>4, <2>5, <2>6, <2>7 DEF OrderInv, ThreadInv, SafePoints
    <2>10. FreeInv'
      BY <2>1, <2>2, <2>5, <2>6, <2>7 DEF OrderInv, FreeInv, SafePoints
    <2> QED BY <2>2, <2>8, <2>9, <2>10 DEF OrderInv
  <1> QED BY <1>5, <1>6, <1>7, <1>8, <1>9, <1>10, <1>11, <1>12, <1>13, <1>14, <1>15
          DEF Shutdown, Stop

GracefulInv == ReleaseInv /\ ShutdownInv

LEMMA GracefulInit == Init => GracefulInv
  <1> SUFFICES ASSUME Init PROVE GracefulInv
    OBVIOUS
  <1> DEFINE f == Frame("none", "begin", "none")
  <1>1. stack["main"] = <<f>> /\ stack["server"] = <<>> /\ f.at = "begin"
    BY DEF Init, Threads, Frame
  <1> HIDE DEF f
  <1>2. Len(<<f>>) = 1 /\ <<f>>[1] = f /\ Len(<<>>) = 0
    OBVIOUS
  <1>3. /\ Len(stack["main"]) = 1 /\ stack["main"][1].at = "begin"
        /\ Len(stack["server"]) = 0
    BY <1>1, <1>2
  <1>4. Top("main").at = "begin"
    BY <1>3 DEF Top
  <1>5. OneHandler
    <2>1. signals = 0
      BY DEF Init
    <2> QED BY <2>1, <1>3 DEF OneHandler
  <1>6. ThreadInv
    <2>1. 1..Len(stack["main"]) = {1}
      BY <1>3
    <2> QED BY <2>1, <1>1, <1>3, <1>4 DEF Init, ThreadInv
  <1>7. FreeInv
    BY <1>4 DEF Init, FreeInv
  <1> QED BY <1>5, <1>6, <1>7, ReleaseInit DEF Init, GracefulInv, ShutdownInv

LEMMA GracefulStep == GracefulInv /\ [Next]_vars => GracefulInv'
  <1> SUFFICES ASSUME ReleaseInv, ShutdownInv, [Next]_vars, Calm'
               PROVE  OrderInv' /\ process' \notin {"aborted", "undefined"}
    BY ReleaseStep DEF GracefulInv, ShutdownInv, OrderInv
  <1> USE DEF socketVars, serverVars, objectVars, controlVars
  <1>1. TypeInv /\ SocketInv /\ StackInv /\ TypeInv' /\ StackInv' /\ "main" \in Threads
    BY ReleaseStep DEF ReleaseInv, TypeInv, Threads
  <1>2. CASE \E sig \in Signals : deliver(sig)
    <2>1. PICK sig \in Signals, t \in Threads :
             /\ stack[t] # <<>>
             /\ t = "server" => Blocked("main", sig)
             /\ stack' = [stack EXCEPT ![t] = Append(@, Frame(sig, "handle", "none"))]
             /\ struck' = IF t = "main" THEN struck \cup {Top(t).at} ELSE struck
             /\ signals' = signals + 1
             /\ UNCHANGED <<serverVars, objectVars, process>>
      BY <1>2 DEF deliver
    <2>2. Calm /\ signals = 0 /\ (t = "main" => Top("main").at \in SafePoints)
      BY <2>1, <1>1 DEF Calm, TypeInv
    <2>3. OneHandler /\ ThreadInv /\ FreeInv /\ process \notin {"aborted", "undefined"}
      BY <2>2 DEF ShutdownInv
    <2>4. /\ Len(stack["main"]) \in Nat /\ Len(stack["main"]) >= 1
          /\ Len(stack["main"]) = 1 => Top("main") = stack["main"][1]
      BY <1>1, MainTop
    <2>5. Len(stack["main"]) = 1 /\ Top("main") = stack["main"][1]
      <3> DEFINE n == Len(stack["main"])
      <3>1. n \in Nat /\ n >= 1 /\ n <= 1 + signals
        BY <2>3, <2>4 DEF OneHandler
      <3> HIDE DEF n
      <3>2. n = 1
        BY <3>1, <2>2
      <3> QED BY <3>2, <2>4 DEF n
    <2>6. t = "main"
      <3>1. MainFrame(stack["main"][1])
        BY <2>5, <1>1 DEF StackInv, Fits
      <3>2. ~Blocked("main", sig)
        <4>1. DOMAIN stack["main"] = 1..Len(stack["main"])
          BY <1>1 DEF StackInv
        <4>2. DOMAIN stack["main"] = {1}
          BY <4>1, <2>5
        <4> QED BY <4>2, <3>1 DEF Blocked, MainFrame, Signals
      <3> QED BY <3>2, <2>1 DEF Threads
    <2>7. /\ Len(stack'[t]) = Len(stack[t]) + 1
          /\ stack'[t][Len(stack[t]) + 1].at = "handle"
          /\ \A i \in 1..Len(stack[t]) : stack'[t][i] = stack[t][i]
          /\ \A u \in Threads : u # t => stack'[u] = stack[u]
      BY <2>1, <1>1, Delivered
    <2>8. /\ Len(stack'["main"]) = 2 /\ stack'["main"][2].at = "handle"
          /\ stack'["main"][1] = stack["main"][1]
          /\ stack'["server"] = stack["server"]
      BY <2>5, <2>6, <2>7 DEF Threads
    <2>9. Top("main")'.at = "handle"
      BY <2>8 DEF Top
    <2>10. stack["main"][1].at \in SafePoints
      BY <2>2, <2>5, <2>6
    <2>11. OneHandler'
      BY <2>1, <2>2, <2>3, <2>8, <2>10 DEF OneHandler
    <2>12. ThreadInv'
      <3>1. \A i \in 1..2 : stack'["main"][i].at = "free" => stack["main"][1].at = "free"
        BY <2>8
      <3> QED BY <3>1, <2>1, <2>3, <2>5, <2>8, <2>9, <2>10 DEF ThreadInv, SafePoints
    <2>13. FreeInv'
      BY <2>1, <2>3, <2>5, <2>8, <2>9, <2>10 DEF FreeInv, SafePoints
    <2> QED BY <2>1, <2>3, <2>11, <2>12, <2>13 DEF OrderInv
  <1>3. CASE ~(\E sig \in Signals : deliver(sig))
    <2>1. signals' = signals /\ struck' = struck
      <3>1. CASE \E t \in Threads : Shutdown(t)
        BY <3>1, <1>1, ShutdownSteps
      <3>2. CASE ServerOwn
        BY <3>2, <1>1, ServerSteps
      <3>3. CASE \/ start_flag \/ start_thread \/ start_assign \/ main_ends
                 \/ use_after_delete \/ Clients \/ UNCHANGED vars
        BY <3>3 DEF start_flag, start_thread, start_assign, main_ends, use_after_delete,
                    Die, Clients, connect, client_acts, vars
      <3> QED BY <1>3, <3>1, <3>2, <3>3
              DEF Next, Main, ServerThread, ServerOwn, Threads
    <2>2. Calm
      BY <2>1 DEF Calm
    <2>3. OneHandler /\ ThreadInv /\ FreeInv /\ process \notin {"aborted", "undefined"}
      BY <2>2 DEF ShutdownInv
    <2>4. ASSUME UNCHANGED <<stack, serverVars, objectVars, signals, process>>
          PROVE  OrderInv' /\ process' \notin {"aborted", "undefined"}
      BY <2>3, <2>4 DEF OrderInv, OneHandler, ThreadInv, FreeInv, Top
    <2>5. CASE Shutdown("main")
      BY <2>2, <2>3, <2>5, <1>1, OrderShutdown DEF OrderInv
    <2>6. ~Shutdown("server")
      <3>1. \A l \in MainAt : ~At("server", l)
        BY <2>3, <1>1, ServerNotInHandler
      <3> QED BY <3>1 DEF Shutdown, Stop, handle, handler_returns, stop_check, stop_clear,
              stop_close, stop_join, delete_object, free_object, clear_pointer, cleanup,
              leave, MainAt
    <2>7. CASE ServerOwn
      <3>1. /\ stack'["main"] = stack["main"]
            /\ stack["server"] # <<>> /\ Len(stack'["server"]) <= 1
            /\ UNCHANGED <<running_, server_thread_, web_server, object, table, signals>>
            /\ process' \in {process, "uncaught"}
        BY <2>7, <1>1, ServerSteps
      <3>2. Top("main")' = Top("main")
        BY <3>1 DEF Top
      <3>3. OneHandler'
        BY <3>1, <2>3 DEF OneHandler
      <3>4. ThreadInv'
        BY <3>1, <3>2, <2>3 DEF ThreadInv
      <3>5. FreeInv'
        BY <3>1, <3>2, <2>3 DEF FreeInv
      <3> QED BY <3>1, <3>3, <3>4, <3>5, <2>3 DEF OrderInv
    <2>8. ~use_after_delete
      BY <2>3 DEF FreeInv, use_after_delete
    <2>9. CASE Clients \/ UNCHANGED vars
      BY <2>4, <2>9 DEF Clients, connect, client_acts, vars
    <2>10. CASE start_flag
      <3>1. /\ stack'["server"] = stack["server"] /\ Len(stack'["main"]) = 1
            /\ stack'["main"][1].at = "spawn"
        BY <2>10, <1>1, StartGoto DEF start_flag, StartAt
      <3>2. Len(stack["main"]) = 1 /\ Top("main") = stack["main"][1] /\ Top("main").at = "begin"
        BY <2>10, <1>1, MainAlone DEF start_flag, StartAt
      <3>3. Top("main")' = stack'["main"][1]
        BY <3>1 DEF Top
      <3>4. running_' = TRUE /\ UNCHANGED <<server_thread_, objectVars, process>>
        BY <2>10 DEF start_flag
      <3>5. OneHandler'
        BY <3>1, <2>1, <2>3, <1>1 DEF OneHandler, TypeInv
      <3>6. ThreadInv'
        BY <3>1, <3>2, <3>3, <3>4, <2>3 DEF ThreadInv
      <3>7. FreeInv'
        BY <3>1, <3>2, <3>3, <3>4, <2>3 DEF FreeInv
      <3> QED BY <3>4, <3>5, <3>6, <3>7, <2>3 DEF OrderInv
    <2>11. CASE start_thread
      <3>1. /\ Len(stack'["main"]) = 1 /\ stack'["main"][1].at = "assign"
            /\ Len(stack'["server"]) = 1
        BY <2>11, <1>1, ThreadCreated
      <3>2. Len(stack["main"]) = 1 /\ Top("main") = stack["main"][1] /\ Top("main").at = "spawn"
        BY <2>11, <1>1, MainAlone DEF start_thread, StartAt
      <3>3. Top("main")' = stack'["main"][1]
        BY <3>1 DEF Top
      <3>4. UNCHANGED <<running_, server_thread_, objectVars, process>>
        BY <2>11 DEF start_thread
      <3>5. OneHandler'
        BY <3>1, <2>1, <2>3, <1>1 DEF OneHandler, TypeInv
      <3>6. ThreadInv'
        BY <3>1, <3>2, <3>3, <3>4, <2>3 DEF ThreadInv
      <3>7. FreeInv'
        BY <3>1, <3>2, <3>3, <3>4, <2>3 DEF FreeInv
      <3> QED BY <3>4, <3>5, <3>6, <3>7, <2>3 DEF OrderInv
    <2>12. CASE start_assign
      <3>1. /\ stack'["server"] = stack["server"] /\ Len(stack'["main"]) = 1
            /\ stack'["main"][1].at = "work"
        BY <2>12, <1>1, StartGoto DEF start_assign, StartAt
      <3>2. Len(stack["main"]) = 1 /\ Top("main") = stack["main"][1] /\ Top("main").at = "assign"
        BY <2>12, <1>1, MainAlone DEF start_assign, StartAt
      <3>3. Top("main")' = stack'["main"][1]
        BY <3>1 DEF Top
      <3>4. server_thread_' = "joinable" /\ UNCHANGED <<running_, objectVars, process>>
        BY <2>12 DEF start_assign
      <3>5. OneHandler'
        BY <3>1, <2>1, <2>3, <1>1 DEF OneHandler, TypeInv
      <3>6. ThreadInv'
        BY <3>1, <3>2, <3>3, <3>4, <2>3 DEF ThreadInv
      <3>7. FreeInv'
        BY <3>1, <3>2, <3>3, <3>4, <2>3 DEF FreeInv
      <3> QED BY <3>4, <3>5, <3>6, <3>7, <2>3 DEF OrderInv
    <2>13. CASE main_ends
      <3>1. Len(stack["main"]) = 1 /\ Top("main") = stack["main"][1] /\ Top("main").at = "work"
        BY <2>13, <1>1, MainAlone DEF main_ends, StartAt
      <3>2. PICK l \in {"exit", "delete", "cleanup", "stop"}, r \in {"none", "delete", "free"} :
               Moves("main", Frame("none", l, r)) /\ (l = "cleanup" => web_server = "null")
        BY <2>13, <1>1, MainEnds
      <3>3. Goes(Frame("none", l, r).at)
        BY <3>2, <1>1, MovesGoes
      <3>4. Goes(l) /\ l # "cleanup"
        BY <3>1, <3>2, <3>3, <2>3 DEF Frame, FreeInv
      <3>5. UNCHANGED <<serverVars, objectVars, process>>
        BY <2>13 DEF main_ends
      <3>6. OneHandler'
        BY <3>1, <3>4, <2>1, <2>3 DEF OneHandler, Goes
      <3>7. ThreadInv'
        BY <3>1, <3>4, <3>5, <2>3 DEF ThreadInv, Goes
      <3>8. FreeInv'
        BY <3>1, <3>4, <3>5, <2>3 DEF FreeInv, Goes
      <3> QED BY <3>5, <3>6, <3>7, <3>8, <2>3 DEF OrderInv
    <2> QED BY <1>3, <2>5, <2>6, <2>7, <2>8, <2>9, <2>10, <2>11, <2>12, <2>13
            DEF Next, Main, ServerThread, ServerOwn
  <1> QED BY <1>2, <1>3

LEMMA GracefulInvariant == Spec => []GracefulInv
  BY GracefulInit, GracefulStep, PTL DEF Spec

\* With one signal at a point where the handler is safe, or none, the shutdown
\* neither aborts in a destructor or a join nor touches freed memory, for any
\* number of clients and whichever calls of the thread fail (stop, signal_handler);
\* the exception that a request leaves uncaught is an end of its own.
THEOREM SpecGraceful == Spec => []Graceful
  <1>1. GracefulInv => Graceful
    BY DEF GracefulInv, ShutdownInv, Graceful
  <1> QED BY <1>1, GracefulInvariant, PTL

\* In these behaviours the server thread is over when container_manager_cleanup
\* frees the table it reads.
THEOREM SpecQuietAtCleanup == Spec => []QuietAtCleanup
  <1>1. GracefulInv => QuietAtCleanup
    BY DEF GracefulInv, ShutdownInv, FreeInv, QuietAtCleanup
  <1> QED BY <1>1, GracefulInvariant, PTL

(***************************************************************************)
(* The percentage of the host.                                             *)
(***************************************************************************)

\* The busy time has not shrunk since the last sample, the idle time only if the
\* kernel took iowait back; the last answer is right unless it is suspect.
SampleInv ==
    /\ busy \in Nat /\ idle \in Nat /\ prev_total \in Nat /\ prev_idle \in Nat
    /\ share \in [idle : Int, total : Int]
    /\ receded \in BOOLEAN /\ suspect \in BOOLEAN
    /\ prev_total - prev_idle <= busy
    /\ ~receded => prev_idle <= idle
    /\ ~suspect => InRange

\* The host's CPU share is a percentage, in any order of requests, ticks, failed
\* reads and iowait taken back, but for the answer about an interval in which the
\* kernel did that (getSystemCPUPercent).
THEOREM HostPercentInRange == HostSpec => []PercentInRange
  <1>1. HostInit => SampleInv
    <2>1. /\ NoShare \in [idle : Int, total : Int]
          /\ 0 <= NoShare.idle /\ NoShare.idle <= NoShare.total
      BY DEF NoShare
    <2> SUFFICES ASSUME HostInit PROVE SampleInv
      OBVIOUS
    <2>2. InRange /\ share \in [idle : Int, total : Int]
      BY <2>1 DEF HostInit, InRange
    <2>3. busy \in Nat /\ idle \in Nat /\ prev_total \in Nat /\ prev_idle \in Nat
      BY DEF HostInit
    <2>4. prev_total - prev_idle <= busy /\ prev_idle <= idle
      BY DEF HostInit
    <2>5. receded \in BOOLEAN /\ suspect \in BOOLEAN
      BY DEF HostInit
    <2> QED BY <2>2, <2>3, <2>4, <2>5 DEF SampleInv
  <1>2. SampleInv /\ [HostNext]_hostVars => SampleInv'
    <2> SUFFICES ASSUME SampleInv, [HostNext]_hostVars PROVE SampleInv'
      OBVIOUS
    <2>1. CASE host_works
      BY <2>1 DEF host_works, SampleInv, InRange
    <2>2. CASE iowait_taken_back
      BY <2>2 DEF iowait_taken_back, SampleInv, InRange
    <2>3. CASE sample_cpu
      <3> DEFINE total == busy + idle
      <3>1. share' = IF Counted(total)
                     THEN [idle |-> idle - prev_idle, total |-> total - prev_total]
                     ELSE NoShare
        BY <2>3 DEF sample_cpu
      <3>2. /\ prev_idle' = idle /\ prev_total' = busy + idle
            /\ suspect' = receded /\ receded' = FALSE /\ UNCHANGED <<busy, idle>>
        BY <2>3 DEF sample_cpu
      <3>3. share' \in [idle : Int, total : Int]
        BY <3>1 DEF SampleInv, NoShare
      <3>4. prev_idle <= idle => InRange'
        BY <3>1 DEF SampleInv, InRange, NoShare
      <3>5. receded' \in BOOLEAN /\ suspect' \in BOOLEAN /\ (~suspect' => ~receded)
        BY <3>2 DEF SampleInv
      <3>6. ~suspect' => InRange'
        BY <3>4, <3>5 DEF SampleInv
      <3>7. /\ prev_total' \in Nat /\ prev_idle' \in Nat /\ busy' \in Nat /\ idle' \in Nat
            /\ prev_total' - prev_idle' <= busy' /\ prev_idle' <= idle'
        BY <3>2 DEF SampleInv
      <3> QED BY <3>3, <3>5, <3>6, <3>7 DEF SampleInv
    <2>4. CASE stat_unreadable
      <3>1. share' = NoShare /\ suspect' = FALSE /\ receded' = receded
        BY <2>4 DEF stat_unreadable
      <3>2. InRange' /\ share' \in [idle : Int, total : Int]
        BY <3>1 DEF InRange, NoShare
      <3>3. receded' \in BOOLEAN /\ suspect' \in BOOLEAN
        BY <3>1 DEF SampleInv
      <3>4. /\ prev_total' \in Nat /\ prev_idle' \in Nat /\ busy' \in Nat /\ idle' \in Nat
            /\ prev_total' - prev_idle' <= busy' /\ (~receded' => prev_idle' <= idle')
        BY <2>4 DEF stat_unreadable, SampleInv
      <3> QED BY <3>2, <3>3, <3>4 DEF SampleInv
    <2>5. CASE UNCHANGED hostVars
      BY <2>5 DEF hostVars, SampleInv, InRange
    <2> QED BY <2>1, <2>2, <2>3, <2>4, <2>5 DEF HostNext
  <1>3. SampleInv => PercentInRange
    BY DEF SampleInv, PercentInRange
  <1> QED BY <1>1, <1>2, <1>3, PTL DEF HostSpec

(***************************************************************************)
(* The CPU times of the dashboard.                                         *)
(***************************************************************************)

\* The sample that the server keeps is the one that was taken of this very
\* container, unless it is known to be foreign; a counter that could not be read is
\* kept as 0.
SampleOf(id) ==
    truth[id].usage # Foreign =>
        /\ prev_cpu_usage[id] = IF truth[id].usage = Lost THEN 0 ELSE truth[id].usage
        /\ prev_time[id] = truth[id].at

PageInv ==
    /\ prev_cpu_usage \in [Ids -> Int] /\ prev_time \in [Ids -> Nat]
    /\ truth \in [Ids -> [usage : Int, at : Nat]]
    /\ usage \in [Ids -> Nat] /\ now \in Nat /\ current_time \in Nat
    /\ current \subseteq Ids /\ todo \subseteq Ids
    /\ \A id \in Ids : SampleOf(id)

\* The history of one container is replaced.
LEMMA TruthAt ==
    ASSUME NEW t \in [Ids -> [usage : Int, at : Nat]], NEW id \in Ids,
           NEW e \in [usage : Int, at : Nat]
    PROVE  /\ [t EXCEPT ![id] = e] \in [Ids -> [usage : Int, at : Nat]]
           /\ [t EXCEPT ![id] = e][id] = e
           /\ \A x \in Ids : x # id => [t EXCEPT ![id] = e][x] = t[x]
  OBVIOUS

LEMMA SeenType ==
    ASSUME NEW cpu \in Int, NEW time \in Nat
    PROVE  /\ Seen(cpu, time) \in [usage : Int, at : Nat]
           /\ Seen(cpu, time).usage = cpu /\ Seen(cpu, time).at = time
  BY DEF Seen

\* What the dashboard shows for a container is the CPU time this very container
\* has used since the last request that found it running, over the seconds since
\* then, for any number of containers, stops, starts, destroys, ids given out
\* again, clocks set back and unreadable counters (getContainerListJSON).
THEOREM PageUsageExact == PageSpec => UsageExact
  <1> USE DEF NoSample, Lost, Foreign
  <1>1. PageInit => PageInv
    <2> SUFFICES ASSUME PageInit PROVE PageInv
      OBVIOUS
    <2>1. truth = [id \in Ids |-> Seen(NoSample, 0)]
      BY DEF PageInit
    <2>2. truth \in [Ids -> [usage : Int, at : Nat]]
      BY <2>1, SeenType
    <2>3. \A id \in Ids : truth[id].usage = NoSample /\ truth[id].at = 0
      BY <2>1, SeenType
    <2> QED BY <2>2, <2>3 DEF PageInit, PageInv, SampleOf
  <1>2. PageInv /\ [PageNext]_pageVars => PageInv'
    <2> SUFFICES ASSUME PageInv, [PageNext]_pageVars PROVE PageInv'
      OBVIOUS
    <2> USE DEF PageInv, containerVars, requestVars
    <2>1. ASSUME UNCHANGED <<prev_cpu_usage, prev_time, truth>>, usage' \in [Ids -> Nat],
                 now' \in Nat, current_time' \in Nat, current' \subseteq Ids,
                 todo' \subseteq Ids
          PROVE  PageInv'
      BY <2>1 DEF SampleOf
    <2>2. ASSUME NEW id \in Ids, NEW q \in Quotas, run_container(id, q) PROVE PageInv'
      BY <2>1, <2>2 DEF run_container
    <2>3. ASSUME NEW id \in Ids, stop_container(id) \/ start_container(id) PROVE PageInv'
      BY <2>1, <2>3 DEF stop_container, start_container
    <2>4. ASSUME NEW id \in Ids, destroy_container(id) PROVE PageInv'
      <3> DEFINE e == IF truth[id].usage = NoSample THEN truth[id] ELSE Seen(Foreign, 0)
      <3>1. e \in [usage : Int, at : Nat] /\ (e = truth[id] \/ e.usage = Foreign)
        BY SeenType
      <3>2. truth' = [truth EXCEPT ![id] = e]
        BY <2>4 DEF destroy_container
      <3> HIDE DEF e
      <3>3. /\ truth' \in [Ids -> [usage : Int, at : Nat]] /\ truth'[id] = e
            /\ \A x \in Ids : x # id => truth'[x] = truth[x]
        BY <3>1, <3>2, TruthAt
      <3>4. \A x \in Ids : SampleOf(x)'
        BY <2>4, <3>1, <3>3 DEF destroy_container, SampleOf
      <3> QED BY <2>4, <3>3, <3>4 DEF destroy_container
    <2>5. ASSUME NEW id \in Ids, consume(id) PROVE PageInv'
      BY <2>1, <2>5 DEF consume
    <2>6. ASSUME NEW id \in Ids, visit_other(id) PROVE PageInv'
      <3>1. /\ truth' \in [Ids -> [usage : Int, at : Nat]] /\ truth'[id] = Seen(NoSample, 0)
            /\ \A x \in Ids : x # id => truth'[x] = truth[x]
        BY <2>6, SeenType, TruthAt DEF visit_other
      <3>2. truth'[id].usage = NoSample /\ truth'[id].at = 0
        BY <3>1, SeenType
      <3>3. /\ prev_cpu_usage' = [prev_cpu_usage EXCEPT ![id] = NoSample]
            /\ prev_time' = [prev_time EXCEPT ![id] = 0]
        BY <2>6 DEF visit_other
      <3>4. \A x \in Ids : SampleOf(x)'
        BY <3>1, <3>2, <3>3 DEF SampleOf
      <3>5. prev_cpu_usage' \in [Ids -> Int] /\ prev_time' \in [Ids -> Nat]
        BY <3>3
      <3> QED BY <2>6, <3>1, <3>4, <3>5 DEF visit_other
    <2>7. ASSUME NEW id \in Ids, visit_running(id) \/ parse_fails(id) PROVE PageInv'
      BY <2>1, <2>7 DEF visit_running, parse_fails
    <2>8. ASSUME NEW id \in Ids, NEW ok \in Readable, sample(id, ok) PROVE PageInv'
      <3> DEFINE c == get_stats(id, ok)
                 u == IF ok THEN usage[id] ELSE Lost
      <3>1. u \in Int /\ c \in Int /\ u # Foreign /\ c = IF u = Lost THEN 0 ELSE u
        BY DashboardAssumption DEF get_stats
      <3>2. /\ prev_cpu_usage' = [prev_cpu_usage EXCEPT ![id] = c]
            /\ prev_time' = [prev_time EXCEPT ![id] = current_time]
            /\ truth' = [truth EXCEPT ![id] = Seen(u, current_time)]
            /\ current' = {} /\ UNCHANGED <<usage, now, current_time, todo>>
        BY <2>8 DEF sample
      <3> HIDE DEF c, u
      <3>3. /\ truth' \in [Ids -> [usage : Int, at : Nat]] /\ truth'[id] = Seen(u, current_time)
            /\ \A x \in Ids : x # id => truth'[x] = truth[x]
        BY <3>1, <3>2, SeenType, TruthAt
      <3>4. truth'[id].usage = u /\ truth'[id].at = current_time
        BY <3>1, <3>3, SeenType
      <3>5. \A x \in Ids : SampleOf(x)'
        BY <3>1, <3>2, <3>3, <3>4 DEF SampleOf
      <3>6. prev_cpu_usage' \in [Ids -> Int] /\ prev_time' \in [Ids -> Nat]
        BY <3>1, <3>2
      <3> QED BY <3>2, <3>3, <3>5, <3>6
    <2>9. CASE clock_changes
      BY <2>1, <2>9, DashboardAssumption DEF clock_changes
    <2>10. CASE request_begin \/ request_end \/ UNCHANGED pageVars
      BY <2>1, <2>10 DEF request_begin, request_end, pageVars
    <2> QED BY <2>2, <2>3, <2>4, <2>5, <2>6, <2>7, <2>8, <2>9, <2>10 DEF PageNext
  <1>3. PageInv =>
          [\A id \in Ids : sample(id, TRUE) /\ truth[id].usage \notin {Lost, Foreign} =>
              shown' = IF truth[id].usage # NoSample /\ truth[id].at < current_time
                       THEN Share(usage[id] - truth[id].usage, current_time - truth[id].at)
                       ELSE NoneShown]_pageVars
    <2> SUFFICES ASSUME PageInv, NEW id \in Ids, sample(id, TRUE),
                        truth[id].usage \notin {Lost, Foreign}
                 PROVE  shown' = IF truth[id].usage # NoSample /\ truth[id].at < current_time
                                 THEN Share(usage[id] - truth[id].usage,
                                            current_time - truth[id].at)
                                 ELSE NoneShown
      OBVIOUS
    <2>1. prev_cpu_usage[id] = truth[id].usage /\ prev_time[id] = truth[id].at
      BY DEF PageInv, SampleOf
    <2>2. shown' = IF prev_cpu_usage[id] # NoSample /\ current_time - prev_time[id] > 0
                   THEN Share(usage[id] - prev_cpu_usage[id], current_time - prev_time[id])
                   ELSE NoneShown
      BY DEF sample, get_stats
    <2>3. current_time - prev_time[id] > 0 <=> prev_time[id] < current_time
      BY DEF PageInv
    <2> QED BY <2>1, <2>2, <2>3
  <1> QED BY <1>1, <1>2, <1>3, PTL DEF PageSpec, UsageExact
=============================================================================
