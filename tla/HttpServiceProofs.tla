--------------------------- MODULE HttpServiceProofs ---------------------------
(***************************************************************************)
(* The HTTP server program is a use of Server: what is proved of Server is *)
(* true of it, for any number of connections.  On top of that come the     *)
(* properties of main() and of the connection threads.                     *)
(***************************************************************************)
EXTENDS HttpService, TcpServerProofs

-----------------------------------------------------------------------------
(* Every behaviour of the program is one of TcpServer.                     *)

LEMMA StepIsServerStep == [HNext]_hvars => [Next]_vars
<1>. SUFFICES ASSUME [HNext]_hvars PROVE [Next]_vars
  OBVIOUS
<1>1. CASE MainSetsHandler
  BY <1>1, ServiceAssumption DEF MainSetsHandler, Next
<1>2. CASE MainStarts
  BY <1>2 DEF MainStarts, Next
<1>3. CASE MainPolls \/ MainExits \/ Signal
  BY <1>3 DEF MainPolls, MainExits, Signal
<1>4. CASE MainStops
  BY <1>4 DEF MainStops, Next
<1>5. CASE MainDestroys
  BY <1>5 DEF MainDestroys, Next
<1>6. CASE LoopTurns \/ LoopErrs
  BY <1>6 DEF LoopTurns, LoopErrs, Next, Accept
<1>7. ASSUME NEW c \in Conn, LoopTakes(c) \/ LoopSpawns(c) PROVE [Next]_vars
  BY <1>7 DEF LoopTakes, LoopSpawns, Next, Accept
<1>8. ASSUME NEW c \in Conn, Thread(c) PROVE [Next]_vars
  BY <1>8 DEF Thread, ThreadCalls, ThreadRefuses, ThreadReturns, ThreadCloses, Next
<1>9. ASSUME NEW c \in Conn, ClientConnects(c) PROVE [Next]_vars
  BY <1>9 DEF ClientConnects, Next
<1>10. CASE UNCHANGED hvars
  BY <1>10 DEF hvars
<1>. QED
  BY <1>1, <1>2, <1>3, <1>4, <1>5, <1>6, <1>7, <1>8, <1>9, <1>10 DEF HNext, Main

\* HttpServer under HttpServerMain behaves as Server may: all that
\* TcpServerProofs says holds of it too.
THEOREM ServiceIsServer == HSpec => Spec
<1>1. HInit => Init
  BY DEF HInit
<1>. QED
  BY <1>1, StepIsServerStep, PTL DEF HSpec, Spec

\* And it keeps ServerContract, up to the end of the process.
THEOREM ServiceRefines == HSpec => ImplementsContract
BY ServiceIsServer, Refinement

\* main()'s stop() ends within nine steps of main() and the accept loop, and
\* waits for no client, however the signal falls.
THEOREM ServiceStops == HSpec => StopAdvances /\ [](StopLeft \in 0 .. 9) /\ []StopCanGoOn
<1>1. HSpec => StopAdvances /\ [](StopLeft \in 0 .. 9)
  BY ServiceIsServer, StopIsBounded
<1>2. HSpec => []StopCanGoOn
  BY ServiceIsServer, StopIsNeverHeld
<1>. QED
  BY <1>1, <1>2

-----------------------------------------------------------------------------
(* main() and the connection threads.                                      *)

LEMMA ServiceInit == HInit => ServiceInv
<1>. SUFFICES ASSUME HInit PROVE ServiceInv
  OBVIOUS
<1>1. TypeOK
  BY TypeInit DEF HInit
<1>. QED
  BY <1>1 DEF HInit, Init, ServiceInv, HTypeOK, ThreadPC, MainByPhase, ThreadsByPhase,
              AlwaysConfigured

LEMMA ServiceKept ==
  ServiceInv /\ ServerInv /\ ServerInv' /\ [HNext]_hvars => ServiceInv'
<1>. SUFFICES ASSUME ServiceInv, ServerInv, ServerInv', [HNext]_hvars PROVE ServiceInv'
  OBVIOUS
<1>. USE DEF ServiceInv, HTypeOK, ThreadPC, MainByPhase, ThreadsByPhase, AlwaysConfigured
<1>type. TypeOK'
  BY DEF ServerInv
<1>loop. owner \in {"idle", "bind"} /\ ~running => acceptor = "none"
  BY DEF ServerInv, LoopByPhase, StopSteps
<1>1. CASE MainSetsHandler
  BY <1>1, <1>type DEF MainSetsHandler, SetHandler, MainAt, OwnerAt, requests, calls, clients
<1>2. CASE MainStarts
  <2>. USE <1>type, <1>loop DEF MainAt, requests, object, loop, clients
  <2>1. CASE StartAgain
    BY <1>2, <2>1 DEF MainStarts, StartAgain
  <2>2. CASE SocketFails
    BY <1>2, <2>2 DEF MainStarts, SocketFails, OwnerAt
  <2>3. CASE StartSocket
    BY <1>2, <2>3 DEF MainStarts, StartSocket
  <2>4. CASE BindFails
    BY <1>2, <2>4 DEF MainStarts, BindFails, OwnerAt
  <2>5. CASE StartListens
    BY <1>2, <2>5 DEF MainStarts, StartListens, OwnerAt
  <2>. QED
    BY <1>2, <2>1, <2>2, <2>3, <2>4, <2>5 DEF MainStarts, Start
<1>3. CASE MainPolls \/ MainExits \/ Signal
  <2>. USE <1>type DEF MainAt, requests, vars, object, calls, loop, clients
  <2>1. CASE MainPolls
    BY <2>1 DEF MainPolls
  <2>2. CASE MainExits
    BY <2>2 DEF MainExits
  <2>3. CASE Signal
    BY <2>3 DEF Signal
  <2>. QED
    BY <1>3, <2>1, <2>2, <2>3
<1>4. CASE MainStops
  <2>. USE <1>type, <1>4 DEF MainStops, MainAt, OwnerAt, program, requests, object, loop, clients
  <2>1. CASE StopBegin
    BY <2>1 DEF StopBegin
  <2>2. CASE StopShutdown
    BY <2>2 DEF StopShutdown, TypeOK, ConnState
  <2>3. CASE StopClose
    BY <2>3 DEF StopClose
  <2>4. CASE StopClear
    BY <2>4 DEF StopClear
  <2>5. CASE StopJoin
    BY <2>5 DEF StopJoin
  <2>. QED
    BY <2>1, <2>2, <2>3, <2>4, <2>5 DEF Stop
<1>5. CASE MainDestroys
  BY <1>5, <1>type DEF MainDestroys, Destroy, MainAt, OwnerAt, requests, object, loop, clients
<1>6. CASE LoopTurns \/ LoopErrs
  BY <1>6, <1>type DEF LoopTurns, LoopErrs, AcceptTest, AcceptLoad, AcceptEnter, AcceptFailed,
                       AcceptTransient, LoopAt, program, requests, object, calls, clients
<1>7. ASSUME NEW c \in Conn, LoopTakes(c) PROVE ServiceInv'
  BY <1>7, <1>type DEF LoopTakes, AcceptTake, LoopAt, ClientAt, TypeOK, program, requests, object, calls
<1>8. ASSUME NEW c \in Conn, LoopSpawns(c) PROVE ServiceInv'
  BY <1>8, <1>type DEF LoopSpawns, AcceptSpawn, LoopAt, ClientAt, TypeOK, program, object, calls
<1>9. ASSUME NEW c \in Conn, Thread(c) PROVE ServiceInv'
  <2>. USE <1>type DEF ThreadAt, program, vars, object, calls, loop, clients
  <2>1. CASE ThreadCalls(c)
    BY <2>1 DEF ThreadCalls, TypeOK
  <2>2. CASE ThreadRefuses(c) \/ ThreadReturns(c)
    BY <2>2 DEF ThreadRefuses, ThreadReturns
  <2>3. CASE ThreadCloses(c)
    BY <2>3 DEF ThreadCloses, HandlerCloses, ClientAt, TypeOK
  <2>. QED
    BY <1>9, <2>1, <2>2, <2>3 DEF Thread
<1>10. ASSUME NEW c \in Conn, ClientConnects(c) PROVE ServiceInv'
  <2>1. main \notin {"setHandler", "start"}
    BY <1>10, ServerAssumption DEF ClientConnects, Connect, ServerInv, NoLeakedSocket, SocketByPhase,
                                   TypeOK, OwnerPC
  <2>. QED
    BY <1>10, <1>type, <2>1 DEF ClientConnects, Connect, ClientAt, TypeOK, program, requests, object,
                               calls, loop
<1>11. CASE UNCHANGED hvars
  BY <1>11, <1>type DEF hvars, vars, program, requests, object, calls, loop, clients
<1>. QED
  BY <1>1, <1>2, <1>3, <1>4, <1>5, <1>6, <1>7, <1>8, <1>9, <1>10, <1>11 DEF HNext, Main

\* The invariant of the program: main(), signals and threads in any order.
THEOREM ServiceInvariant == HSpec => []ServiceInv
<1>1. HSpec => []ServerInv
  BY ServiceIsServer, ServerInvariant
<1>. QED
  BY <1>1, ServiceInit, ServiceKept, PTL DEF HSpec

\* "No handler configured." is never answered (main() calls setHandler()
\* before start()).
THEOREM Configured == HSpec => []AlwaysConfigured
<1>1. ServiceInv => AlwaysConfigured
  BY DEF ServiceInv
<1>. QED
  BY <1>1, ServiceInvariant, PTL

\* Until a signal comes no connection thread outlives the server object
\* (the error paths of HttpServer::start() and of main()).
THEOREM OutlivesThreads == HSpec => []AliveUntilSignalled
<1>1. ServiceInv => AliveUntilSignalled
  BY DEF ServiceInv, AliveUntilSignalled, MainByPhase, ThreadsByPhase
<1>. QED
  BY <1>1, ServiceInvariant, PTL
=============================================================================
