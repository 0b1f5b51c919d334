---------------------------- MODULE TcpServerProofs ----------------------------
(***************************************************************************)
(* What TcpServer guarantees for every number of connections, descriptors  *)
(* and handlers, every backlog, and whether or not threads can be created  *)
(* (except where a theorem says so).                                       *)
(*                                                                         *)
(* Type correctness comes first, on its own.  The properties then follow   *)
(* from ServerInv, which Init establishes and every action preserves.      *)
(***************************************************************************)
EXTENDS TcpServerRefinement, TLAPS

-----------------------------------------------------------------------------
(* Type correctness.                                                       *)

LEMMA TypeInit == Init => TypeOK
BY DEF Init, TypeOK, OwnerPC, AcceptPC, ConnState

\* Each action keeps each variable in its set.
LEMMA TypeKept == TypeOK /\ [Next]_vars => TypeOK'
<1>. SUFFICES ASSUME TypeOK, [Next]_vars PROVE TypeOK'
  OBVIOUS
<1>. USE ServerAssumption DEF TypeOK, OwnerPC, StopSteps, AcceptPC, ConnState
<1>1. CASE \E h \in Handler \cup {NoHandler} : SetHandler(h)
  BY <1>1 DEF SetHandler, object, calls, loop, clients
<1>2. CASE StartAgain
  BY <1>2 DEF StartAgain, object, calls, loop, clients
<1>3. CASE SocketFails
  BY <1>3 DEF SocketFails, object, calls, loop, clients
<1>4. CASE StartSocket
  BY <1>4 DEF StartSocket, object, calls, loop, clients
<1>5. CASE BindFails
  BY <1>5 DEF BindFails, object, calls, loop, clients
<1>6. CASE StartListens
  BY <1>6 DEF StartListens, object, calls, loop, clients
<1>7. CASE StopBegin
  BY <1>7 DEF StopBegin, object, calls, loop, clients
<1>8. CASE StopShutdown
  BY <1>8 DEF StopShutdown, object, calls, loop, clients
<1>9. CASE StopClose
  BY <1>9, ZenonT(30) DEF StopClose, object, calls, loop, clients
<1>10. CASE StopClear
  BY <1>10 DEF StopClear, object, calls, loop, clients
<1>11. CASE StopJoin
  BY <1>11 DEF StopJoin, object, calls, loop, clients
<1>12. CASE Destroy
  BY <1>12 DEF Destroy, object, calls, loop, clients
<1>13. CASE AcceptTest
  BY <1>13 DEF AcceptTest, object, calls, loop, clients
<1>14. CASE AcceptLoad
  BY <1>14 DEF AcceptLoad, object, calls, loop, clients
<1>15. CASE AcceptEnter
  BY <1>15 DEF AcceptEnter, object, calls, loop, clients
<1>16. CASE AcceptTransient
  BY <1>16 DEF AcceptTransient, object, calls, loop, clients
<1>17. CASE AcceptFailed
  BY <1>17 DEF AcceptFailed, object, calls, loop, clients
<1>18. CASE \E c \in Conn : AcceptTake(c)
  BY <1>18 DEF AcceptTake, object, calls, loop, clients
<1>19. ASSUME NEW c \in Conn, AcceptSpawn(c) PROVE TypeOK'
  <2>1. CASE /\ conn' = [conn EXCEPT ![c] = "serving"]
             /\ copy' = [copy EXCEPT ![c] = clientHandler]
             /\ acceptor' = "test" /\ UNCHANGED aborted
    BY <1>19, <2>1 DEF AcceptSpawn, object, calls
  <2>2. CASE aborted' = TRUE /\ UNCHANGED <<conn, copy, acceptor>>
    BY <1>19, <2>2 DEF AcceptSpawn, object, calls
  <2>. QED
    BY <1>19, <2>1, <2>2 DEF AcceptSpawn
<1>20. CASE \E c \in Conn : HandlerCloses(c)
  BY <1>20 DEF HandlerCloses, object, calls, loop, clients
<1>21. CASE \E c \in Conn : Connect(c)
  BY <1>21 DEF Connect, object, calls, loop, clients
<1>22. CASE UNCHANGED vars
  BY <1>22 DEF vars, object, calls, loop, clients
<1>. QED
  BY <1>1, <1>2, <1>3, <1>4, <1>5, <1>6, <1>7, <1>8, <1>9, <1>10, <1>11, <1>12, <1>13, <1>14, <1>15, <1>16, <1>17, <1>18, <1>19, <1>20, <1>21, <1>22
     DEF Next, Start, Stop, Accept

\* Every variable stays in its set, whatever fails and however threads
\* interleave (all of Server.cpp's lifecycle).
THEOREM TypeCorrect == Spec => []TypeOK
BY TypeInit, TypeKept, PTL DEF Spec

-----------------------------------------------------------------------------
(* The inductive invariant.                                                *)

LEMMA InvariantInit == Init => ServerInv
<1>. SUFFICES ASSUME Init PROVE ServerInv
  OBVIOUS
<1>1. TypeOK
  BY TypeInit
<1>2. NoLeakedSocket /\ NeverAsleepOnDeadSocket
  BY DEF Init, NoLeakedSocket, NeverAsleepOnDeadSocket
<1>3. SocketByPhase /\ LoopByPhase
  BY DEF Init, SocketByPhase, LoopByPhase, StopSteps
<1>4. WaitingAreHeld /\ ServedByItsHandler /\ NeverTerminates
  BY DEF Init, WaitingAreHeld, ServedByItsHandler, NeverTerminates, In
<1>. QED
  BY <1>1, <1>2, <1>3, <1>4 DEF ServerInv

LEMMA InvariantKept == ServerInv /\ [Next]_vars => ServerInv'
<1>. SUFFICES ASSUME ServerInv, [Next]_vars PROVE ServerInv'
  OBVIOUS
<1>. USE DEF ServerInv, TypeOK, NoLeakedSocket, NeverAsleepOnDeadSocket, SocketByPhase,
             LoopByPhase, WaitingAreHeld, ServedByItsHandler, NeverTerminates, In, StopSteps
<1>type. TypeOK'
  BY TypeKept
<1>1. CASE \E h \in Handler \cup {NoHandler} : SetHandler(h)
  BY <1>type, <1>1, ServerAssumption DEF SetHandler, OwnerAt, object, calls, loop, clients
<1>2. CASE StartAgain
  BY <1>type, <1>2 DEF StartAgain, OwnerAt, object, calls, loop, clients
<1>3. CASE SocketFails
  BY <1>type, <1>3 DEF SocketFails, OwnerAt, object, calls, loop, clients
<1>4. CASE StartSocket
  BY <1>type, <1>4, ServerAssumption DEF StartSocket, OwnerAt, object, calls, loop, clients
<1>5. CASE BindFails
  BY <1>type, <1>5 DEF BindFails, OwnerAt, object, calls, loop, clients
<1>6. CASE StartListens
  <2>1. owner = "bind" /\ acceptor = "none" /\ ~joinable /\ ~running
    BY <1>6 DEF StartListens, OwnerAt
  <2>2. UNCHANGED aborted \/ aborted' = joinable
    BY <1>6 DEF StartListens
  <2>3. ~aborted'
    BY <1>6, <2>1, <2>2 DEF StartListens, OwnerAt
  <2>4. joinable' <=> acceptor' # "none"
    BY <1>6, <2>1 DEF StartListens
  <2>5. NoLeakedSocket' /\ NeverAsleepOnDeadSocket' /\ SocketByPhase'
    BY <1>6, <2>1 DEF StartListens, clients
  <2>6. LoopByPhase'
    BY <1>6, <2>1, <2>4 DEF StartListens, clients
  <2>7. WaitingAreHeld' /\ ServedByItsHandler'
    BY <1>6, <2>1 DEF StartListens, clients
  <2>. QED
    BY <1>type, <2>3, <2>5, <2>6, <2>7
<1>7. CASE StopBegin
  BY <1>type, <1>7 DEF StopBegin, OwnerAt, object, calls, loop, clients
<1>8. CASE StopShutdown
  BY <1>type, <1>8 DEF StopShutdown, OwnerAt, object, calls, loop, clients
<1>9. CASE StopClose
  BY <1>type, <1>9 DEF StopClose, OwnerAt, object, calls, loop, clients
<1>10. CASE StopClear
  BY <1>type, <1>10 DEF StopClear, OwnerAt, object, calls, loop, clients
<1>11. CASE StopJoin
  BY <1>type, <1>11 DEF StopJoin, OwnerAt, object, calls, loop, clients
<1>12. CASE Destroy
  BY <1>type, <1>12 DEF Destroy, OwnerAt, object, calls, loop, clients
<1>13. CASE AcceptTest
  BY <1>type, <1>13 DEF AcceptTest, LoopAt, object, calls, loop, clients
<1>14. CASE AcceptLoad
  BY <1>type, <1>14 DEF AcceptLoad, LoopAt, object, calls, loop, clients
<1>15. CASE AcceptEnter
  BY <1>type, <1>15 DEF AcceptEnter, LoopAt, object, calls, loop, clients
<1>16. CASE AcceptTransient
  BY <1>type, <1>16 DEF AcceptTransient, LoopAt, object, calls, loop, clients
<1>17. CASE AcceptFailed
  BY <1>type, <1>17 DEF AcceptFailed, LoopAt, object, calls, loop, clients
<1>18. CASE \E c \in Conn : AcceptTake(c)
  BY <1>type, <1>18 DEF AcceptTake, LoopAt, ClientAt, object, calls, loop, clients
<1>19. ASSUME NEW c \in Conn, AcceptSpawn(c) PROVE ServerInv'
  <2>1. acceptor = "spawn" /\ In("accepted") = {c} /\ wanted[c] = clientHandler
    BY <1>19 DEF AcceptSpawn, LoopAt, ClientAt
  <2>2. CASE /\ conn' = [conn EXCEPT ![c] = "serving"]
             /\ copy' = [copy EXCEPT ![c] = clientHandler]
             /\ acceptor' = "test" /\ UNCHANGED aborted
    <3>1. NoLeakedSocket' /\ NeverAsleepOnDeadSocket' /\ SocketByPhase' /\ LoopByPhase'
      BY <1>19, <2>1, <2>2 DEF AcceptSpawn, object, calls
    <3>2. WaitingAreHeld' /\ ServedByItsHandler'
      BY <1>19, <2>1, <2>2 DEF AcceptSpawn, object, calls
    <3>3. NeverTerminates'
      BY <1>19, <2>2 DEF AcceptSpawn, LoopAt
    <3>. QED
      BY <1>type, <3>1, <3>2, <3>3
  <2>3. CASE /\ ThreadsMayFail
             /\ aborted' = TRUE /\ UNCHANGED <<conn, copy, acceptor>>
    BY <1>type, <1>19, <2>1, <2>3 DEF AcceptSpawn, object, calls
  <2>. QED
    BY <1>19, <2>2, <2>3 DEF AcceptSpawn
<1>20. CASE \E c \in Conn : HandlerCloses(c)
  BY <1>type, <1>20 DEF HandlerCloses, ClientAt, object, calls, loop, clients
<1>21. CASE \E c \in Conn : Connect(c)
  BY <1>type, <1>21 DEF Connect, ClientAt, object, calls, loop, clients
<1>22. CASE UNCHANGED vars
  BY <1>22 DEF vars, object, calls, loop, clients, OwnerPC, AcceptPC, ConnState
<1>. QED
  BY <1>1, <1>2, <1>3, <1>4, <1>5, <1>6, <1>7, <1>8, <1>9, <1>10, <1>11, <1>12, <1>13, <1>14, <1>15, <1>16, <1>17, <1>18, <1>19, <1>20, <1>21, <1>22
     DEF Next, Start, Stop, Accept

\* The invariant the other theorems of this module rest on.
THEOREM ServerInvariant == Spec => []ServerInv
BY InvariantInit, InvariantKept, PTL DEF Spec

-----------------------------------------------------------------------------
(* What follows from it.                                                   *)

\* After stop(), after a start() that threw and after destruction nothing of
\* the server is left: no loop, no descriptor, no connection in limbo.
THEOREM CleanWhenDown == Spec => []DownIsClean
<1>1. ServerInv => DownIsClean
  BY ServerAssumption
  DEF ServerInv, DownIsClean, TypeOK, OwnerPC, StopSteps, NoLeakedSocket, SocketByPhase, LoopByPhase,
      WaitingAreHeld, In
<1>. QED
  BY <1>1, ServerInvariant, PTL

\* No error path of start() and no step of stop() loses a descriptor.
THEOREM NoSocketLeaks == Spec => []NoLeakedSocket
<1>1. ServerInv => NoLeakedSocket
  BY DEF ServerInv
<1>. QED
  BY <1>1, ServerInvariant, PTL

\* While running is set, accept() is only ever called on, and only ever
\* blocks on, the live listening socket.
THEOREM LoopOnLiveSocket == Spec => []LoopHasLiveSocket
<1>1. ServerInv => LoopHasLiveSocket
  BY DEF ServerInv, LoopHasLiveSocket, TypeOK, NoLeakedSocket, NeverAsleepOnDeadSocket,
         SocketByPhase, LoopByPhase
<1>. QED
  BY <1>1, ServerInvariant, PTL

\* stop() never leaves the accept thread asleep on a socket it took down.
THEOREM NoSleepOnDeadSocket == Spec => []NeverAsleepOnDeadSocket
<1>1. ServerInv => NeverAsleepOnDeadSocket
  BY DEF ServerInv
<1>. QED
  BY <1>1, ServerInvariant, PTL

\* A connection's thread runs the handler installed when it arrived.
THEOREM OwnHandler == Spec => []ServedByItsHandler
<1>1. ServerInv => ServedByItsHandler
  BY DEF ServerInv
<1>. QED
  BY <1>1, ServerInvariant, PTL

\* No std::thread is replaced or destroyed while joinable; the process ends
\* in std::terminate() only when acceptLoop() cannot create a thread, and so
\* survives as long as threads can be created.
THEOREM Survives == Spec => []NeverTerminates /\ [](~ThreadsMayFail => ~aborted)
<1>1. ServerInv => NeverTerminates /\ (~ThreadsMayFail => ~aborted)
  BY DEF ServerInv, NeverTerminates
<1>. QED
  BY <1>1, ServerInvariant, PTL

\* Once stop() has returned, nothing begins to be served until start().
THEOREM DownServesNobody == Spec => NoServiceWhileDown
<1>1. ASSUME ServerInv, [Next]_vars, NEW c \in Conn,
             conn[c] # "serving", conn'[c] = "serving"
      PROVE  running \/ owner \in StopSteps
  <2>1. \E d \in Conn : AcceptSpawn(d)
    BY <1>1 DEF Next, Start, Stop, Accept, vars, object, calls, loop, clients, SetHandler,
                StartAgain, SocketFails, StartSocket, BindFails, StartListens, StopBegin,
                StopShutdown, StopClose, StopClear, StopJoin, Destroy, AcceptTest, AcceptLoad,
                AcceptEnter, AcceptTransient, AcceptFailed, AcceptTake, HandlerCloses, Connect,
                ServerInv, TypeOK
  <2>. QED
    BY <1>1, <2>1 DEF AcceptSpawn, LoopAt, ServerInv, LoopByPhase
<1>2. ServerInv /\ [Next]_vars =>
        [\A c \in Conn : conn[c] # "serving" /\ conn'[c] = "serving"
           => running \/ owner \in StopSteps]_vars
  BY <1>1
<1>. QED
  BY <1>2, ServerInvariant, PTL DEF Spec, NoServiceWhileDown

-----------------------------------------------------------------------------
(* stop() returns: it takes at most nine steps of the two threads, and one *)
(* of them can always take the next.                                       *)

LEMMA StopLeftType == TypeOK => StopLeft \in 0 .. 9
BY DEF TypeOK, OwnerPC, StopSteps, AcceptPC, StopLeft, CallLeft, LoopLeft

LEMMA StopNearer ==
  ASSUME ServerInv, owner \in StopSteps, Stop \/ Accept
  PROVE  aborted' \/ StopLeft' < StopLeft
<1>1. ~running /\ (joinable <=> acceptor # "none")
  BY DEF ServerInv, LoopByPhase, StopSteps
<1>2. StopLeft = CallLeft + LoopLeft /\ StopLeft' = CallLeft' + LoopLeft'
  BY DEF StopLeft
<1>3. CallLeft \in 0 .. 4 /\ LoopLeft \in 0 .. 5
  BY DEF CallLeft, LoopLeft
<1>4. CASE Stop
  <2>1. ~StopBegin
    BY DEF StopBegin, OwnerAt, StopSteps
  <2>2. CASE StopShutdown
    <3>1. CallLeft = 4 /\ CallLeft' = 3
      BY <2>2 DEF StopShutdown, OwnerAt, CallLeft
    <3>2. LoopLeft' = LoopLeft \/ LoopLeft' = LoopLeft - 1
      BY <2>2 DEF StopShutdown, LoopLeft
    <3>. QED
      BY <1>2, <1>3, <3>1, <3>2
  <2>3. CASE StopClose \/ StopClear
    <3>1. CallLeft \in 1 .. 4 /\ CallLeft' = CallLeft - 1 /\ LoopLeft' = LoopLeft
      BY <2>3 DEF StopClose, StopClear, OwnerAt, CallLeft, LoopLeft, loop
    <3>. QED
      BY <1>2, <1>3, <3>1
  <2>4. CASE StopJoin
    <3>1. CallLeft = 1 /\ CallLeft' = 0 /\ LoopLeft' = 0
      BY <2>4 DEF StopJoin, OwnerAt, CallLeft, LoopLeft
    <3>. QED
      BY <1>2, <1>3, <3>1
  <2>. QED
    BY <1>4, <2>1, <2>2, <2>3, <2>4 DEF Stop
<1>5. CASE Accept
  <2>1. CallLeft' = CallLeft
    BY <1>5 DEF Accept, AcceptTest, AcceptLoad, AcceptEnter, AcceptTransient, AcceptFailed,
                AcceptTake, AcceptSpawn, calls, CallLeft
  <2>2. aborted' \/ (LoopLeft' < LoopLeft /\ LoopLeft' \in Nat)
    BY <1>1, <1>5 DEF Accept, AcceptTest, AcceptLoad, AcceptEnter, AcceptTransient,
                      AcceptFailed, AcceptTake, AcceptSpawn, LoopAt, LoopLeft
  <2>. QED
    BY <1>2, <1>3, <2>1, <2>2
<1>. QED
  BY <1>4, <1>5

\* Every step of stop() and of the loop it waits for brings its end nearer,
\* which is never more than nine steps away.
THEOREM StopIsBounded == Spec => StopAdvances /\ [](StopLeft \in 0 .. 9)
<1>1. ServerInv /\ [Next]_vars =>
        [(Stop \/ Accept) /\ owner \in StopSteps => aborted' \/ StopLeft' < StopLeft]_vars
  BY StopNearer
<1>2. ServerInv => StopLeft \in 0 .. 9
  BY StopLeftType DEF ServerInv
<1>. QED
  BY <1>1, <1>2, ServerInvariant, PTL DEF Spec, StopAdvances

\* The join never waits for a thread that only a client could wake.
THEOREM StopIsNeverHeld == Spec => []StopCanGoOn
<1>1. ASSUME ServerInv, owner = "join", joinable, acceptor = "blocked" PROVE FALSE
  BY <1>1, ServerAssumption
  DEF ServerInv, NoLeakedSocket, NeverAsleepOnDeadSocket, SocketByPhase
<1>2. ServerInv => StopCanGoOn
  BY <1>1 DEF StopCanGoOn, ServerInv, TypeOK, AcceptPC, LoopByPhase, WaitingAreHeld
<1>. QED
  BY <1>2, ServerInvariant, PTL

-----------------------------------------------------------------------------
(* TcpServer implements ServerContract, whether or not threads can be      *)
(* created.  Each action of TcpServer is an action of the contract under   *)
(* the mapping of TcpServerRefinement, or changes nothing it sees.         *)

\* The mapping of one connection, value by value.
LEMMA ClientMapping ==
  ASSUME NEW c \in Conn
  PROVE  /\ client[c] = ClientOf(conn[c])
         /\ ClientOf("new") = "new" /\ ClientOf("serving") = "serving"
         /\ ClientOf("closed") = "closed" /\ ClientOf("reset") = "dropped"
         /\ ClientOf("queued") = "waiting" /\ ClientOf("accepted") = "waiting"
BY DEF client, ClientOf

LEMMA ContractInit == Init => C!CInit
BY DEF Init, C!CInit, phase, client, ClientOf, StopSteps

\* The contract's phase changes with running and owner only.
LEMMA SamePhase == UNCHANGED <<running, owner>> => phase' = phase
BY DEF phase, StopSteps

LEMMA SameClient == UNCHANGED conn => client' = client
BY DEF client

\* A step that changes neither is invisible to the contract.
LEMMA Invisible == UNCHANGED <<running, owner, conn>> => UNCHANGED C!cvars
BY SamePhase, SameClient DEF C!cvars

LEMMA ContractStep == ServerInv /\ [Next]_vars => [C!CNext]_(C!cvars)
<1>. SUFFICES ASSUME ServerInv, [Next]_vars PROVE [C!CNext]_(C!cvars)
  OBVIOUS
<1>. USE DEF object, calls, loop, clients
<1>1. CASE \/ \E h \in Handler \cup {NoHandler} : SetHandler(h)
           \/ StartAgain \/ SocketFails \/ AcceptTest \/ AcceptLoad \/ AcceptEnter
           \/ AcceptTransient \/ AcceptFailed
  BY <1>1, Invisible DEF SetHandler, StartAgain, SocketFails, AcceptTest, AcceptLoad, AcceptEnter,
                         AcceptTransient, AcceptFailed
<1>2. CASE StartSocket \/ BindFails
  <2>1. phase' = phase
    BY <1>2 DEF StartSocket, BindFails, OwnerAt, phase, StopSteps
  <2>. QED
    BY <1>2, <2>1, SameClient DEF StartSocket, BindFails, C!cvars
<1>3. CASE StartListens
  <2>1. phase = "down" /\ phase' = "up"
    BY <1>3 DEF StartListens, OwnerAt, phase, StopSteps, ServerInv, LoopByPhase
  <2>2. C!Up
    BY <1>3, <2>1, SameClient DEF StartListens, C!Up
  <2>. QED
    BY <2>2 DEF C!CNext
<1>4. CASE StopBegin
  <2>1. phase = "up" /\ phase' = "stopping"
    BY <1>4 DEF StopBegin, OwnerAt, phase, StopSteps
  <2>2. C!BeginStop
    BY <1>4, <2>1, SameClient DEF StopBegin, C!BeginStop
  <2>. QED
    BY <2>2 DEF C!CNext
<1>5. CASE StopShutdown
  <2>1. phase = "stopping" /\ phase' = "stopping"
    BY <1>5 DEF StopShutdown, OwnerAt, phase, StopSteps
  <2>2. client' = [c \in Conn |-> IF c \in In("queued") THEN "dropped" ELSE client[c]]
    BY <1>5, ClientMapping DEF StopShutdown, client, ClientOf, In, ServerInv, TypeOK
  <2>3. CASE In("queued") = {}
    <3>1. client' = client
      BY <2>2, <2>3 DEF client
    <3>. QED
      BY <2>1, <3>1 DEF C!cvars
  <2>4. CASE In("queued") # {}
    <3>1. In("queued") \in SUBSET Conn /\ In("queued") \subseteq C!Waiting
      BY ClientMapping DEF In, C!Waiting
    <3>2. C!Drop(In("queued"))
      BY <2>1, <2>2, <2>4, <3>1 DEF C!Drop
    <3>. QED
      BY <3>1, <3>2 DEF C!CNext
  <2>. QED
    BY <2>3, <2>4
<1>6. CASE StopClose \/ StopClear
  <2>1. phase' = phase
    BY <1>6 DEF StopClose, StopClear, OwnerAt, phase, StopSteps
  <2>. QED
    BY <1>6, <2>1, SameClient DEF StopClose, StopClear, C!cvars
<1>7. CASE StopJoin
  <2>1. phase = "stopping" /\ phase' = "down"
    BY <1>7 DEF StopJoin, OwnerAt, phase, StopSteps, ServerInv, LoopByPhase
  <2>2. In("queued") = {} /\ In("accepted") = {}
    BY <1>7, ServerAssumption
    DEF StopJoin, OwnerAt, ServerInv, TypeOK, NoLeakedSocket, SocketByPhase, LoopByPhase, WaitingAreHeld
  <2>3. C!Waiting = {}
    BY <2>2, ClientMapping DEF C!Waiting, ClientOf, In, ServerInv, TypeOK, ConnState
  <2>4. C!EndStop
    BY <1>7, <2>1, <2>3, SameClient DEF StopJoin, C!EndStop
  <2>. QED
    BY <2>4 DEF C!CNext
<1>8. CASE Destroy
  <2>1. phase = "down" /\ phase' = "gone"
    BY <1>8 DEF Destroy, OwnerAt, phase, StopSteps
  <2>2. C!Gone
    BY <1>8, <2>1, SameClient DEF Destroy, C!Gone
  <2>. QED
    BY <2>2 DEF C!CNext
<1>9. ASSUME NEW c \in Conn, AcceptTake(c) PROVE UNCHANGED C!cvars
  <2>1. client' = client
    BY <1>9 DEF AcceptTake, ClientAt, client, ClientOf, ServerInv, TypeOK
  <2>. QED
    BY <1>9, <2>1, SamePhase DEF AcceptTake, C!cvars
<1>10. ASSUME NEW c \in Conn, AcceptSpawn(c) PROVE [C!CNext]_(C!cvars)
  <2>1. phase' = phase /\ phase \in {"up", "stopping"}
    BY <1>10, SamePhase DEF AcceptSpawn, LoopAt, phase, StopSteps, ServerInv, LoopByPhase
  <2>2. CASE conn' = [conn EXCEPT ![c] = "serving"]
    <3>1. client[c] = "waiting" /\ client' = [client EXCEPT ![c] = "serving"]
      BY <1>10, <2>2 DEF AcceptSpawn, ClientAt, client, ClientOf, ServerInv, TypeOK
    <3>2. C!Serve(c)
      BY <2>1, <3>1 DEF C!Serve
    <3>. QED
      BY <3>2 DEF C!CNext
  <2>3. CASE UNCHANGED conn
    BY <2>1, <2>3, SameClient DEF C!cvars
  <2>. QED
    BY <1>10, <2>2, <2>3 DEF AcceptSpawn
<1>11. ASSUME NEW c \in Conn, HandlerCloses(c) PROVE C!Finish(c)
  <2>1. client[c] = "serving" /\ client' = [client EXCEPT ![c] = "closed"]
    BY <1>11 DEF HandlerCloses, ClientAt, client, ClientOf, ServerInv, TypeOK
  <2>. QED
    BY <1>11, <2>1, SamePhase DEF HandlerCloses, C!Finish
<1>12. ASSUME NEW c \in Conn, Connect(c) PROVE C!Arrive(c)
  <2>1. phase' = phase
    BY <1>12, SamePhase DEF Connect
  <2>2. phase \in {"up", "stopping"}
    BY <1>12, ServerAssumption
    DEF Connect, phase, ServerInv, TypeOK, OwnerPC, StopSteps, NoLeakedSocket, SocketByPhase, LoopByPhase
  <2>3. client[c] = "new" /\ client' = [client EXCEPT ![c] = "waiting"]
    BY <1>12 DEF Connect, ClientAt, client, ClientOf, ServerInv, TypeOK
  <2>. QED
    BY <2>1, <2>2, <2>3 DEF C!Arrive
<1>13. CASE UNCHANGED vars
  BY <1>13, Invisible DEF vars
<1>. QED
  BY <1>1, <1>2, <1>3, <1>4, <1>5, <1>6, <1>7, <1>8, <1>9, <1>10, <1>11, <1>12, <1>13
     DEF Next, Start, Stop, Accept, C!CNext

\* Every behaviour of start(), stop(), the accept loop and the kernel is one
\* ServerContract allows: a stop is over only when nobody waits, only a stop
\* drops clients, and nobody is served while the server is down.
THEOREM Refinement == Spec => ImplementsContract
BY ContractInit, ContractStep, ServerInvariant, PTL DEF Spec, ImplementsContract, C!CSpec
=============================================================================
