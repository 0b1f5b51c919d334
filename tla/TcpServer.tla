------------------------------ MODULE TcpServer ------------------------------
(***************************************************************************)
(* The class Server (src/src/Server.cpp, src/include/Server.h): its        *)
(* owner thread calls start(), stop(), setHandler() and the destructor,    *)
(* start() launches one accept thread, and every accepted connection gets  *)
(* a detached thread of its own.                                           *)
(*                                                                         *)
(* The kernel is modelled as far as the three kinds of threads observe it  *)
(* (Linux): the listening socket behind each descriptor, the connections   *)
(* waiting on it, and who is blocked in accept().  shutdown() of a         *)
(* listening socket resets the waiting connections and wakes a blocked     *)
(* accept() with an error; close() alone wakes nobody.                     *)
(*                                                                         *)
(* running is a std::atomic, serverSocket is not: stop() writes it while   *)
(* the accept thread may read it.  Reading (AcceptLoad) and writing        *)
(* (StopClear) are therefore steps of their own, so the read returns the   *)
(* old value or -1, the two outcomes the build produces.                   *)
(***************************************************************************)
EXTENDS Naturals, FiniteSets

CONSTANTS
  Conn,           \* the client connections that may arrive
  Fd,             \* descriptors the kernel may give a listening socket
  Handler,        \* the handlers setHandler() may install
  NoFd,           \* -1
  NoHandler,      \* the empty std::function: defaultEchoHandler serves
  Backlog,        \* the 8 of listen(serverSocket, 8)
  ThreadsMayFail  \* whether std::thread's constructor may throw

ASSUME ServerAssumption ==
  /\ NoFd \notin Fd
  /\ NoHandler \notin Handler
  /\ Backlog \in Nat \ {0}
  /\ ThreadsMayFail \in BOOLEAN

VARIABLES
  running,        \* Server::running
  serverSocket,   \* Server::serverSocket
  joinable,       \* serverThread.joinable()
  clientHandler,  \* Server::clientHandler
  owner,          \* where the owner thread is: idle, or inside start() / stop()
  outcome,        \* how the last start() ended
  acceptor,       \* where the accept thread is in acceptLoop()
  fd,             \* the descriptor the accept thread passes to accept()
  lsock,          \* kernel: the socket behind each descriptor
  conn,           \* state of each connection
  copy,           \* handlerCopy captured by the connection's thread
  wanted,         \* history: clientHandler when the connection arrived
  aborted         \* std::terminate() ended the process

object  == <<running, serverSocket, joinable, clientHandler>>
calls   == <<owner, outcome>>
loop    == <<acceptor, fd>>
clients == <<conn, copy, wanted>>
vars    == <<object, calls, loop, lsock, clients, aborted>>

StopSteps == {"shutdown", "close", "clear", "join"}
OwnerPC   == {"idle", "bind", "gone"} \cup StopSteps
AcceptPC  == {"none", "test", "load", "call", "blocked", "failed", "spawn", "exited"}
ConnState == {"new", "queued", "accepted", "serving", "closed", "reset"}

In(s) == {c \in Conn : conn[c] = s}

TypeOK ==
  /\ running \in BOOLEAN
  /\ serverSocket \in Fd \cup {NoFd}
  /\ joinable \in BOOLEAN
  /\ clientHandler \in Handler \cup {NoHandler}
  /\ owner \in OwnerPC
  /\ outcome \in {"none", "ok", "threw"}
  /\ acceptor \in AcceptPC
  /\ fd \in Fd \cup {NoFd}
  /\ lsock \in [Fd -> {"free", "open", "listening", "shut"}]
  /\ conn \in [Conn -> ConnState]
  /\ copy \in [Conn -> Handler \cup {NoHandler}]
  /\ wanted \in [Conn -> Handler \cup {NoHandler}]
  /\ aborted \in BOOLEAN

Init ==
  /\ running = FALSE
  /\ serverSocket = NoFd
  /\ joinable = FALSE
  /\ clientHandler = NoHandler
  /\ owner = "idle"
  /\ outcome = "none"
  /\ acceptor = "none"
  /\ fd = NoFd
  /\ lsock = [f \in Fd |-> "free"]
  /\ conn = [c \in Conn |-> "new"]
  /\ copy = [c \in Conn |-> NoHandler]
  /\ wanted = [c \in Conn |-> NoHandler]
  /\ aborted = FALSE

\* Where a thread of the living process is; after std::terminate() nowhere.
OwnerAt(s)     == owner = s /\ ~aborted
LoopAt(s)      == acceptor = s /\ ~aborted
ClientAt(c, s) == conn[c] = s /\ ~aborted

-----------------------------------------------------------------------------
(***************************************************************************)
(* Faulty variants of the actions below, each the slip its comment names.  *)
(* No specification uses them: put in the place of the action they are     *)
(* named after, they show that the properties can fail.                    *)
(***************************************************************************)

\* An error path of start() that forgets close() and the reset to -1.
BindFailsKeepsSocket ==
  /\ OwnerAt("bind")
  /\ owner' = "idle"
  /\ outcome' = "threw"
  /\ UNCHANGED <<object, loop, lsock, clients, aborted>>

\* stop() leaves running set and relies on shutdown() alone.
StopBeginKeepsRunning ==
  /\ OwnerAt("idle")
  /\ running
  /\ owner' = IF serverSocket # NoFd THEN "shutdown" ELSE "join"
  /\ UNCHANGED <<object, outcome, loop, lsock, clients, aborted>>

\* stop() without shutdown(): nobody is woken, nobody waiting is reset.
StopShutdownSkipped ==
  /\ OwnerAt("shutdown")
  /\ lsock' = [lsock EXCEPT ![serverSocket] = "shut"]
  /\ owner' = "close"
  /\ UNCHANGED <<object, outcome, loop, clients, aborted>>

\* 0, a descriptor, for the -1 that means none.
StopClearToZero ==
  /\ OwnerAt("clear")
  /\ serverSocket' = 0
  /\ owner' = "join"
  /\ UNCHANGED <<running, joinable, clientHandler, outcome, loop, lsock, clients, aborted>>

\* detach() for join(): stop() returns while the accept thread goes on.
StopJoinDetaches ==
  /\ OwnerAt("join")
  /\ joinable' = FALSE
  /\ owner' = "idle"
  /\ UNCHANGED <<running, serverSocket, clientHandler, outcome, loop, lsock, clients, aborted>>

\* No join() at all.
StopJoinForgotten ==
  /\ OwnerAt("join")
  /\ owner' = "idle"
  /\ UNCHANGED <<object, outcome, loop, lsock, clients, aborted>>

\* The loop goes back to accept() without a thread for the connection.
AcceptTakeDropped(c) ==
  /\ LoopAt("blocked")
  /\ ClientAt(c, "queued")
  /\ conn' = [conn EXCEPT ![c] = "accepted"]
  /\ acceptor' = "test"
  /\ UNCHANGED <<object, calls, fd, lsock, copy, wanted, aborted>>

\* The connection's thread runs handleClient() on this, as the hint above
\* acceptLoop() has it, and reads clientHandler when it gets to it.
HandlerClosesThroughThis(c) ==
  /\ ClientAt(c, "serving")
  /\ conn' = [conn EXCEPT ![c] = "closed"]
  /\ copy' = [copy EXCEPT ![c] = clientHandler]
  /\ UNCHANGED <<object, calls, loop, lsock, wanted, aborted>>

-----------------------------------------------------------------------------
(* The owner thread: setHandler(), start(), stop(), ~Server().             *)

\* Every caller installs its handler while the server is down.
SetHandler(h) ==
  /\ OwnerAt("idle")
  /\ ~running
  /\ clientHandler' = h
  /\ UNCHANGED <<running, serverSocket, joinable, calls, loop, lsock, clients, aborted>>

\* start() of a running server returns early.
StartAgain ==
  /\ OwnerAt("idle")
  /\ running
  /\ outcome' = "ok"
  /\ UNCHANGED <<object, owner, loop, lsock, clients, aborted>>

\* socket() failed: serverSocket keeps its -1 and start() throws.
SocketFails ==
  /\ OwnerAt("idle")
  /\ ~running
  /\ serverSocket' = NoFd
  /\ outcome' = "threw"
  /\ UNCHANGED <<running, joinable, clientHandler, owner, loop, lsock, clients, aborted>>

StartSocket ==
  /\ OwnerAt("idle")
  /\ ~running
  /\ \E f \in Fd :
       /\ lsock[f] = "free"
       /\ lsock' = [lsock EXCEPT ![f] = "open"]
       /\ serverSocket' = f
  /\ owner' = "bind"
  /\ UNCHANGED <<running, joinable, clientHandler, outcome, loop, clients, aborted>>

\* setsockopt(), bind() or listen() failed: close, reset, throw.
BindFails ==
  /\ OwnerAt("bind")
  /\ lsock' = [lsock EXCEPT ![serverSocket] = "free"]
  /\ serverSocket' = NoFd
  /\ owner' = "idle"
  /\ outcome' = "threw"
  /\ UNCHANGED <<running, joinable, clientHandler, loop, clients, aborted>>

\* listen() succeeded, running is set and the accept thread is launched.
\* Assigning to a joinable std::thread terminates the process.
StartListens ==
  /\ OwnerAt("bind")
  /\ lsock' = [lsock EXCEPT ![serverSocket] = "listening"]
  /\ running' = TRUE
  /\ owner' = "idle"
  /\ \/ /\ joinable' = TRUE
        /\ acceptor' = "test"
        /\ outcome' = "ok"
        /\ aborted' = joinable
     \/ /\ ThreadsMayFail
        /\ outcome' = "threw"
        /\ UNCHANGED <<joinable, acceptor, aborted>>
  /\ UNCHANGED <<serverSocket, clientHandler, fd, clients>>

\* stop() of a server that is not running returns early and changes nothing.
StopBegin ==
  /\ OwnerAt("idle")
  /\ running
  /\ running' = FALSE
  /\ owner' = IF serverSocket # NoFd THEN "shutdown" ELSE "join"
  /\ UNCHANGED <<serverSocket, joinable, clientHandler, outcome, loop, lsock, clients, aborted>>

\* shutdown(SHUT_RDWR): the kernel resets what waits and wakes accept().
StopShutdown ==
  /\ OwnerAt("shutdown")
  /\ lsock' = [lsock EXCEPT ![serverSocket] = "shut"]
  /\ conn' = [c \in Conn |-> IF conn[c] = "queued" THEN "reset" ELSE conn[c]]
  /\ acceptor' = IF acceptor = "blocked" THEN "failed" ELSE acceptor
  /\ owner' = "close"
  /\ UNCHANGED <<object, outcome, fd, copy, wanted, aborted>>

StopClose ==
  /\ OwnerAt("close")
  /\ lsock' = [lsock EXCEPT ![serverSocket] = "free"]
  /\ owner' = "clear"
  /\ UNCHANGED <<object, outcome, loop, clients, aborted>>

StopClear ==
  /\ OwnerAt("clear")
  /\ serverSocket' = NoFd
  /\ owner' = "join"
  /\ UNCHANGED <<running, joinable, clientHandler, outcome, loop, lsock, clients, aborted>>

\* join() waits for acceptLoop() to return; without a thread stop() is done.
StopJoin ==
  /\ OwnerAt("join")
  /\ joinable => acceptor = "exited"
  /\ joinable' = FALSE
  /\ acceptor' = "none"
  /\ fd' = NoFd
  /\ owner' = "idle"
  /\ UNCHANGED <<running, serverSocket, clientHandler, outcome, lsock, clients, aborted>>

\* ~Server() after its stop().  Destroying a joinable std::thread terminates.
Destroy ==
  /\ OwnerAt("idle")
  /\ ~running
  /\ owner' = "gone"
  /\ aborted' = joinable
  /\ UNCHANGED <<object, outcome, loop, lsock, clients>>

-----------------------------------------------------------------------------
(* The accept thread: acceptLoop().                                        *)

AcceptTest ==
  /\ LoopAt("test")
  /\ acceptor' = IF running THEN "load" ELSE "exited"
  /\ UNCHANGED <<object, calls, fd, lsock, clients, aborted>>

\* The unsynchronised read of serverSocket.
AcceptLoad ==
  /\ LoopAt("load")
  /\ fd' = serverSocket
  /\ acceptor' = "call"
  /\ UNCHANGED <<object, calls, lsock, clients, aborted>>

\* accept() resolves its descriptor: it blocks on a listening socket and
\* fails on a closed or shut one, and on -1.
AcceptEnter ==
  /\ LoopAt("call")
  /\ acceptor' = IF fd \in Fd /\ lsock[fd] = "listening" THEN "blocked" ELSE "failed"
  /\ UNCHANGED <<object, calls, fd, lsock, clients, aborted>>

AcceptTake(c) ==
  /\ LoopAt("blocked")
  /\ ClientAt(c, "queued")
  /\ conn' = [conn EXCEPT ![c] = "accepted"]
  /\ acceptor' = "spawn"
  /\ UNCHANGED <<object, calls, fd, lsock, copy, wanted, aborted>>

\* EINTR, ECONNABORTED, EMFILE, ...: accept() returns -1 on a live socket.
AcceptTransient ==
  /\ LoopAt("blocked")
  /\ acceptor' = "failed"
  /\ UNCHANGED <<object, calls, fd, lsock, clients, aborted>>

\* A failed accept() ends the loop only when stop() has cleared running.
AcceptFailed ==
  /\ LoopAt("failed")
  /\ acceptor' = IF running THEN "test" ELSE "exited"
  /\ UNCHANGED <<object, calls, fd, lsock, clients, aborted>>

\* The handler is copied and the detached thread starts.  An exception of
\* std::thread leaves acceptLoop() and terminates the process.
AcceptSpawn(c) ==
  /\ LoopAt("spawn")
  /\ ClientAt(c, "accepted")
  /\ \/ /\ conn' = [conn EXCEPT ![c] = "serving"]
        /\ copy' = [copy EXCEPT ![c] = clientHandler]
        /\ acceptor' = "test"
        /\ UNCHANGED aborted
     \/ /\ ThreadsMayFail
        /\ aborted' = TRUE
        /\ UNCHANGED <<conn, copy, acceptor>>
  /\ UNCHANGED <<object, calls, fd, lsock, wanted>>

-----------------------------------------------------------------------------
(* The detached connection threads and the clients.                        *)

\* The handler, custom or default, closes its socket and the thread ends.
HandlerCloses(c) ==
  /\ ClientAt(c, "serving")
  /\ conn' = [conn EXCEPT ![c] = "closed"]
  /\ UNCHANGED <<object, calls, loop, lsock, copy, wanted, aborted>>

\* A client's connect() completes as soon as the kernel queues it.
Connect(c) ==
  /\ ClientAt(c, "new")
  /\ \E f \in Fd : lsock[f] = "listening"
  /\ Cardinality(In("queued")) < Backlog
  /\ conn' = [conn EXCEPT ![c] = "queued"]
  /\ wanted' = [wanted EXCEPT ![c] = clientHandler]
  /\ UNCHANGED <<object, calls, loop, lsock, copy, aborted>>

-----------------------------------------------------------------------------
Start  == StartAgain \/ SocketFails \/ StartSocket \/ BindFails \/ StartListens
Stop   == StopBegin \/ StopShutdown \/ StopClose \/ StopClear \/ StopJoin
Accept == \/ AcceptTest \/ AcceptLoad \/ AcceptEnter \/ AcceptTransient \/ AcceptFailed
          \/ \E c \in Conn : AcceptTake(c) \/ AcceptSpawn(c)

Next ==
  \/ \E h \in Handler \cup {NoHandler} : SetHandler(h)
  \/ Start
  \/ Stop
  \/ Destroy
  \/ Accept
  \/ \E c \in Conn : HandlerCloses(c) \/ Connect(c)

Spec == Init /\ [][Next]_vars

(***************************************************************************)
(* The owner and the accept thread keep running: a call of start() or      *)
(* stop() that began goes on, and so does the accept loop.  Nothing        *)
(* obliges the owner to call, or a client to connect.  A handler need not  *)
(* end: read() has no timeout, and its client may be silent for ever.      *)
(* accept() may fail, but not for ever while connections wait: strong      *)
(* fairness per connection stands for the kernel's FIFO queue.             *)
(***************************************************************************)
Fairness ==
  /\ WF_vars(BindFails \/ StartListens)
  /\ WF_vars(StopShutdown \/ StopClose \/ StopClear \/ StopJoin)
  /\ WF_vars(AcceptTest \/ AcceptLoad \/ AcceptEnter \/ AcceptFailed)
  /\ \A c \in Conn : SF_vars(AcceptTake(c)) /\ WF_vars(AcceptSpawn(c))

FairSpec == Spec /\ Fairness

-----------------------------------------------------------------------------
(* Safety.                                                                 *)

\* Whenever no call is in progress and the server is down - after stop(),
\* after a start() that threw, after destruction - no accept thread, no open
\* descriptor, no waiting and no half-handed connection is left behind, so
\* that start() may run again (Server::start's error paths, Server::stop).
DownIsClean ==
  owner \in {"idle", "gone"} /\ ~running =>
    /\ acceptor = "none" /\ ~joinable
    /\ serverSocket = NoFd /\ \A f \in Fd : lsock[f] = "free"
    /\ In("queued") = {} /\ In("accepted") = {}

\* No descriptor is ever lost: whatever is open is what serverSocket names,
\* through every failure of start() and every step of stop().
NoLeakedSocket ==
  \A f \in Fd : lsock[f] # "free" => serverSocket = f

\* While running is set, what the accept thread passes to accept() is the
\* live listening socket: stop() lets the socket die only after clearing
\* running, so a loop that sees running again never spins on a dead one.
LoopHasLiveSocket ==
  acceptor \in {"call", "blocked"} /\ running =>
    /\ fd = serverSocket
    /\ fd \in Fd /\ lsock[fd] = "listening"

\* The accept thread is never left asleep in accept() on a socket that
\* stop() has taken down: shutdown() before close() is what wakes it.
NeverAsleepOnDeadSocket ==
  acceptor = "blocked" => fd \in Fd /\ lsock[fd] = "listening"

\* A connection is served by the handler that was installed when it arrived,
\* across restarts with another handler: acceptLoop() hands out a copy, and
\* stop() lets no connection of this life of the server reach the next.
ServedByItsHandler ==
  \A c \in Conn : conn[c] \in {"serving", "closed"} => copy[c] = wanted[c]

\* The process ends in std::terminate() in one place only, acceptLoop() when
\* it cannot create a thread for a connection.  None of the owner's calls
\* ends it, in whatever order they come: a joinable serverThread is neither
\* replaced by start() nor destroyed, because stop() joined it.
NeverTerminates ==
  aborted => ThreadsMayFail /\ acceptor = "spawn" /\ owner # "gone"

\* Once stop() has returned no connection begins to be served until the
\* server listens again, even though older connections still are.
NoServiceWhileDown ==
  [][\A c \in Conn :
       conn[c] # "serving" /\ conn'[c] = "serving" => running \/ owner \in StopSteps]_vars

(***************************************************************************)
(* Why stop() returns: the parts of it that hold of every state and step.  *)
(***************************************************************************)

\* How many steps of its own stop() and, once running is clear, the accept
\* thread have before them at most.
CallLeft ==
  CASE owner = "shutdown" -> 4
    [] owner = "close"    -> 3
    [] owner = "clear"    -> 2
    [] owner = "join"     -> 1
    [] OTHER              -> 0
LoopLeft ==
  CASE acceptor = "load"               -> 5
    [] acceptor = "call"               -> 4
    [] acceptor = "blocked"            -> 3
    [] acceptor \in {"spawn", "failed"} -> 2
    [] acceptor = "test"               -> 1
    [] OTHER                           -> 0
StopLeft == CallLeft + LoopLeft

\* Once stop() has cleared running, every step of it and of the accept thread
\* brings the join nearer, whoever connects and however accept() ends: the
\* loop takes at most one more connection and never starts over.
StopAdvances ==
  [][(Stop \/ Accept) /\ owner \in StopSteps => aborted' \/ StopLeft' < StopLeft]_vars

\* And a next step of the two is always there: join() waits for a thread that
\* can go on by itself, never for one that a client would have to wake.
StopCanGoOn ==
  owner \in StopSteps /\ ~aborted =>
    \/ owner # "join" \/ ~joinable
    \/ acceptor \in {"test", "load", "call", "failed", "exited"}
    \/ acceptor = "spawn" /\ In("accepted") # {}

(***************************************************************************)
(* What the documentation says and the code does not do.                   *)
(***************************************************************************)

\* Server.h: "start() launches an accept loop in a background thread".  A
\* start() that returned normally leaves a running server with its loop.
StartLaunchesLoop ==
  outcome = "ok" /\ owner = "idle" /\ running => acceptor # "none"

(***************************************************************************)
(* The inductive invariant behind them.                                    *)
(***************************************************************************)

\* Where serverSocket and its socket are at every step of start() and stop().
SocketByPhase ==
  /\ owner \in {"idle", "gone"} /\ ~running => serverSocket = NoFd
  /\ owner = "idle" /\ running => serverSocket \in Fd /\ lsock[serverSocket] = "listening"
  /\ owner = "bind" => serverSocket \in Fd /\ lsock[serverSocket] = "open"
  /\ owner = "shutdown" => serverSocket \in Fd /\ lsock[serverSocket] = "listening"
  /\ owner = "close" => serverSocket \in Fd /\ lsock[serverSocket] = "shut"
  /\ owner = "clear" => serverSocket \in Fd /\ lsock[serverSocket] = "free"
  /\ owner = "join" => serverSocket = NoFd

\* serverThread is joinable exactly while acceptLoop() is running or has
\* returned unjoined; it returns only once running is clear, and start() and
\* setHandler() never meet it.
LoopByPhase ==
  /\ running => owner = "idle"
  /\ joinable <=> acceptor # "none"
  /\ acceptor # "none" => running \/ owner \in StopSteps
  /\ acceptor = "exited" => ~running
  /\ acceptor = "call" /\ running => fd = serverSocket

\* A connection waits on a listening socket or is in the accept thread's
\* hand, and the handler it arrived for is still installed.
WaitingAreHeld ==
  /\ In("queued") # {} => \E f \in Fd : lsock[f] = "listening"
  /\ In("accepted") # {} => acceptor = "spawn"
  /\ acceptor = "spawn" => In("accepted") # {}
  /\ \A c, d \in In("accepted") : c = d
  /\ \A c \in In("queued") \cup In("accepted") : wanted[c] = clientHandler

\* The conjunction that every step preserves: the parts above, together
\* with the properties that are inductive only beside them.
ServerInv ==
  /\ TypeOK
  /\ NoLeakedSocket
  /\ NeverAsleepOnDeadSocket
  /\ SocketByPhase
  /\ LoopByPhase
  /\ WaitingAreHeld
  /\ ServedByItsHandler
  /\ NeverTerminates

=============================================================================
