----------------------------- MODULE HttpService ------------------------------
(***************************************************************************)
(* The HTTP server program: main() of src/src/HttpServerMain.cpp, which    *)
(* owns one HttpServer (src/src/HttpServer.cpp), the server's accept       *)
(* thread, its detached connection threads, and the signal that ends it.   *)
(*                                                                         *)
(* start(), stop(), acceptLoop() and the destructor of HttpServer are      *)
(* those of Server statement for statement, but for a backlog of 16 and an *)
(* ignored result of setsockopt(), so their steps are the actions of       *)
(* TcpServer; clientHandler is here HttpServer::handler.  What differs are *)
(* the connection threads: they capture this, and handleClient() reads     *)
(* this->handler after it has read the request.  HttpConnection models     *)
(* what such a thread reads and writes.                                    *)
(***************************************************************************)
EXTENDS TcpServerRefinement

CONSTANT Api  \* the handler main() installs: CompressionApi::handle

ASSUME ServiceAssumption == Api \in Handler

VARIABLES
  main,    \* where main() is
  gStop,   \* g_stop
  exited,  \* main() has returned and the process is gone
  thread,  \* where each connection's thread is in handleClient()
  found    \* history: what the thread found in this->handler

program  == <<main, gStop, exited>>
requests == <<thread, found>>
hvars    == <<vars, program, requests>>

ThreadPC == {"none", "reading", "handling", "writing", "done"}

HTypeOK ==
  /\ TypeOK
  /\ main \in {"setHandler", "start", "poll", "stop", "exit"}
  /\ gStop \in BOOLEAN
  /\ exited \in BOOLEAN
  /\ thread \in [Conn -> ThreadPC]
  /\ found \in [Conn -> Handler \cup {NoHandler}]

HInit ==
  /\ Init
  /\ main = "setHandler"
  /\ gStop = FALSE
  /\ exited = FALSE
  /\ thread = [c \in Conn |-> "none"]
  /\ found = [c \in Conn |-> NoHandler]

MainAt(s)      == main = s /\ ~exited
ThreadAt(c, s) == thread[c] = s /\ ~exited /\ ~aborted

-----------------------------------------------------------------------------
(***************************************************************************)
(* Faulty variants, each the slip its comment names.  No specification     *)
(* uses them: put in the place of the action they are named after, they    *)
(* show that the properties can fail.                                      *)
(***************************************************************************)

\* main() starts the server without a handler.
MainStartsAtOnce ==
  /\ MainAt("setHandler")
  /\ main' = "start"
  /\ UNCHANGED <<vars, gStop, exited, requests>>

\* The wait for the signal is left out.
MainDoesNotWait ==
  /\ MainAt("poll")
  /\ main' = "stop"
  /\ UNCHANGED <<vars, gStop, exited, requests>>

-----------------------------------------------------------------------------
(* main()                                                                  *)

MainSetsHandler ==
  /\ MainAt("setHandler")
  /\ SetHandler(Api)
  /\ main' = "start"
  /\ UNCHANGED <<gStop, exited, requests>>

\* server.start(); whatever it throws is caught and main() returns.
MainStarts ==
  /\ MainAt("start")
  /\ Start
  /\ main' = IF owner' = "bind" THEN "start"
             ELSE IF outcome' = "ok" THEN "poll" ELSE "stop"
  /\ UNCHANGED <<gStop, exited, requests>>

\* The 200 ms sleeps, until the flag is seen.
MainPolls ==
  /\ MainAt("poll")
  /\ gStop /\ ~aborted
  /\ main' = "stop"
  /\ UNCHANGED <<vars, gStop, exited, requests>>

\* server.stop(), or after a failed start() the one in ~HttpServer(), which
\* has nothing left to do after the first.
MainStops ==
  /\ MainAt("stop")
  /\ Stop
  /\ UNCHANGED <<program, requests>>

MainDestroys ==
  /\ MainAt("stop")
  /\ Destroy
  /\ main' = "exit"
  /\ UNCHANGED <<gStop, exited, requests>>

\* exit() ends the detached threads with the process.
MainExits ==
  /\ MainAt("exit")
  /\ ~aborted
  /\ exited' = TRUE
  /\ UNCHANGED <<vars, main, gStop, requests>>

\* SIGINT or SIGTERM, once the handlers are installed.
Signal ==
  /\ ~exited /\ ~aborted
  /\ main # "setHandler"
  /\ ~gStop
  /\ gStop' = TRUE
  /\ UNCHANGED <<vars, main, exited, requests>>

-----------------------------------------------------------------------------
(* acceptLoop() and the connection threads.                                *)

LoopTurns ==
  /\ ~exited
  /\ AcceptTest \/ AcceptLoad \/ AcceptEnter \/ AcceptFailed
  /\ UNCHANGED <<program, requests>>

LoopTakes(c) ==
  /\ ~exited
  /\ AcceptTake(c)
  /\ UNCHANGED <<program, requests>>

LoopErrs ==
  /\ ~exited
  /\ AcceptTransient
  /\ UNCHANGED <<program, requests>>

LoopSpawns(c) ==
  /\ ~exited
  /\ AcceptSpawn(c)
  /\ thread' = IF conn'[c] = "serving" THEN [thread EXCEPT ![c] = "reading"] ELSE thread
  /\ UNCHANGED <<program, found>>

\* The request is through and if (handler) res = handler(req) begins.
ThreadCalls(c) ==
  /\ ThreadAt(c, "reading")
  /\ thread' = [thread EXCEPT ![c] = "handling"]
  /\ found' = [found EXCEPT ![c] = clientHandler]
  /\ UNCHANGED <<vars, program>>

\* The request could not be read: the catch block answers.
ThreadRefuses(c) ==
  /\ ThreadAt(c, "reading")
  /\ thread' = [thread EXCEPT ![c] = "writing"]
  /\ UNCHANGED <<vars, program, found>>

ThreadReturns(c) ==
  /\ ThreadAt(c, "handling")
  /\ thread' = [thread EXCEPT ![c] = "writing"]
  /\ UNCHANGED <<vars, program, found>>

ThreadCloses(c) ==
  /\ ThreadAt(c, "writing")
  /\ HandlerCloses(c)
  /\ thread' = [thread EXCEPT ![c] = "done"]
  /\ UNCHANGED <<program, found>>

ClientConnects(c) ==
  /\ ~exited
  /\ Connect(c)
  /\ UNCHANGED <<program, requests>>

-----------------------------------------------------------------------------
Main == \/ MainSetsHandler \/ MainStarts \/ MainPolls
        \/ MainStops \/ MainDestroys \/ MainExits

Thread(c) == ThreadCalls(c) \/ ThreadRefuses(c) \/ ThreadReturns(c) \/ ThreadCloses(c)

HNext ==
  \/ Main
  \/ Signal
  \/ LoopTurns \/ LoopErrs
  \/ \E c \in Conn : LoopTakes(c) \/ LoopSpawns(c) \/ Thread(c) \/ ClientConnects(c)

HSpec == HInit /\ [][HNext]_hvars

(***************************************************************************)
(* main() and the accept thread go on whenever they can; a signal need not *)
(* come, and accept() need neither fail nor take anybody.  What the thread *)
(* of a connection does is up to its client too, and is not asked.         *)
(***************************************************************************)
HFairSpec ==
  /\ HSpec
  /\ WF_hvars(Main)
  /\ WF_hvars(LoopTurns)
  /\ \A c \in Conn : WF_hvars(LoopSpawns(c))

-----------------------------------------------------------------------------
(* Properties.                                                             *)

\* No request meets a server without a handler: "No handler configured." is
\* never answered, because main() installs it before it starts the server
\* and nothing replaces it.
AlwaysConfigured ==
  \A c \in Conn : thread[c] = "handling" => found[c] = Api

\* Until a signal comes the server outlives its connection threads: a
\* start() that failed, at whatever step, has left no thread behind.
AliveUntilSignalled ==
  (\E c \in Conn : thread[c] \in {"reading", "handling", "writing"}) /\ owner = "gone" => gStop

\* A signal ends the program, wherever main() and the accept thread are,
\* however many connections are open and whatever their clients do.
SignalEndsProgram == gStop ~> exited \/ aborted

\* Server.cpp on the same copy: "Copy handler so detached threads don't
\* access `this` after stop/destruction".  HttpServer.cpp copies the handler
\* too, but its threads use this->handler.
NoAccessAfterDestruction ==
  \A c \in Conn : thread[c] = "handling" => owner # "gone"

\* main() and the owner's calls go together.
MainByPhase ==
  /\ main = "setHandler" => owner = "idle" /\ ~running
  /\ main = "start" => owner \in {"idle", "bind"} /\ ~running
  /\ main = "poll" => owner = "idle"
  /\ owner = "gone" <=> main = "exit"
  /\ exited => main = "exit"

\* The handler is there before the first connection, and the threads are
\* those of the connections that were handed out.
ThreadsByPhase ==
  /\ main # "setHandler" => clientHandler = Api
  /\ main \in {"setHandler", "start"} => \A c \in Conn : conn[c] = "new"
  /\ \A c \in Conn : thread[c] = "none" <=> conn[c] \notin {"serving", "closed"}
  /\ main \in {"stop", "exit"} /\ ~gStop =>
       acceptor = "none" /\ \A c \in Conn : thread[c] = "none"

\* The conjunction that every step preserves, beside ServerInv.
ServiceInv ==
  /\ HTypeOK
  /\ MainByPhase
  /\ ThreadsByPhase
  /\ AlwaysConfigured
=============================================================================
