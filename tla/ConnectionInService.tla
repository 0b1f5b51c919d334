------------------------- MODULE ConnectionInService --------------------------
(***************************************************************************)
(* HttpConnection and HttpService model one thread twice: the one what it  *)
(* reads and writes, the other when it uses the server object.  Here the   *)
(* first is shown to take the steps of the second: seen from HttpService,  *)
(* handleClient() is a thread of a server that is up, with the handler     *)
(* main() installed and this connection alone.                             *)
(***************************************************************************)
EXTENDS HttpConnection

CONSTANTS
  Me,         \* the connection
  Api,        \* the handler main() installed
  NoHandler   \* the empty std::function

ASSUME ViewAssumption == Api # NoHandler

\* Reading lasts until the handler is called.  Dispatch is the call and its
\* return at once, so the handler is behind the thread when the response is.
threadOf ==
  CASE pc \in {"headers", "parse", "body", "dispatch"} -> "reading"
    [] pc = "head"                                     -> "handling"
    [] pc \in {"payload", "refuse", "close"}           -> "writing"
    [] pc = "closed"                                   -> "done"

\* Descriptor 0 is the listening socket, on which accept() is blocked.
H == INSTANCE HttpService WITH
       Conn <- {Me}, Fd <- {0}, Handler <- {Api}, NoFd <- -1, Backlog <- 16,
       ThreadsMayFail <- FALSE,
       running <- TRUE, serverSocket <- 0, joinable <- TRUE, clientHandler <- Api,
       owner <- "idle", outcome <- "ok", acceptor <- "blocked", fd <- 0,
       lsock <- [f \in {0} |-> "listening"],
       conn <- [c \in {Me} |-> IF pc = "closed" THEN "closed" ELSE "serving"],
       copy <- [c \in {Me} |-> Api], wanted <- [c \in {Me} |-> Api],
       aborted <- FALSE,
       main <- "poll", gStop <- FALSE, exited <- FALSE,
       thread <- [c \in {Me} |-> threadOf],
       found <- [c \in {Me} |-> IF Served THEN Api ELSE NoHandler]

\* Every state of handleClient() is one in which HttpService has such a
\* thread, and every step of it, or of its client, is one of that thread's or
\* is hidden from the service: the handler is called once at most, after the
\* request and never after a refusal, and the socket is closed once.
IsServiceThread == [](H!ServiceInv /\ H!ServerInv) /\ [][H!Thread(Me)]_(H!hvars)
=============================================================================
