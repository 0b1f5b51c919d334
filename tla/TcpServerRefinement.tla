------------------------- MODULE TcpServerRefinement --------------------------
(***************************************************************************)
(* TcpServer implements ServerContract.  The server is stopping from the   *)
(* first step of stop() to the join; a connection waits until its thread   *)
(* exists, whether the kernel or the accept thread holds it.               *)
(***************************************************************************)
EXTENDS TcpServer

phase ==
  CASE owner = "gone"      -> "gone"
    [] owner \in StopSteps -> "stopping"
    [] OTHER               -> IF running THEN "up" ELSE "down"

ClientOf(s) ==
  CASE s \in {"queued", "accepted"} -> "waiting"
    [] s = "reset"                  -> "dropped"
    [] OTHER                        -> s

client == [c \in Conn |-> ClientOf(conn[c])]

C == INSTANCE ServerContract WITH Client <- Conn

\* Every behaviour of the accept loop, the kernel and stop() is one the
\* contract allows.
ImplementsContract == C!CSpec

\* Every thread that was asked for is there: none could not be created.
ThreadsAreThere == ~aborted /\ (owner = "idle" /\ running => joinable)

\* The contract's promises that take time: as long as threads can be
\* created, stop() returns, for join() never waits for an accept thread that
\* sleeps on, whether or not the handlers of earlier connections ever end; and
\* every connection the kernel queued gets a thread of its own or is reset by
\* stop().
KeepsPromises == []ThreadsAreThere => C!CLive
=============================================================================
