---------------------------- MODULE ServerContract ----------------------------
(***************************************************************************)
(* What Server promises its owner and its clients, without sockets,        *)
(* descriptors, the accept thread or the fields of the object: a server is *)
(* down, up, stopping or gone; a client waits, is served and is closed,    *)
(* or is dropped by a stop.  stop() is over only when nobody waits, and    *)
(* whoever was being served goes on being served after it.                 *)
(***************************************************************************)
CONSTANTS Client

VARIABLES phase, client

cvars == <<phase, client>>

Waiting == {c \in Client : client[c] = "waiting"}

CInit ==
  /\ phase = "down"
  /\ client = [c \in Client |-> "new"]

\* start() succeeded.
Up ==
  /\ phase = "down"
  /\ phase' = "up"
  /\ UNCHANGED client

Arrive(c) ==
  /\ phase \in {"up", "stopping"}
  /\ client[c] = "new"
  /\ client' = [client EXCEPT ![c] = "waiting"]
  /\ UNCHANGED phase

\* A connection accepted before or during a stop is still served.
Serve(c) ==
  /\ phase \in {"up", "stopping"}
  /\ client[c] = "waiting"
  /\ client' = [client EXCEPT ![c] = "serving"]
  /\ UNCHANGED phase

\* Serving is the business of the client's own thread, whatever the phase.
Finish(c) ==
  /\ client[c] = "serving"
  /\ client' = [client EXCEPT ![c] = "closed"]
  /\ UNCHANGED phase

BeginStop ==
  /\ phase = "up"
  /\ phase' = "stopping"
  /\ UNCHANGED client

\* A stop drops, at once, those who wait and have not been accepted.
Drop(S) ==
  /\ phase = "stopping"
  /\ S # {} /\ S \subseteq Waiting
  /\ client' = [c \in Client |-> IF c \in S THEN "dropped" ELSE client[c]]
  /\ UNCHANGED phase

EndStop ==
  /\ phase = "stopping"
  /\ Waiting = {}
  /\ phase' = "down"
  /\ UNCHANGED client

Gone ==
  /\ phase = "down"
  /\ phase' = "gone"
  /\ UNCHANGED client

CNext ==
  \/ Up \/ BeginStop \/ EndStop \/ Gone
  \/ \E c \in Client : Arrive(c) \/ Serve(c) \/ Finish(c)
  \/ \E S \in SUBSET Client : Drop(S)

CSpec == CInit /\ [][CNext]_cvars

\* The promises that take time: a stop ends, and who waits gets a thread or
\* is dropped.  How long a client is served is between it and its handler.
CLive ==
  /\ phase = "stopping" ~> phase = "down"
  /\ \A c \in Client : client[c] = "waiting" ~> client[c] # "waiting"
=============================================================================
