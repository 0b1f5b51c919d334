------------------------------ MODULE TcpStream -------------------------------
(***************************************************************************)
(* A TCP connection between a Client and a connection thread of Server, as *)
(* far as send(), recv(), shutdown() and close() observe it (Linux).       *)
(*                                                                         *)
(* A direction is a log: the bytes its sender has handed to the kernel,    *)
(* and, as positions in it, how many have arrived in the receiver's queue  *)
(* and how many of those have been taken.  Bytes arrive in pieces of any   *)
(* size.                                                                   *)
(*                                                                         *)
(* close() with bytes untaken sends a reset, and so does data that comes   *)
(* to a closed socket; what is still on its way then may be lost.  What    *)
(* arrived before a reset can still be taken.  After it one call reports   *)
(* the error, and from then on recv() returns the end of the stream and    *)
(* send() raises SIGPIPE.  A reset that follows the peer's FIN leaves no   *)
(* error for recv(): it is the end of the stream already, and SIGPIPE.     *)
(***************************************************************************)
EXTENDS Naturals, Sequences

CONSTANTS
  Char,    \* the bytes
  Window   \* how many bytes the two kernels hold for one direction

ASSUME StreamAssumption == Window \in Nat \ {0}

VARIABLES
  sent,    \* the bytes each side's send() has taken, in order
  got,     \* how many of its peer's bytes have arrived at each side
  taken,   \* how many of these its recv() has returned
  shut,    \* each side has closed its direction: a FIN follows its last byte
  fin,     \* the peer's FIN has arrived at each side
  sock,    \* each side's socket: open, reset (an error waits), broken, closed
  rst      \* a reset from each side is on its way

stream == <<sent, got, taken, shut, fin, sock, rst>>

Side == {"client", "server"}

Peer(s) == IF s = "client" THEN "server" ELSE "client"

StreamTypeOK ==
  /\ sent \in [Side -> Seq(Char)]
  /\ got \in [Side -> Nat]
  /\ taken \in [Side -> Nat]
  /\ shut \in [Side -> BOOLEAN]
  /\ fin \in [Side -> BOOLEAN]
  /\ sock \in [Side -> {"open", "reset", "broken", "closed"}]
  /\ rst \in [Side -> BOOLEAN]

NoConnection ==
  /\ sent = [s \in Side |-> <<>>]
  /\ got = [s \in Side |-> 0] /\ taken = [s \in Side |-> 0]
  /\ shut = [s \in Side |-> FALSE] /\ fin = [s \in Side |-> FALSE]
  /\ sock = [s \in Side |-> "closed"]
  /\ rst = [s \in Side |-> FALSE]

\* connect() on one side, accept() on the other.
Establish ==
  /\ sent' = [s \in Side |-> <<>>]
  /\ got' = [s \in Side |-> 0] /\ taken' = [s \in Side |-> 0]
  /\ shut' = [s \in Side |-> FALSE] /\ fin' = [s \in Side |-> FALSE]
  /\ sock' = [s \in Side |-> "open"]
  /\ rst' = [s \in Side |-> FALSE]

-----------------------------------------------------------------------------
(* The system calls of side s.                                             *)

Queued(s) == got[s] - taken[s]
Room(s)   == Window - (Len(sent[s]) - taken[Peer(s)])

Accepts(s) == sock[s] = "open" /\ ~shut[s] /\ Room(s) > 0
Raises(s)  == sock[s] = "broken" \/ (sock[s] = "open" /\ shut[s])
AtEnd(s)   == Queued(s) = 0 /\ (fin[s] \/ sock[s] = "broken")
Fails(s)   == Queued(s) = 0 /\ sock[s] = "reset"

\* send() takes the bytes.
Put(s, bytes) ==
  /\ sent' = [sent EXCEPT ![s] = @ \o bytes]
  /\ UNCHANGED <<got, taken, shut, fin, sock, rst>>

\* The next n bytes that recv() returns.
Incoming(s, n) == SubSeq(sent[Peer(s)], taken[s] + 1, taken[s] + n)

Take(s, n) ==
  /\ taken' = [taken EXCEPT ![s] = @ + n]
  /\ UNCHANGED <<sent, got, shut, fin, sock, rst>>

\* send() or recv() has reported the error that waited, if one did.
Report(s) ==
  /\ sock' = [sock EXCEPT ![s] = IF @ = "reset" THEN "broken" ELSE @]
  /\ UNCHANGED <<sent, got, taken, shut, fin, rst>>

ShutWriting(s) ==
  /\ shut' = [shut EXCEPT ![s] = TRUE]
  /\ UNCHANGED <<sent, got, taken, fin, sock, rst>>

\* close(); finFirst when shutdown() has sent the FIN before.
Close(s, finFirst) ==
  LET unread == sock[s] = "open" /\ Queued(s) > 0
  IN  /\ sock' = [sock EXCEPT ![s] = "closed"]
      /\ rst' = [rst EXCEPT ![s] = @ \/ unread]
      /\ shut' = [shut EXCEPT ![s] = @ \/ finFirst \/ ~unread]
      /\ UNCHANGED <<sent, got, taken, fin>>

\* A close() with SO_LINGER, or the end of the process with bytes untaken: a
\* reset and no FIN.
Abort(s) ==
  /\ sock' = [sock EXCEPT ![s] = "closed"]
  /\ rst' = [rst EXCEPT ![s] = TRUE]
  /\ UNCHANGED <<sent, got, taken, shut, fin>>

-----------------------------------------------------------------------------
(* The network brings something to side s.                                 *)

Coming(s) == Len(sent[Peer(s)]) - got[s]

Arrive(s) ==
  /\ sock[s] = "open"
  /\ \E n \in 1 .. Coming(s) : got' = [got EXCEPT ![s] = @ + n]
  /\ UNCHANGED <<sent, taken, shut, fin, sock, rst>>

\* Nobody is there any more.
ArriveClosed(s) ==
  /\ sock[s] = "closed" /\ Coming(s) > 0
  /\ ~rst[s]
  /\ rst' = [rst EXCEPT ![s] = TRUE]
  /\ UNCHANGED <<sent, got, taken, shut, fin, sock>>

ArriveFin(s) ==
  /\ sock[s] = "open"
  /\ shut[Peer(s)] /\ Coming(s) = 0
  /\ ~fin[s]
  /\ fin' = [fin EXCEPT ![s] = TRUE]
  /\ UNCHANGED <<sent, got, taken, shut, sock, rst>>

ArriveReset(s) ==
  /\ sock[s] = "open"
  /\ rst[Peer(s)]
  /\ sock' = [sock EXCEPT ![s] = IF fin[s] THEN "broken" ELSE "reset"]
  /\ UNCHANGED <<sent, got, taken, shut, fin, rst>>

Network(s) == Arrive(s) \/ ArriveClosed(s) \/ ArriveFin(s) \/ ArriveReset(s)
=============================================================================
