----------------------------- MODULE EchoContract -----------------------------
(***************************************************************************)
(* What a session with a Server promises a Client, without sockets: the    *)
(* bytes the client asks with are answered once, the answer is the reply   *)
(* to a beginning of them, and what the client receives is a beginning of  *)
(* the answer, never anything else.  A service that reads to the end       *)
(* answers only a client that is done asking, and all it asked.            *)
(***************************************************************************)
EXTENDS Naturals, Sequences

CONSTANTS
  Service,      \* the kinds of connection handlers
  ReadsOnce(_), \* whether one read() is all a kind does
  Reply(_, _)   \* what a kind makes of the bytes it has read

VARIABLES
  service,   \* the kind that serves this connection
  asked,     \* the bytes the client has handed over
  over,      \* it will hand over no more
  answer,    \* the service's answer, empty until it is given
  received   \* what the client's calls have returned

cvars == <<service, asked, over, answer, received>>

CInit ==
  /\ service \in Service
  /\ asked = <<>> /\ over = FALSE
  /\ answer = <<>> /\ received = <<>>

Begin ==
  /\ service' \in Service
  /\ asked' = <<>> /\ over' = FALSE
  /\ answer' = <<>> /\ received' = <<>>

Ask ==
  /\ ~over
  /\ Len(asked') > Len(asked)
  /\ asked = SubSeq(asked', 1, Len(asked))
  /\ UNCHANGED <<service, over, answer, received>>

Finish ==
  /\ over' = TRUE
  /\ UNCHANGED <<service, asked, answer, received>>

Answer ==
  /\ answer = <<>>
  /\ \E k \in 1 .. Len(asked) :
       /\ ReadsOnce(service) \/ (over /\ k = Len(asked))
       /\ answer' = Reply(service, SubSeq(asked, 1, k))
  /\ UNCHANGED <<service, asked, over, received>>

Receive ==
  /\ Len(received') > Len(received)
  /\ \E k \in 1 .. Len(answer) : received' = SubSeq(answer, 1, k)
  /\ UNCHANGED <<service, asked, over, answer>>

CNext == Begin \/ Ask \/ Finish \/ Answer \/ Receive

CSpec == CInit /\ [][CNext]_cvars
=============================================================================
