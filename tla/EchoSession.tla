----------------------------- MODULE EchoSession ------------------------------
(***************************************************************************)
(* The class Client (src/src/Client.cpp) in the hands of a program that    *)
(* calls connect(), sendData(), receiveData(), shutdownWrite() and         *)
(* disconnect() in any order, against the thread that a Server gives its   *)
(* connection, over TcpStream.                                             *)
(*                                                                         *)
(* The threads run the handlers the repository has: "echo", the default,   *)
(* sends back what one read() returned, "compress" (src/ServerMain.cpp)    *)
(* the run-length stream of it, and "echoAll" reads to the end first.      *)
(*                                                                         *)
(* The program may abort its connection at any moment, as any other TCP    *)
(* client of the server may: it dies, or closes with a reset.              *)
(*                                                                         *)
(* clientSocket is -1 exactly while connected is false, at every call and  *)
(* return.  Calls that change nothing are left out: those of an            *)
(* unconnected client, connect() of a connected one or one that fails,     *)
(* sendData() of no bytes and receiveData(0).  EINTR is a retry.           *)
(***************************************************************************)
EXTENDS TcpStream, FiniteSetsExt

CONSTANTS
  Compress(_),   \* RLECompression::compress
  Message,       \* the arguments of sendData()
  MaxSize,       \* the arguments of receiveData()
  MaxBytes,      \* bound: bytes that are sent on one connection
  ClientBuffer,  \* 4096: most bytes of one recv()
  HandlerBuffer  \* 4096: most bytes of one read() of a handler

Handler == {"echo", "compress", "echoAll"}

ReadsOnce(h) == h # "echoAll"

Reply(h, bytes) == IF h = "compress" THEN Compress(bytes) ELSE bytes

Data == UNION {[1 .. n -> Char] : n \in 0 .. MaxBytes}

ASSUME SessionAssumption ==
  /\ Message \subseteq Seq(Char) /\ MaxSize \subseteq Nat
  /\ MaxBytes \in Nat
  /\ ClientBuffer \in Nat \ {0} /\ HandlerBuffer \in Nat \ {0}
  /\ \A d \in Data :
       /\ Compress(d) \in Seq(Char) /\ Len(Compress(d)) <= 2 * Len(d)
       /\ Compress(d) = <<>> => d = <<>>

\* The kernels hold more than the 8192 bytes of the longest reply to one
\* read(), so that such a handler never waits for its client.
ASSUME ReplyFits == Window >= 2 * HandlerBuffer

VARIABLES
  connected,  \* Client::connected
  call,       \* the client: idle, in sendData() or receiveData(), killed, aborted
  data,       \* sendData()'s argument
  totalSent,  \* sendData()'s counter
  maxSize,    \* receiveData()'s argument
  out,        \* receiveData()'s result so far
  accepted,   \* history: the data sendData() has returned true for
  returned,   \* history: what receiveData() has returned on this connection
  ended,      \* history: why its last call returned
  failed,     \* history: whether a call on this connection has failed
  handler,    \* the kind of the connection's thread
  hpc,        \* where that thread is
  buf         \* the bytes it has read

arguments == <<data, totalSent, maxSize, out>>
history   == <<accepted, returned, ended, failed>>
client    == <<connected, call, arguments, history>>
server    == <<handler, hpc, buf>>
vars      == <<stream, client, server>>

TypeOK ==
  /\ StreamTypeOK
  /\ connected \in BOOLEAN
  /\ call \in {"idle", "send", "recv", "killed", "aborted"}
  /\ data \in Seq(Char) /\ totalSent \in Nat
  /\ maxSize \in Nat /\ out \in Seq(Char)
  /\ accepted \in Seq(Char) /\ returned \in Seq(Char)
  /\ ended \in {"none", "full", "eof", "error"}
  /\ failed \in BOOLEAN
  /\ handler \in Handler
  /\ hpc \in {"none", "read", "send", "close", "done", "killed"}
  /\ buf \in Seq(Char)

Init ==
  /\ NoConnection
  /\ connected = FALSE
  /\ call = "idle"
  /\ data = <<>> /\ totalSent = 0
  /\ maxSize = 0 /\ out = <<>>
  /\ accepted = <<>> /\ returned = <<>> /\ ended = "none" /\ failed = FALSE
  /\ handler = "echo" /\ hpc = "none" /\ buf = <<>>

Calling(c) == call = c /\ (c = "idle" => connected)

\* A call returns; its variables are gone.
Return ==
  /\ call' = "idle"
  /\ data' = <<>> /\ totalSent' = 0
  /\ maxSize' = 0 /\ out' = <<>>

\* What the thread sends; nothing when it has read nothing.
reply == IF buf = <<>> THEN <<>> ELSE Reply(handler, buf)
-----------------------------------------------------------------------------
(* connect(), disconnect() and the destructor, shutdownWrite().            *)

\* The thread of an earlier connection has ended; one that has not no longer
\* meets this client.
Connect(h) ==
  /\ call = "idle" /\ ~connected
  /\ hpc \in {"none", "done"}
  /\ Establish
  /\ connected' = TRUE
  /\ accepted' = <<>> /\ returned' = <<>> /\ ended' = "none" /\ failed' = FALSE
  /\ handler' = h /\ hpc' = "read" /\ buf' = <<>>
  /\ UNCHANGED <<call, arguments>>

Disconnect ==
  /\ Calling("idle")
  /\ Close("client", TRUE)
  /\ connected' = FALSE
  /\ UNCHANGED <<call, arguments, history, server>>

\* On a socket that a reset has torn down it fails and changes nothing, and
\* so may a second call when both sides have closed.
ShutdownWrite ==
  /\ Calling("idle")
  /\ \/ /\ sock["client"] = "open"
        /\ ShutWriting("client")
        /\ UNCHANGED failed
     \/ /\ sock["client"] # "open" \/ (shut["client"] /\ fin["client"])
        /\ failed' = TRUE
        /\ UNCHANGED stream
  /\ UNCHANGED <<connected, call, arguments, accepted, returned, ended, server>>

\* A reset out of the blue, in a call or between two.
ClientAborts ==
  /\ connected
  /\ Abort("client")
  /\ connected' = FALSE /\ call' = "aborted"
  /\ UNCHANGED <<arguments, history, server>>

-----------------------------------------------------------------------------
(* sendData()                                                              *)

SendBegin(m) ==
  /\ Calling("idle")
  /\ m # <<>> /\ Len(sent["client"]) + Len(m) <= MaxBytes
  /\ call' = "send"
  /\ data' = m /\ totalSent' = 0
  /\ UNCHANGED <<stream, connected, maxSize, out, history, server>>

\* After a partial send() the data from its beginning again.
SendSomeAgain(n) ==
  /\ Calling("send") /\ Accepts("client")
  /\ n <= Min({Room("client"), Len(data) - totalSent})
  /\ Put("client", SubSeq(data, 1, n))
  /\ IF totalSent + n < Len(data)
     THEN totalSent' = totalSent + n /\ UNCHANGED <<call, data, maxSize, out, accepted>>
     ELSE accepted' = accepted \o data /\ Return
  /\ UNCHANGED <<connected, returned, ended, failed, server>>

\* totalSent is left where it was.
SendSomeForgets(n) ==
  /\ Calling("send") /\ Accepts("client")
  /\ n <= Min({Room("client"), Len(data) - totalSent})
  /\ Put("client", SubSeq(data, totalSent + 1, totalSent + n))
  /\ IF totalSent + n < Len(data)
     THEN UNCHANGED <<call, arguments, accepted>>
     ELSE accepted' = accepted \o data /\ Return
  /\ UNCHANGED <<connected, returned, ended, failed, server>>

\* One send(), which may take a part.
SendSome(n) ==
  /\ Calling("send") /\ Accepts("client")
  /\ n <= Min({Room("client"), Len(data) - totalSent})
  /\ Put("client", SubSeq(data, totalSent + 1, totalSent + n))
  /\ IF totalSent + n < Len(data)
     THEN totalSent' = totalSent + n /\ UNCHANGED <<call, data, maxSize, out, accepted>>
     ELSE accepted' = accepted \o data /\ Return
  /\ UNCHANGED <<connected, returned, ended, failed, server>>

\* The loop is left and true returned.
SendFailsUnnoticed ==
  /\ Calling("send") /\ sock["client"] = "reset"
  /\ Report("client")
  /\ Return
  /\ accepted' = accepted \o data
  /\ UNCHANGED <<connected, returned, ended, failed, server>>

SendFails ==
  /\ Calling("send") /\ sock["client"] = "reset"
  /\ Report("client")
  /\ Return
  /\ failed' = TRUE
  /\ UNCHANGED <<connected, accepted, returned, ended, server>>

\* SIGPIPE, and the kernel closes the socket.
SendKilled ==
  /\ Calling("send") /\ Raises("client")
  /\ Close("client", FALSE)
  /\ call' = "killed" /\ connected' = FALSE
  /\ UNCHANGED <<arguments, history, server>>

-----------------------------------------------------------------------------
(* receiveData()                                                           *)

ReceiveBegin(k) ==
  /\ Calling("idle")
  /\ k > 0
  /\ call' = "recv"
  /\ maxSize' = k /\ out' = <<>>
  /\ UNCHANGED <<stream, connected, data, totalSent, history, server>>

\* The bytes one recv() returns: what is there, up to what was asked for.
Received == Min({Queued("client"), ClientBuffer, maxSize - Len(out)})

\* Always a full buffer, cut to maxSize in the end.
ReceiveSomeOverreads ==
  /\ Calling("recv") /\ Queued("client") > 0
  /\ LET n    == Min({Queued("client"), ClientBuffer})
         more == out \o Incoming("client", n)
     IN  /\ Take("client", n)
         /\ IF Len(more) < maxSize
            THEN out' = more /\ UNCHANGED <<call, data, totalSent, maxSize, returned, ended>>
            ELSE returned' = returned \o SubSeq(more, 1, maxSize) /\ ended' = "full" /\ Return
  /\ UNCHANGED <<connected, accepted, failed, server>>

\* One recv() of what is there, and the end of the loop when it was enough.
ReceiveSome ==
  /\ Calling("recv") /\ Queued("client") > 0
  /\ LET more == out \o Incoming("client", Received)
     IN  /\ Take("client", Received)
         /\ IF Len(more) < maxSize
            THEN out' = more /\ UNCHANGED <<call, data, totalSent, maxSize, returned, ended>>
            ELSE returned' = returned \o more /\ ended' = "full" /\ Return
  /\ UNCHANGED <<connected, accepted, failed, server>>

ReceiveEnd ==
  /\ Calling("recv") /\ AtEnd("client")
  /\ returned' = returned \o out /\ ended' = "eof"
  /\ Return
  /\ UNCHANGED <<stream, connected, accepted, failed, server>>

\* return {}: what the call had received is lost.
ReceiveFails ==
  /\ Calling("recv") /\ Fails("client")
  /\ Report("client")
  /\ Return
  /\ ended' = "error" /\ failed' = TRUE
  /\ UNCHANGED <<connected, accepted, returned, server>>

-----------------------------------------------------------------------------
(* The connection's thread.                                                *)

\* One read(); a loop that reads to the end goes on.
HandlerReads ==
  /\ hpc = "read" /\ Queued("server") > 0
  /\ LET n == Min({Queued("server"), HandlerBuffer})
     IN  buf' = buf \o Incoming("server", n) /\ Take("server", n)
  /\ hpc' = IF ReadsOnce(handler) THEN "send" ELSE "read"
  /\ UNCHANGED <<client, handler>>

\* return without close() when there is nothing to answer.
HandlerEndsNoClose ==
  /\ hpc = "read" /\ (AtEnd("server") \/ Fails("server"))
  /\ Report("server")
  /\ hpc' = IF buf = <<>> THEN "done" ELSE "send"
  /\ UNCHANGED <<client, handler, buf>>

\* read() returned 0 or -1.
HandlerEnds ==
  /\ hpc = "read" /\ (AtEnd("server") \/ Fails("server"))
  /\ Report("server")
  /\ hpc' = IF buf = <<>> THEN "close" ELSE "send"
  /\ UNCHANGED <<client, handler, buf>>

\* The one send() of the reply goes on while the kernel takes bytes.
HandlerSends(n) ==
  /\ hpc = "send" /\ Accepts("server")
  /\ n <= Min({Room("server"), Len(reply) - Len(sent["server"])})
  /\ Put("server", SubSeq(reply, Len(sent["server"]) + 1, Len(sent["server"]) + n))
  /\ hpc' = IF Len(sent["server"]) + n < Len(reply) THEN "send" ELSE "close"
  /\ UNCHANGED <<client, handler, buf>>

\* It is over before, and its result is ignored.  A call that has taken
\* bytes returns their number, whatever has happened to the socket since.
HandlerSendFails ==
  /\ hpc = "send"
  /\ \/ sock["server"] = "reset"
     \/ sock["server"] = "broken" /\ sent["server"] # <<>>
  /\ Report("server")
  /\ hpc' = "close"
  /\ UNCHANGED <<client, handler, buf>>

\* After a partial send() another, as sendData() does.
HandlerKilledMidway ==
  /\ hpc = "send" /\ sock["server"] = "broken"
  /\ Close("server", FALSE)
  /\ hpc' = "killed"
  /\ UNCHANGED <<client, handler, buf>>

\* A call that has taken nothing raises SIGPIPE, and the process is over.
HandlerKilled ==
  /\ hpc = "send" /\ sock["server"] = "broken" /\ sent["server"] = <<>>
  /\ Close("server", FALSE)
  /\ hpc' = "killed"
  /\ UNCHANGED <<client, handler, buf>>

HandlerCloses ==
  /\ hpc = "close"
  /\ Close("server", FALSE)
  /\ hpc' = "done"
  /\ UNCHANGED <<client, handler, buf>>

-----------------------------------------------------------------------------
Piece == 1 .. Window

InSend    == (\E n \in Piece : SendSome(n)) \/ SendFails \/ SendKilled
InReceive == ReceiveSome \/ ReceiveEnd \/ ReceiveFails

Thread ==
  \/ HandlerReads \/ HandlerEnds
  \/ \E n \in Piece : HandlerSends(n)
  \/ HandlerSendFails \/ HandlerKilled \/ HandlerCloses

Deliver == \E s \in Side : Network(s) /\ UNCHANGED <<client, server>>

Next ==
  \/ \E h \in Handler : Connect(h)
  \/ Disconnect \/ ShutdownWrite \/ ClientAborts
  \/ \E m \in Message : SendBegin(m)
  \/ \E k \in MaxSize : ReceiveBegin(k)
  \/ InSend \/ InReceive
  \/ Thread
  \/ Deliver

Spec == Init /\ [][Next]_vars

(***************************************************************************)
(* A call that can go on goes on, so does the connection's thread, and the *)
(* network brings what was sent.  Nothing obliges the client to call, or   *)
(* to abort.                                                               *)
(***************************************************************************)
FairSpec ==
  /\ Spec
  /\ WF_vars(InSend) /\ WF_vars(InReceive)
  /\ WF_vars(Thread)
  /\ WF_vars(Deliver)

-----------------------------------------------------------------------------
(* Properties.                                                             *)

C == INSTANCE EchoContract WITH
       Service  <- Handler,
       service  <- handler,
       asked    <- sent["client"],
       over     <- shut["client"],
       answer   <- IF sent["server"] = <<>> THEN <<>> ELSE reply,
       received <- returned

\* What receiveData() returns, call after call, is a beginning of the reply
\* to a beginning of what sendData() was given, and for a handler that reads
\* to the end to all of it: nothing is repeated, skipped or made up, through
\* partial sends, partial receives, resets and calls in any order.
ImplementsEcho == C!CSpec

\* When receiveData() meets the end of the stream and no call on this
\* connection has failed, the client has the whole reply, and from a handler
\* that reads to the end the reply to all that sendData() returned true for.
EofMeansWhole ==
  ended = "eof" /\ ~failed =>
    /\ returned = reply
    /\ ReadsOnce(handler) \/ buf = accepted

(***************************************************************************)
(* The inductive invariant.                                                *)
(***************************************************************************)

\* What has arrived and been taken was sent, and a FIN comes last.
Positions ==
  \A s \in Side :
    /\ taken[s] <= got[s] /\ got[s] <= Len(sent[Peer(s)])
    /\ fin[s] => shut[Peer(s)] /\ got[s] = Len(sent[Peer(s)])

\* Who holds a socket, who has reset whom.
Sockets ==
  /\ connected <=> sock["client"] # "closed"
  /\ call \in {"send", "recv"} => connected
  /\ call = "aborted" => ~connected
  /\ hpc \in {"read", "send", "close"} <=> sock["server"] # "closed"
  /\ hpc = "none" => ~connected
  /\ shut["server"] => sock["server"] = "closed"
  /\ \A s \in Side :
       /\ rst[s] => sock[s] = "closed"
       /\ sock[s] \in {"reset", "broken"} => rst[Peer(s)]

\* Its client is gone, and nothing has been or will be sent to it.
Abandoned ==
  call = "aborted" /\ sock["server"] # "open" /\ sent["server"] = <<>>

\* But for an abort, the client resets only who has sent it something.
ServerProgress ==
  /\ hpc = "killed" => Abandoned
  /\ hpc \in {"none", "read"} => sent["server"] = <<>>
  /\ rst["client"] => sent["server"] # <<>> \/ call = "aborted"
  /\ hpc = "send" => buf # <<>> /\ Len(sent["server"]) < Len(reply)
  /\ hpc \in {"close", "done"} => sent["server"] = reply \/ rst["client"]
  /\ hpc \in {"send", "close", "done"} =>
       \/ ReadsOnce(handler)
       \/ fin["server"] /\ taken["server"] = Len(sent["client"])
       \/ Abandoned

\* The bytes of the two directions.
Bytes ==
  /\ buf = SubSeq(sent["client"], 1, taken["server"])
  /\ Len(sent["server"]) <= Len(reply)
  /\ sent["server"] = SubSeq(reply, 1, Len(sent["server"]))

Sending ==
  /\ totalSent <= Len(data)
  /\ Len(sent["client"]) + Len(data) - totalSent <= MaxBytes
  /\ call = "send" =>
       /\ totalSent < Len(data)
       /\ ~failed => sent["client"] = accepted \o SubSeq(data, 1, totalSent)
  /\ call \in {"idle", "recv"} =>
       /\ data = <<>> /\ totalSent = 0
       /\ ~failed => sent["client"] = accepted

\* A receive that failed has lost what it took, and nothing comes after it.
Receiving ==
  /\ call = "recv" => Len(out) < maxSize
  /\ call \notin {"recv", "aborted"} => out = <<>>
  /\ sock["client"] = "broken" => fin["client"] \/ failed
  /\ \/ returned \o out = SubSeq(sent["server"], 1, taken["client"])
     \/ /\ failed /\ out = <<>>
        /\ sock["client"] \in {"broken", "closed"}
        /\ taken["client"] = got["client"]
        /\ Len(returned) <= Len(sent["server"])
        /\ returned = SubSeq(sent["server"], 1, Len(returned))

DataInv ==
  /\ TypeOK /\ Positions /\ Sockets
  /\ ServerProgress /\ Bytes /\ Sending /\ Receiving
  /\ ended = "eof" => fin["client"] \/ failed
  /\ EofMeansWhole

\* A handler that reads once has no more than its buffer to answer, for which
\* there is room.
OneRead ==
  ReadsOnce(handler) => Len(buf) <= HandlerBuffer /\ (hpc = "read" => buf = <<>>)

\* A thread that has ended has told its client, and has told one that may
\* still be sending by a reset.
Farewell ==
  connected /\ hpc = "done" =>
    /\ shut["server"] \/ rst["server"]
    /\ Queued("server") > 0 => rst["server"]

\* A handler that reads once sends on a broken socket only behind a FIN.
BrokenBehindFin ==
  ReadsOnce(handler) /\ hpc \in {"read", "send"} /\ sock["server"] = "broken" =>
    fin["server"]

\* A client that leaves by its own calls, at whatever moment, never raises
\* SIGPIPE in the server: a handler's one send() comes before any byte whose
\* loss could reset its socket.  Only a connection that is aborted can, and
\* while the handler reads once only behind the client's FIN.
OnlyAbortsKill ==
  hpc = "killed" => call = "aborted" /\ (fin["server"] \/ ~ReadsOnce(handler))

EchoInv == DataInv /\ OneRead /\ Farewell /\ BrokenBehindFin /\ OnlyAbortsKill

\* The handler's answer does not wait for the client: it has shut its writing
\* side, or has sent something to a handler that reads once.
AnswerIsDue ==
  \/ shut["client"]
  \/ ReadsOnce(handler) /\ sent["client"] # <<>>

\* Who can go on: the client in its call, the connection's thread, the
\* network towards s.
ClientCanGoOn ==
  \/ call = "send" /\ (Accepts("client") \/ sock["client"] = "reset" \/ Raises("client"))
  \/ call = "recv" /\ (Queued("client") > 0 \/ AtEnd("client") \/ Fails("client"))
ThreadCanGoOn ==
  \/ hpc = "read" /\ (Queued("server") > 0 \/ AtEnd("server") \/ Fails("server"))
  \/ hpc = "send" /\ (Accepts("server") \/ sock["server"] \in {"reset", "broken"})
  \/ hpc = "close"
NetworkCanGoOn(s) ==
  \/ sock[s] = "open" /\ (Coming(s) > 0 \/ (shut[Peer(s)] /\ ~fin[s]) \/ rst[Peer(s)])
  \/ sock[s] = "closed" /\ Coming(s) > 0 /\ ~rst[s]

\* Nobody waits for ever: in such a call there is always one that can go on,
\* with full buffers, partial replies and resets too.
NeverStuck ==
  call = "send" \/ (call = "recv" /\ AnswerIsDue) =>
    ClientCanGoOn \/ ThreadCanGoOn \/ \E s \in Side : NetworkCanGoOn(s)

\* What is still to be done before all three are idle: a byte counts for
\* every stage before it, and a request's byte for the two of its answer.
ToSend   == Len(data) - totalSent
ToAnswer == Len(reply) - Len(sent["server"])
BytesToGo ==
  9 * ToSend + 8 * Coming("server") + 7 * Queued("server")
    + 3 * ToAnswer + 2 * Coming("client") + Queued("client")
CallsToGo ==
  (IF call \in {"send", "recv"} THEN 1 ELSE 0) +
  CASE hpc = "read" -> 3 [] hpc = "send" -> 2 [] hpc = "close" -> 1 [] OTHER -> 0
EventsToGo(s) ==
  (IF fin[s] THEN 0 ELSE 1) + (IF rst[s] THEN 0 ELSE 1) +
  CASE sock[s] = "open" -> 2 [] sock[s] = "reset" -> 1 [] OTHER -> 0
ToGo == BytesToGo + CallsToGo + EventsToGo("client") + EventsToGo("server")

\* And nobody runs in circles: between two calls of the client every step
\* brings the end nearer, however the bytes are cut.
SessionAdvances ==
  [][InSend \/ InReceive \/ Thread \/ Deliver => ToGo' < ToGo]_vars

\* sendData() always returns.  receiveData() does when an answer is due: else
\* client and handler may wait for each other.
CallsReturn ==
  /\ call = "send" ~> call # "send"
  /\ call = "recv" /\ AnswerIsDue ~> call # "recv"

\* Client.cpp on sendData(): "true if all data sent successfully, false
\* otherwise" - it returns.
SendDataReturns == call # "killed"
=============================================================================
