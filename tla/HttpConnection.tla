---------------------------- MODULE HttpConnection ----------------------------
(***************************************************************************)
(* One connection of HttpServer: the detached thread in handleClient()     *)
(* (src/src/HttpServer.cpp) and the client at the other end of a TCP       *)
(* stream.                                                                 *)
(*                                                                         *)
(* Bytes are counted, not represented.  A request is a header of hdr bytes *)
(* that ends with the first "\r\n\r\n", and all in all total bytes that    *)
(* the client means to send; length is the value of Content-Length, 0      *)
(* without that header, BadLength when std::stoul refuses it.  TCP cuts    *)
(* the stream anywhere: a recv() returns any part of what has arrived.     *)
(*                                                                         *)
(* The socket is Linux's: what arrived before a reset is still read; after *)
(* it the first call reports the pending error, the next recv() end of     *)
(* file and the next send() EPIPE with the SIGPIPE that nothing in the     *)
(* program handles.  When the client had sent its FIN before, the reset    *)
(* leaves EPIPE as the error of the first send() already.                  *)
(*                                                                         *)
(* send() has no timeout either: the kernels hold Window bytes that the    *)
(* client has not taken, and a send() that finds no room waits.  A reset   *)
(* that comes while it waits makes it return what it has copied so far;    *)
(* sendAll() goes on from there with the next call.                        *)
(***************************************************************************)
EXTENDS Integers

CONSTANTS
  Request,     \* the requests considered: records of hdr, wellFormed, length, total
  BadLength,   \* a Content-Length that is no number
  HeaderMax,   \* 64 * 1024: no recv() once so many header bytes have been read
  HeaderChunk, \* 1024: most bytes of one recv() of the header
  BodyChunk,   \* 4096: most bytes of one recv() of the body
  MaxPart,     \* bound on the size of a header, a body or a 400 that is sent
  Window       \* bytes on their way to the client, or unread, at most

ASSUME HttpAssumption ==
  /\ HeaderMax \in Nat \ {0}
  /\ HeaderChunk \in Nat \ {0}
  /\ BodyChunk \in Nat \ {0}
  /\ MaxPart \in Nat \ {0}
  /\ Window \in Nat \ {0}
  /\ BadLength \notin Nat
  /\ Request \subseteq [hdr : Nat \ {0}, wellFormed : BOOLEAN,
                        length : Nat \cup {BadLength}, total : Nat]

VARIABLES
  req,      \* the request of this client
  sent,     \* how many of its bytes have arrived at the server's socket
  peer,     \* the client: open, fin (shutdown of its writing side), closed or reset
  err,      \* the socket's pending error
  pc,       \* where handleClient() is
  got,      \* how many bytes the server has received
  left,     \* how much of what it is sending the kernel has not taken yet
  unread,   \* bytes sent that the client has not taken
  handled,  \* history: the body size the handler was called with, or -1
  answered, \* history: what send() has taken at least the first byte of
  killed    \* SIGPIPE ended the process

client == <<req, sent, peer>>
input  == <<got, handled>>
output == <<unread, answered>>
vars   == <<client, err, pc, input, left, output, killed>>

\* What req.body holds once the header has been read: all bytes behind it.
BodySize == got - req.hdr

\* The request arrives whole and is the kind handleClient() is written for.
Regular == /\ req.wellFormed /\ req.length # BadLength
           /\ req.hdr <= HeaderMax
           /\ req.total = req.hdr + req.length

TypeOK ==
  /\ req \in Request
  /\ sent \in 0 .. req.total
  /\ peer \in {"open", "fin", "closed", "reset"}
  /\ err \in {"none", "reset", "pipe"}
  /\ pc \in {"headers", "parse", "body", "dispatch", "head", "payload", "refuse", "close", "closed"}
  /\ got \in 0 .. sent
  /\ left \in 0 .. MaxPart
  /\ unread \in 0 .. Window
  /\ handled \in Nat \cup {-1}
  /\ answered \in SUBSET {"head", "payload", "400"}
  /\ killed \in BOOLEAN

Init ==
  /\ req \in Request
  /\ sent = 0
  /\ peer = "open"
  /\ err = "none"
  /\ pc = "headers"
  /\ got = 0
  /\ left = 0
  /\ unread = 0
  /\ handled = -1
  /\ answered = {}
  /\ killed = FALSE

-----------------------------------------------------------------------------
(* The client.                                                             *)

Connected == pc # "closed" /\ ~killed

ClientSends(n) ==
  /\ Connected
  /\ peer = "open"
  /\ sent + n <= req.total
  /\ sent' = sent + n
  /\ UNCHANGED <<req, peer, err, pc, input, left, output, killed>>

ClientShutsDown ==
  /\ Connected
  /\ peer = "open"
  /\ peer' = "fin"
  /\ UNCHANGED <<req, sent, err, pc, input, left, output, killed>>

\* It takes some of what has been sent; nothing obliges it to.
ClientReads(n) ==
  /\ Connected
  /\ peer \in {"open", "fin"}
  /\ n <= unread
  /\ unread' = unread - n
  /\ UNCHANGED <<client, err, pc, input, left, answered, killed>>

ClientCloses ==
  /\ Connected
  /\ peer \in {"open", "fin"}
  /\ peer' = "closed"
  /\ UNCHANGED <<req, sent, err, pc, input, left, output, killed>>

\* What was on its way to the client is lost.
Reset ==
  /\ peer' = "reset"
  /\ err' = IF peer = "open" THEN "reset" ELSE "pipe"
  /\ unread' = 0
  /\ UNCHANGED <<req, sent, pc, input, left, answered, killed>>

\* The client aborts.
ClientResets ==
  /\ Connected
  /\ peer \in {"open", "fin"}
  /\ Reset

\* What is sent to a socket its owner has closed is answered with a reset.
ClosedIsReset ==
  /\ Connected
  /\ peer = "closed"
  /\ unread > 0
  /\ Reset

-----------------------------------------------------------------------------
(* The socket calls of the thread.                                         *)

At(s) == pc = s /\ ~killed

\* Faulty variant: the whole buffer is appended, not the n bytes received.
ReceivesWholeBuffer(n, limit) ==
  /\ n <= limit
  /\ n <= sent - got
  /\ got' = got + limit
  /\ UNCHANGED <<client, err, handled, left, output, killed>>

\* recv() of at most limit bytes returned n of them.
Receives(n, limit) ==
  /\ n <= limit
  /\ n <= sent - got
  /\ got' = got + n
  /\ UNCHANGED <<client, err, handled, left, output, killed>>

Drained == sent = got

\* recv() returned 0.
EndOfFile ==
  /\ Drained
  /\ peer # "open"
  /\ err # "reset"
  /\ UNCHANGED <<client, err, input, output, killed>>

\* recv() returned -1; the pending error is consumed.
RecvFails ==
  /\ Drained
  /\ err = "reset"
  /\ err' = "none"
  /\ UNCHANGED <<client, input, output, killed>>

\* send() took n bytes more, as many as there was room for.
Sends(what, n) ==
  /\ peer # "reset"
  /\ n <= left
  /\ unread + n <= Window
  /\ unread' = unread + n
  /\ answered' = answered \cup {what}
  /\ UNCHANGED <<client, err, input, killed>>

\* send() returned -1; the pending error is consumed.
SendFails ==
  /\ peer = "reset"
  /\ err = "reset"
  /\ err' = "none"
  /\ UNCHANGED <<client, input, output, killed>>

\* send() raised SIGPIPE.
SendKills ==
  /\ peer = "reset"
  /\ err # "reset"
  /\ killed' = TRUE
  /\ UNCHANGED <<client, err, pc, input, left, output>>

\* The thread gets to send something, or to the end of what it sends.
Begins(s)  == pc' = s /\ left' \in 1 .. MaxPart
GoesTo(s)  == pc' = s /\ left' = 0
GoesOn(n)  == n < left /\ left' = left - n /\ UNCHANGED pc

\* An exception, with the response of the catch block to be sent.
Throws == Begins("refuse")

-----------------------------------------------------------------------------
(***************************************************************************)
(* Faulty variants of the steps below, each the slip its comment names.    *)
(* No specification uses them: put in the place of the action they are     *)
(* named after, they show that the properties can fail.                    *)
(***************************************************************************)

\* The handler is called with what came along with the header.
ParseWithoutBody ==
  /\ At("parse")
  /\ IF req.wellFormed /\ req.length # BadLength THEN GoesTo("dispatch") ELSE Throws
  /\ UNCHANGED <<client, err, input, output, killed>>

\* One recv() for the body instead of a loop.
ReadBodyOnce(n) ==
  /\ At("body")
  /\ BodySize < req.length
  /\ n <= req.length - BodySize
  /\ n <= BodyChunk
  /\ n <= sent - got
  /\ got' = got + n
  /\ IF got' - req.hdr = req.length THEN GoesTo("dispatch") ELSE Throws
  /\ UNCHANGED <<client, err, handled, output, killed>>

\* The end of file is taken for nothing yet, and recv() called again.
BodyFailsOnErrorOnly ==
  /\ At("body")
  /\ BodySize < req.length
  /\ RecvFails
  /\ Throws

\* No comparison with contentLength behind the loop.
BodyReadUnchecked ==
  /\ At("body")
  /\ BodySize >= req.length
  /\ GoesTo("dispatch")
  /\ UNCHANGED <<client, err, input, output, killed>>

\* sendAll() of an empty body, whose send() returns 0.
SendHeadThenNothing ==
  /\ At("head")
  /\ \/ \E n \in 1 .. left : Sends("head", n) /\ GoesOn(n)
     \/ Sends("head", left) /\ (Begins("payload") \/ Throws)
     \/ SendFails /\ Throws
     \/ SendKills

\* A send() that failed is tried again, from the handler on.
SendHeadRetries ==
  /\ At("head")
  /\ \/ \E n \in 1 .. left : Sends("head", n) /\ GoesOn(n)
     \/ Sends("head", left) /\ (Begins("payload") \/ GoesTo("close"))
     \/ SendFails /\ GoesTo("dispatch")
     \/ SendKills

-----------------------------------------------------------------------------
(* readHeaders(), parseRequest(), parseContentLength()                     *)

ReadHeaders(n) ==
  /\ At("headers")
  /\ got < HeaderMax
  /\ Receives(n, HeaderChunk)
  /\ pc' = IF got' >= req.hdr THEN "parse" ELSE "headers"

\* End of file, an error, or more bytes than headers may have.
HeadersFail ==
  /\ At("headers")
  /\ \/ got < HeaderMax /\ (EndOfFile \/ RecvFails)
     \/ got >= HeaderMax /\ UNCHANGED <<client, err, input, output, killed>>
  /\ Throws

Parse ==
  /\ At("parse")
  /\ IF req.wellFormed /\ req.length # BadLength THEN GoesTo("body") ELSE Throws
  /\ UNCHANGED <<client, err, input, output, killed>>

-----------------------------------------------------------------------------
(* The body loop of handleClient() and the check behind it.                *)

ReadBody(n) ==
  /\ At("body")
  /\ BodySize < req.length
  /\ n <= req.length - BodySize
  /\ Receives(n, BodyChunk)
  /\ UNCHANGED pc

\* recv() failed, or the loop broke off with less than was announced.
BodyFails ==
  /\ At("body")
  /\ BodySize < req.length
  /\ EndOfFile \/ RecvFails
  /\ Throws

\* The loop ended by its condition: with all that was announced, or with
\* more, when bytes behind the body came along with the header.
BodyRead ==
  /\ At("body")
  /\ BodySize >= req.length
  /\ IF BodySize # req.length THEN Throws ELSE GoesTo("dispatch")
  /\ UNCHANGED <<client, err, input, output, killed>>

-----------------------------------------------------------------------------
(* The handler and the response.                                           *)

Dispatch ==
  /\ At("dispatch")
  /\ handled' = BodySize
  /\ Begins("head")
  /\ UNCHANGED <<client, err, got, output, killed>>

\* The status line and headers; the handler's response may have no body.
SendHead ==
  /\ At("head")
  /\ \/ \E n \in 1 .. left : Sends("head", n) /\ GoesOn(n)
     \/ Sends("head", left) /\ (Begins("payload") \/ GoesTo("close"))
     \/ SendFails /\ Throws
     \/ SendKills

SendPayload ==
  /\ At("payload")
  /\ \/ \E n \in 1 .. left : Sends("payload", n) /\ GoesOn(n)
     \/ Sends("payload", left) /\ GoesTo("close")
     \/ SendFails /\ Throws
     \/ SendKills

\* The catch block: one send() whose result is ignored.  Once it has taken
\* something, a reset makes it return that much.
Refuse ==
  /\ At("refuse")
  /\ \/ \E n \in 1 .. left : Sends("400", n) /\ GoesOn(n)
     \/ Sends("400", left) /\ GoesTo("close")
     \/ /\ "400" \in answered /\ peer = "reset"
        /\ GoesTo("close")
        /\ UNCHANGED <<client, err, input, output, killed>>
     \/ "400" \notin answered /\ SendFails /\ GoesTo("close")
     \/ "400" \notin answered /\ SendKills

Close ==
  /\ At("close")
  /\ GoesTo("closed")
  /\ UNCHANGED <<client, err, input, output, killed>>

-----------------------------------------------------------------------------
Client == \/ \E n \in 1 .. req.total : ClientSends(n)
          \/ \E n \in 1 .. Window : ClientReads(n)
          \/ ClientShutsDown \/ ClientCloses \/ ClientResets \/ ClosedIsReset

Reading == \/ \E n \in 1 .. HeaderChunk : ReadHeaders(n)
           \/ \E n \in 1 .. BodyChunk : ReadBody(n)

Thread == \/ Reading \/ HeadersFail \/ Parse \/ BodyFails \/ BodyRead
          \/ Dispatch \/ SendHead \/ SendPayload \/ Refuse \/ Close

Next == Client \/ Thread

Spec == Init /\ [][Next]_vars

\* The thread goes on whenever it can: it waits in recv() for a byte or an
\* end, and in send() for room.  The network brings the reset of a client
\* that has closed.  Nothing is asked of the client: it need neither send,
\* nor read, nor leave.
FairSpec == Spec /\ WF_vars(Thread) /\ WF_vars(ClosedIsReset)

-----------------------------------------------------------------------------
(* Safety.                                                                 *)

Served == handled # -1

\* The handler sees exactly the bytes Content-Length announced, however TCP
\* cut the stream, and nothing of what may follow them.
HandlerSeesDeclaredBody ==
  Served => /\ req.wellFormed
            /\ req.length = handled
            /\ got = req.hdr + handled

\* A regular request is refused only if its client went away before the
\* request was through, wherever the stream was cut.
RegularIsServed ==
  pc = "refuse" /\ Regular /\ ~Served => peer # "open" /\ sent < req.total

\* Headers longer than the limit and one read are never accepted, and up to
\* the limit always: in between it depends on how the stream is cut.
HeaderLimit ==
  Served => req.hdr < HeaderMax + HeaderChunk

\* A client is sent one status line: the 400 of the catch block never follows
\* the beginning of a response, although send() can fail anywhere in it.
OneStatusLine ==
  ~({"head", "400"} \subseteq answered)

\* close() comes after everything the client sent of a regular request has
\* been read, so it ends with a FIN and not with a reset that would destroy
\* a response in flight.
CloseIsOrderly ==
  pc = "closed" /\ Served /\ Regular => got = sent

\* HttpServer.cpp: "Best-effort 400 response if parsing fails", its result
\* cast to void: a client that goes away costs the server its connection
\* and nothing else.
SurvivesTheClient == ~killed

(***************************************************************************)
(* The inductive invariant.                                                *)
(***************************************************************************)

\* What has been read and checked at each step of the thread.
ReadSoFar ==
  /\ err # "none" => peer = "reset"
  /\ pc = "headers" => got < req.hdr
  /\ pc \in {"parse", "body", "dispatch", "head", "payload"} =>
       got >= req.hdr /\ req.hdr < HeaderMax + HeaderChunk
  /\ pc \in {"body", "dispatch", "head", "payload"} => req.wellFormed /\ req.length # BadLength
  /\ pc \in {"dispatch", "head", "payload"} => BodySize = req.length
  /\ pc \in {"head", "payload"} => Served
  /\ pc \in {"headers", "parse", "body", "dispatch"} => ~Served
  /\ Served => req.length # BadLength

\* What has been written: a response that began can only fail on a reset.
WrittenSoFar ==
  /\ left > 0 <=> pc \in {"head", "payload", "refuse"}
  /\ pc \in {"headers", "parse", "body", "dispatch"} => answered = {}
  /\ "400" \in answered => pc \in {"refuse", "close", "closed"}
  /\ pc = "refuse" /\ "head" \in answered => peer = "reset"

\* The conjunction that every step preserves.
HttpInv ==
  /\ TypeOK
  /\ ReadSoFar
  /\ WrittenSoFar
  /\ HandlerSeesDeclaredBody
  /\ RegularIsServed
  /\ HeaderLimit
  /\ OneStatusLine

-----------------------------------------------------------------------------
(* Liveness.                                                               *)

\* How many steps the thread has before it at most: one for each byte that
\* recv() may bring and send() may take, and those in between.
StepsLeft ==
  req.total - got + left +
    CASE pc = "headers"  -> 5 + 3 * MaxPart
      [] pc = "parse"    -> 4 + 3 * MaxPart
      [] pc = "body"     -> 3 + 3 * MaxPart
      [] pc = "dispatch" -> 2 + 3 * MaxPart
      [] pc = "head"     -> 1 + 2 * MaxPart
      [] pc = "payload"  -> 1 + MaxPart
      [] pc \in {"refuse", "close"} -> 1
      [] OTHER           -> 0

\* However the stream is cut, however little send() takes at a time and
\* whatever fails, every step of the thread brings its end nearer: no recv()
\* without a byte is tried again, the catch block leads back into nothing,
\* and one request is all it serves.
ThreadAdvances == [][Thread => killed' \/ StepsLeft' < StepsLeft]_vars

Ended == pc = "closed" \/ killed

\* There is no timeout: a thread waits for ever for a client that is silent,
\* or that does not take its response.  But a thread whose client has gone
\* ends, in whatever call it is and however full the window; and if the
\* client goes on making room, so does one whose client has sent all of a
\* regular request, or has shut its writing side.
ThreadEnds ==
  /\ peer \in {"closed", "reset"} ~> Ended
  /\ []<>(unread < Window) =>
       (peer = "fin" \/ (sent = req.total /\ Regular) ~> Ended)
=============================================================================
