-------------------------- MODULE HttpConnectionProofs -------------------------
(***************************************************************************)
(* What handleClient() guarantees of one connection, for every way TCP can *)
(* cut the stream, every request and all sizes of limits and buffers.      *)
(***************************************************************************)
EXTENDS ConnectionInService, TLAPS

LEMMA HttpInit == Init => HttpInv
<1>. SUFFICES ASSUME Init PROVE HttpInv
  OBVIOUS
<1>1. req \in Request /\ req.hdr \in Nat \ {0} /\ req.total \in Nat
  BY HttpAssumption DEF Init
<1>2. TypeOK
  <2>1. sent \in 0 .. req.total /\ got \in 0 .. sent /\ handled \in Nat \cup {-1}
    BY <1>1 DEF Init
  <2>2. killed \in BOOLEAN /\ answered \in SUBSET {"head", "payload", "400"}
    BY Zenon DEF Init
  <2>3. left \in 0 .. MaxPart /\ unread \in 0 .. Window
    BY HttpAssumption DEF Init
  <2>. QED
    BY <1>1, <2>1, <2>2, <2>3 DEF Init, TypeOK
<1>3. ReadSoFar
  BY <1>1 DEF Init, ReadSoFar, Served
<1>4. WrittenSoFar /\ OneStatusLine
  BY DEF Init, WrittenSoFar, OneStatusLine
<1>5. HandlerSeesDeclaredBody /\ RegularIsServed /\ HeaderLimit
  BY DEF Init, HandlerSeesDeclaredBody, RegularIsServed, HeaderLimit, Served
<1>. QED
  BY <1>2, <1>3, <1>4, <1>5 DEF HttpInv

\* A step that sends nothing keeps what is said of the response, unless it
\* gives up a response that began.
LEMMA NothingWritten ==
  ASSUME HttpInv, UNCHANGED answered,
         left' > 0 <=> pc' \in {"head", "payload", "refuse"},
         pc' \in {"headers", "parse", "body", "dispatch"} =>
           pc \in {"headers", "parse", "body", "dispatch"},
         pc \in {"refuse", "close", "closed"} => pc' \in {"refuse", "close", "closed"},
         peer = "reset" => peer' = "reset",
         pc' = "refuse" => pc \in {"headers", "parse", "body", "refuse"} \/ peer' = "reset"
  PROVE  WrittenSoFar' /\ OneStatusLine'
BY DEF HttpInv, TypeOK, WrittenSoFar, OneStatusLine

\* A piece that send() takes is accounted for, and the thread is behind it.
LEMMA PieceWritten ==
  ASSUME HttpInv, NEW n \in Nat \ {0}, n <= left,
         NEW part \in {"head", "payload", "400"}, Sends(part, n),
         NEW stage \in {"head", "payload", "refuse"}, pc = stage,
         part = IF stage = "refuse" THEN "400" ELSE stage,
         \/ GoesOn(n)
         \/ GoesTo("close")
         \/ stage = "head" /\ Begins("payload")
  PROVE  /\ left' \in 0 .. MaxPart /\ unread' \in 0 .. Window
         /\ answered' \in SUBSET {"head", "payload", "400"}
         /\ pc' \in {stage, "payload", "close"}
         /\ WrittenSoFar' /\ OneStatusLine'
<1>1. /\ left \in 0 .. MaxPart /\ unread \in 0 .. Window /\ answered \in SUBSET {"head", "payload", "400"}
      /\ MaxPart \in Nat \ {0} /\ Window \in Nat \ {0}
  BY HttpAssumption DEF HttpInv, TypeOK
<1>2. /\ unread' = unread + n /\ unread + n <= Window /\ peer # "reset" /\ peer' = peer
      /\ answered' = answered \cup {part}
  BY DEF Sends, client
<1>3. /\ left' \in 0 .. MaxPart
      /\ pc' \in {stage, "payload", "close"}
      /\ left' > 0 <=> pc' \in {"head", "payload", "refuse"}
      /\ stage # "head" => pc' \in {stage, "close"}
  BY <1>1 DEF GoesOn, GoesTo, Begins
<1>4. unread' \in 0 .. Window /\ answered' \in SUBSET {"head", "payload", "400"}
  BY <1>1, <1>2
<1>5. stage = "refuse" => "head" \notin answered
  BY <1>2 DEF HttpInv, WrittenSoFar
<1>6. stage # "refuse" => "400" \notin answered
  BY DEF HttpInv, WrittenSoFar
<1>. QED
  BY <1>2, <1>3, <1>4, <1>5, <1>6 DEF WrittenSoFar, OneStatusLine

LEMMA HttpKept == HttpInv /\ [Next]_vars => HttpInv'
<1>. SUFFICES ASSUME HttpInv, [Next]_vars PROVE HttpInv'
  OBVIOUS
<1>. USE HttpAssumption DEF HttpInv, TypeOK, ReadSoFar, Served, HandlerSeesDeclaredBody, RegularIsServed,
                            HeaderLimit, BodySize, Regular, client, input, output, At,
                            Begins, GoesTo, Throws
<1>. DEFINE Rest == TypeOK' /\ ReadSoFar' /\ HandlerSeesDeclaredBody' /\ RegularIsServed' /\ HeaderLimit'
<1>w. left > 0 <=> pc \in {"head", "payload", "refuse"}
  BY DEF WrittenSoFar
<1>1. CASE \E n \in 1 .. req.total : ClientSends(n)
  <2>1. Rest
    BY <1>1 DEF ClientSends
  <2>. QED
    BY <1>1, <2>1, <1>w, NothingWritten DEF ClientSends
<1>2. CASE ClientShutsDown
  <2>1. Rest
    BY <1>2 DEF ClientShutsDown
  <2>. QED
    BY <1>2, <2>1, <1>w, NothingWritten DEF ClientShutsDown
<1>3. CASE ClientCloses
  <2>1. Rest
    BY <1>3 DEF ClientCloses
  <2>. QED
    BY <1>3, <2>1, <1>w, NothingWritten DEF ClientCloses
<1>4. CASE ClientResets \/ ClosedIsReset
  <2>1. /\ peer' = "reset" /\ err' \in {"reset", "pipe"} /\ unread' = 0
        /\ UNCHANGED <<req, sent, pc, got, handled, left, answered, killed>>
    BY <1>4 DEF ClientResets, ClosedIsReset, Reset
  <2>2. TypeOK'
    BY <2>1
  <2>3. ReadSoFar' /\ HandlerSeesDeclaredBody' /\ RegularIsServed' /\ HeaderLimit'
    BY <2>1
  <2>. QED
    BY <2>1, <2>2, <2>3, <1>w, NothingWritten
<1>5. CASE \E n \in 1 .. HeaderChunk : ReadHeaders(n)
  <2>1. Rest
    BY <1>5 DEF ReadHeaders, Receives
  <2>. QED
    BY <1>5, <2>1, <1>w, NothingWritten DEF ReadHeaders, Receives
<1>6. CASE \E n \in 1 .. BodyChunk : ReadBody(n)
  <2>1. Rest
    BY <1>6 DEF ReadBody, Receives
  <2>. QED
    BY <1>6, <2>1, <1>w, NothingWritten DEF ReadBody, Receives
<1>7. CASE Parse
  <2>1. Rest
    BY <1>7 DEF Parse
  <2>. QED
    BY <1>7, <2>1, <1>w, NothingWritten DEF Parse
<1>8. CASE BodyRead
  <2>1. Rest
    BY <1>8 DEF BodyRead
  <2>. QED
    BY <1>8, <2>1, <1>w, NothingWritten DEF BodyRead
<1>9. CASE Dispatch
  <2>1. Rest
    BY <1>9 DEF Dispatch
  <2>. QED
    BY <1>9, <2>1, <1>w, NothingWritten DEF Dispatch
<1>10. CASE Close
  <2>1. Rest
    BY <1>10 DEF Close
  <2>. QED
    BY <1>10, <2>1, <1>w, NothingWritten DEF Close
<1>11. CASE HeadersFail
  <2>1. CASE EndOfFile
    <3>1. Rest
      BY <1>11, <2>1 DEF HeadersFail, EndOfFile, Drained
    <3>. QED
      BY <1>11, <2>1, <3>1, <1>w, NothingWritten DEF HeadersFail, EndOfFile
  <2>2. CASE RecvFails
    <3>1. Rest
      BY <1>11, <2>2 DEF HeadersFail, RecvFails, Drained
    <3>. QED
      BY <1>11, <2>2, <3>1, <1>w, NothingWritten DEF HeadersFail, RecvFails
  <2>3. CASE got >= HeaderMax /\ UNCHANGED <<client, err, input, output, killed>>
    <3>1. Rest
      BY <1>11, <2>3 DEF HeadersFail
    <3>. QED
      BY <1>11, <2>3, <3>1, <1>w, NothingWritten DEF HeadersFail
  <2>. QED
    BY <1>11, <2>1, <2>2, <2>3 DEF HeadersFail
<1>12. CASE BodyFails
  <2>1. CASE EndOfFile
    <3>1. Rest
      BY <1>12, <2>1 DEF BodyFails, EndOfFile, Drained
    <3>. QED
      BY <1>12, <2>1, <3>1, <1>w, NothingWritten DEF BodyFails, EndOfFile
  <2>2. CASE RecvFails
    <3>1. Rest
      BY <1>12, <2>2 DEF BodyFails, RecvFails, Drained
    <3>. QED
      BY <1>12, <2>2, <3>1, <1>w, NothingWritten DEF BodyFails, RecvFails
  <2>. QED
    BY <1>12, <2>1, <2>2 DEF BodyFails
<1>13. CASE SendHead
  <2>1. ASSUME NEW n \in 1 .. left, Sends("head", n), GoesOn(n) \/ Begins("payload") \/ GoesTo("close")
        PROVE  HttpInv'
    <3>1. n \in Nat \ {0} /\ n <= left /\ pc = "head"
      BY <1>13, <2>1 DEF SendHead
    <3>2. /\ left' \in 0 .. MaxPart /\ unread' \in 0 .. Window
          /\ answered' \in SUBSET {"head", "payload", "400"}
          /\ pc' \in {"head", "payload", "close"}
          /\ WrittenSoFar' /\ OneStatusLine'
      BY <2>1, <3>1, PieceWritten
    <3>3. Rest
      BY <2>1, <3>1, <3>2 DEF Sends
    <3>. QED
      BY <3>2, <3>3
  <2>2. CASE SendFails /\ Throws
    <3>1. Rest
      BY <1>13, <2>2 DEF SendHead, SendFails
    <3>. QED
      BY <1>13, <2>2, <3>1, <1>w, NothingWritten DEF SendHead, SendFails
  <2>3. CASE SendKills
    <3>1. Rest
      BY <1>13, <2>3 DEF SendHead, SendKills
    <3>. QED
      BY <1>13, <2>3, <3>1, <1>w, NothingWritten DEF SendHead, SendKills
  <2>4. pc = "head" => left \in 1 .. left
    BY <1>w
  <2>. QED
    BY <1>13, <2>1, <2>2, <2>3, <2>4 DEF SendHead
<1>14. CASE SendPayload
  <2>1. ASSUME NEW n \in 1 .. left, Sends("payload", n), GoesOn(n) \/ GoesTo("close")
        PROVE  HttpInv'
    <3>1. n \in Nat \ {0} /\ n <= left /\ pc = "payload"
      BY <1>14, <2>1 DEF SendPayload
    <3>2. /\ left' \in 0 .. MaxPart /\ unread' \in 0 .. Window
          /\ answered' \in SUBSET {"head", "payload", "400"}
          /\ pc' \in {"payload", "close"}
          /\ WrittenSoFar' /\ OneStatusLine'
      BY <2>1, <3>1, PieceWritten
    <3>3. Rest
      BY <2>1, <3>1, <3>2 DEF Sends
    <3>. QED
      BY <3>2, <3>3
  <2>2. CASE SendFails /\ Throws
    <3>1. Rest
      BY <1>14, <2>2 DEF SendPayload, SendFails
    <3>. QED
      BY <1>14, <2>2, <3>1, <1>w, NothingWritten DEF SendPayload, SendFails
  <2>3. CASE SendKills
    <3>1. Rest
      BY <1>14, <2>3 DEF SendPayload, SendKills
    <3>. QED
      BY <1>14, <2>3, <3>1, <1>w, NothingWritten DEF SendPayload, SendKills
  <2>4. pc = "payload" => left \in 1 .. left
    BY <1>w
  <2>. QED
    BY <1>14, <2>1, <2>2, <2>3, <2>4 DEF SendPayload
<1>15. CASE Refuse
  <2>1. ASSUME NEW n \in 1 .. left, Sends("400", n), GoesOn(n) \/ GoesTo("close")
        PROVE  HttpInv'
    <3>1. n \in Nat \ {0} /\ n <= left /\ pc = "refuse"
      BY <1>15, <2>1 DEF Refuse
    <3>2. /\ left' \in 0 .. MaxPart /\ unread' \in 0 .. Window
          /\ answered' \in SUBSET {"head", "payload", "400"}
          /\ pc' \in {"refuse", "payload", "close"}
          /\ WrittenSoFar' /\ OneStatusLine'
      BY <2>1, <3>1, PieceWritten
    <3>3. pc' # "payload"
      BY <2>1, <3>1 DEF GoesOn
    <3>4. pc' \in {"refuse", "close"} /\ UNCHANGED <<req, sent, peer, err, got, handled, killed>>
      BY <2>1, <3>2, <3>3 DEF Sends
    <3>5. TypeOK'
      BY <3>2, <3>4
    <3>6. ReadSoFar' /\ HandlerSeesDeclaredBody' /\ RegularIsServed' /\ HeaderLimit'
      BY <3>1, <3>4
    <3>. QED
      BY <3>2, <3>5, <3>6
  <2>2. CASE (SendFails \/ UNCHANGED <<client, err, input, output, killed>>) /\ GoesTo("close")
    <3>1. /\ pc = "refuse" /\ pc' = "close" /\ left' = 0 /\ err' \in {err, "none"}
          /\ UNCHANGED <<req, sent, peer, got, handled, unread, answered, killed>>
      BY <1>15, <2>2 DEF Refuse, SendFails
    <3>2. TypeOK'
      BY <3>1
    <3>3. ReadSoFar' /\ HandlerSeesDeclaredBody' /\ RegularIsServed' /\ HeaderLimit'
      BY <3>1
    <3>. QED
      BY <3>1, <3>2, <3>3, <1>w, NothingWritten
  <2>3. CASE SendKills
    <3>1. Rest
      BY <1>15, <2>3 DEF Refuse, SendKills
    <3>. QED
      BY <1>15, <2>3, <3>1, <1>w, NothingWritten DEF Refuse, SendKills
  <2>4. pc = "refuse" => left \in 1 .. left
    BY <1>w
  <2>. QED
    BY <1>15, <2>1, <2>2, <2>3, <2>4 DEF Refuse
<1>17. CASE \E n \in 1 .. Window : ClientReads(n)
  <2>1. Rest
    BY <1>17 DEF ClientReads
  <2>. QED
    BY <1>17, <2>1, <1>w, NothingWritten DEF ClientReads
<1>16. CASE UNCHANGED vars
  BY <1>16 DEF vars, WrittenSoFar, OneStatusLine
<1>. QED
  BY <1>1, <1>2, <1>3, <1>4, <1>5, <1>6, <1>7, <1>8, <1>9, <1>10, <1>11, <1>12, <1>13, <1>14, <1>15, <1>16, <1>17
     DEF Next, Client, Thread, Reading

THEOREM HttpInvariant == Spec => []HttpInv
BY HttpInit, HttpKept, PTL DEF Spec

-----------------------------------------------------------------------------
(* What follows from it.                                                   *)

\* Every variable stays in its set; in particular the thread never counts
\* more bytes than the client's socket delivered.
THEOREM TypeCorrect == Spec => []TypeOK
<1>1. HttpInv => TypeOK
  BY DEF HttpInv
<1>. QED
  BY <1>1, HttpInvariant, PTL

\* The handler is called with the announced bytes, no more and no fewer,
\* wherever TCP cuts the stream.
THEOREM ExactBody == Spec => []HandlerSeesDeclaredBody
<1>1. HttpInv => HandlerSeesDeclaredBody
  BY DEF HttpInv
<1>. QED
  BY <1>1, HttpInvariant, PTL

\* No cut of the stream makes handleClient() refuse a regular request.
THEOREM CutsDoNotMatter == Spec => []RegularIsServed
<1>1. HttpInv => RegularIsServed
  BY DEF HttpInv
<1>. QED
  BY <1>1, HttpInvariant, PTL

\* Headers beyond the limit plus one read never get through.
THEOREM HeadersBounded == Spec => []HeaderLimit
<1>1. HttpInv => HeaderLimit
  BY DEF HttpInv
<1>. QED
  BY <1>1, HttpInvariant, PTL

\* No client is sent a 400 after the beginning of another response.
THEOREM OneResponse == Spec => []OneStatusLine
<1>1. HttpInv => OneStatusLine
  BY DEF HttpInv
<1>. QED
  BY <1>1, HttpInvariant, PTL

\* A served regular request is closed with everything read.
THEOREM OrderlyClose == Spec => []CloseIsOrderly
<1>1. HttpInv => CloseIsOrderly
  BY HttpAssumption DEF HttpInv, TypeOK, CloseIsOrderly, HandlerSeesDeclaredBody, Regular
<1>. QED
  BY <1>1, HttpInvariant, PTL

-----------------------------------------------------------------------------
(* The thread's steps come to an end.                                      *)

LEMMA StepsLeftType ==
  ASSUME HttpInv
  PROVE  StepsLeft \in 0 .. req.total + 3 * MaxPart + 5
<1>1. /\ req.total \in Nat /\ req.total - got \in 0 .. req.total
      /\ MaxPart \in Nat /\ left \in 0 .. MaxPart
  BY HttpAssumption DEF HttpInv, TypeOK
<1>2. left > 0 => pc \in {"head", "payload", "refuse"}
  BY DEF HttpInv, WrittenSoFar
<1>3. CASE left = 0
  BY <1>1, <1>3 DEF StepsLeft
<1>4. CASE pc \in {"head", "payload", "refuse"}
  BY <1>1, <1>4 DEF StepsLeft
<1>. QED
  BY <1>1, <1>2, <1>3, <1>4

\* What a step of the thread does to what the measure counts.
LEMMA StepKinds ==
  ASSUME HttpInv, Thread
  PROVE  /\ req' = req
         /\ \/ killed'
            \/ /\ got' > got /\ left' = left /\ got' \in Nat
               /\ \/ pc = "headers" /\ pc' \in {"headers", "parse"}
                  \/ pc = "body" /\ pc' = "body"
            \/ got' = got /\ left' < left /\ left' \in Nat /\ pc' = pc
            \/ /\ got' = got /\ left' \in 0 .. MaxPart
               /\ \/ pc \in {"headers", "parse", "body"} /\ pc' = "refuse"
                  \/ pc = "parse" /\ pc' = "body" /\ left' = 0
                  \/ pc = "body" /\ pc' = "dispatch" /\ left' = 0
                  \/ pc = "dispatch" /\ pc' = "head"
                  \/ pc = "head" /\ pc' \in {"payload", "refuse", "close"}
                  \/ pc = "payload" /\ pc' \in {"refuse", "close"}
                  \/ pc = "refuse" /\ pc' = "close" /\ left' = 0
                  \/ pc = "close" /\ pc' = "closed" /\ left' = 0
<1>1. got \in Nat /\ left \in 0 .. MaxPart /\ MaxPart \in Nat
  BY HttpAssumption DEF HttpInv, TypeOK
<1>2. CASE Reading
  BY <1>1, <1>2, HttpAssumption DEF Reading, ReadHeaders, ReadBody, Receives, At, client
<1>3. CASE HeadersFail \/ Parse \/ BodyFails \/ BodyRead \/ Dispatch \/ Close
  BY <1>1, <1>3 DEF HeadersFail, Parse, BodyFails, BodyRead, Dispatch, Close, EndOfFile, RecvFails, At,
                    client, input, Begins, GoesTo, Throws
<1>4. CASE SendHead
  BY <1>1, <1>4 DEF SendHead, Sends, SendFails, SendKills, At, client, input, Begins, GoesTo, GoesOn, Throws
<1>5. CASE SendPayload
  BY <1>1, <1>5 DEF SendPayload, Sends, SendFails, SendKills, At, client, input, Begins, GoesTo, GoesOn, Throws
<1>6. CASE Refuse
  BY <1>1, <1>6 DEF Refuse, Sends, SendFails, SendKills, At, client, input, Begins, GoesTo, GoesOn, Throws
<1>. QED
  BY <1>2, <1>3, <1>4, <1>5, <1>6 DEF Thread

LEMMA StepNearer ==
  ASSUME HttpInv, Thread
  PROVE  killed' \/ StepsLeft' < StepsLeft
<1>1. /\ req.total \in Nat /\ got \in Nat /\ MaxPart \in Nat /\ left \in 0 .. MaxPart
      /\ pc \in {"headers", "parse", "body", "dispatch", "head", "payload", "refuse", "close", "closed"}
      /\ left > 0 <=> pc \in {"head", "payload", "refuse"}
      /\ req' = req
  BY StepKinds, HttpAssumption DEF HttpInv, TypeOK, WrittenSoFar
<1>2. CASE killed'
  BY <1>2
<1>3. CASE /\ got' > got /\ left' = left /\ got' \in Nat
           /\ \/ pc = "headers" /\ pc' \in {"headers", "parse"}
              \/ pc = "body" /\ pc' = "body"
  BY <1>1, <1>3 DEF StepsLeft
<1>4. CASE got' = got /\ left' < left /\ left' \in Nat /\ pc' = pc
  BY <1>1, <1>4 DEF StepsLeft
<1>5. ASSUME got' = got, left' \in 0 .. MaxPart,
             \/ pc \in {"headers", "parse", "body"} /\ pc' = "refuse"
             \/ pc = "parse" /\ pc' = "body" /\ left' = 0
             \/ pc = "body" /\ pc' = "dispatch" /\ left' = 0
             \/ pc = "dispatch" /\ pc' = "head"
             \/ pc = "head" /\ pc' \in {"payload", "refuse", "close"}
             \/ pc = "payload" /\ pc' \in {"refuse", "close"}
             \/ pc = "refuse" /\ pc' = "close" /\ left' = 0
             \/ pc = "close" /\ pc' = "closed" /\ left' = 0
      PROVE  StepsLeft' < StepsLeft
  BY <1>1, <1>5 DEF StepsLeft
<1>. QED
  BY StepKinds, <1>2, <1>3, <1>4, <1>5

\* A thread takes at most five steps besides those that receive or send, and
\* each of these moves a byte at least: it cannot go round.
THEOREM ThreadIsBounded == Spec => ThreadAdvances /\ [](StepsLeft \in 0 .. req.total + 3 * MaxPart + 5)
<1>1. HttpInv /\ [Next]_vars => [Thread => killed' \/ StepsLeft' < StepsLeft]_vars
  BY StepNearer
<1>2. HttpInv => StepsLeft \in 0 .. req.total + 3 * MaxPart + 5
  BY StepsLeftType
<1>. QED
  BY <1>1, <1>2, HttpInvariant, PTL DEF Spec, ThreadAdvances

-----------------------------------------------------------------------------
(* The thread as HttpService sees it.                                      *)

LEMMA ViewValues ==
  /\ threadOf \in {"reading", "handling", "writing", "done"} \/ ~TypeOK
  /\ pc \in {"headers", "parse", "body", "dispatch"} => threadOf = "reading"
  /\ pc = "head" => threadOf = "handling"
  /\ pc \in {"payload", "refuse", "close"} => threadOf = "writing"
  /\ pc = "closed" => threadOf = "done"
BY DEF threadOf, TypeOK

\* The state of the service that a state of the connection stands for.
LEMMA ViewIsServerState == H!ServerInv
<1>1. H!TypeOK
  BY DEF H!TypeOK, H!OwnerPC, H!AcceptPC, H!ConnState
<1>2. H!NoLeakedSocket /\ H!NeverAsleepOnDeadSocket /\ H!SocketByPhase
  BY DEF H!NoLeakedSocket, H!NeverAsleepOnDeadSocket, H!SocketByPhase
<1>3. H!LoopByPhase /\ H!WaitingAreHeld
  BY DEF H!LoopByPhase, H!WaitingAreHeld, H!In
<1>4. H!ServedByItsHandler /\ H!NeverTerminates
  BY DEF H!ServedByItsHandler, H!NeverTerminates
<1>. QED
  BY <1>1, <1>2, <1>3, <1>4 DEF H!ServerInv

LEMMA ViewIsServiceState == ASSUME HttpInv PROVE H!ServiceInv
<1>1. threadOf \in {"reading", "handling", "writing", "done"}
  BY ViewValues DEF HttpInv
<1>2. H!HTypeOK
  BY <1>1, ViewIsServerState DEF H!HTypeOK, H!ServerInv, H!ThreadPC
<1>3. H!MainByPhase
  BY DEF H!MainByPhase
<1>4. H!ThreadsByPhase
  BY <1>1 DEF H!ThreadsByPhase
<1>5. H!AlwaysConfigured
  <2>1. threadOf = "handling" => pc = "head"
    BY DEF threadOf, HttpInv, TypeOK
  <2>2. pc = "head" => Served
    BY DEF HttpInv, ReadSoFar
  <2>. QED
    BY <2>1, <2>2 DEF H!AlwaysConfigured
<1>. QED
  BY <1>2, <1>3, <1>4, <1>5 DEF H!ServiceInv

\* What the service does not see: bytes, and how far a response is.
LEMMA Hidden ==
  ASSUME threadOf' = threadOf, handled' = handled, pc' = "closed" <=> pc = "closed"
  PROVE  UNCHANGED H!hvars
BY DEF H!hvars, H!vars, H!program, H!requests, H!object, H!calls, H!loop, H!clients, Served

LEMMA Calls ==
  ASSUME pc = "dispatch", pc' = "head", handled' # -1
  PROVE  H!ThreadCalls(Me)
<1>1. threadOf = "reading" /\ threadOf' = "handling"
  BY DEF threadOf
<1>. QED
  BY <1>1 DEF H!ThreadCalls, H!ThreadAt, H!vars, H!program, H!object, H!calls, H!loop, H!clients, Served

LEMMA Refuses ==
  ASSUME pc \in {"headers", "parse", "body"}, pc' = "refuse", handled' = handled
  PROVE  H!ThreadRefuses(Me)
<1>1. threadOf = "reading" /\ threadOf' = "writing"
  BY DEF threadOf
<1>. QED
  BY <1>1 DEF H!ThreadRefuses, H!ThreadAt, H!vars, H!program, H!object, H!calls, H!loop, H!clients, Served

LEMMA Returns ==
  ASSUME pc = "head", pc' \in {"payload", "close", "refuse"}, handled' = handled
  PROVE  H!ThreadReturns(Me)
<1>1. threadOf = "handling" /\ threadOf' = "writing"
  BY DEF threadOf
<1>. QED
  BY <1>1 DEF H!ThreadReturns, H!ThreadAt, H!vars, H!program, H!object, H!calls, H!loop, H!clients, Served

LEMMA Closes ==
  ASSUME pc = "close", pc' = "closed", handled' = handled
  PROVE  H!ThreadCloses(Me)
<1>1. threadOf = "writing" /\ threadOf' = "done"
  BY DEF threadOf
<1>2. H!HandlerCloses(Me)
  BY DEF H!HandlerCloses, H!ClientAt, H!object, H!calls, H!loop
<1>. QED
  BY <1>1, <1>2 DEF H!ThreadCloses, H!ThreadAt, H!program, Served

LEMMA ThreadTakesItsSteps ==
  ASSUME HttpInv, [Next]_vars
  PROVE  [H!Thread(Me)]_(H!hvars)
<1>1. CASE Client \/ UNCHANGED vars
  <2>1. pc' = pc /\ handled' = handled
    BY <1>1 DEF Client, ClientSends, ClientShutsDown, ClientReads, ClientCloses, ClientResets,
                    ClosedIsReset, Reset, input, vars
  <2>. QED
    BY <2>1, Hidden DEF threadOf
<1>2. CASE Reading
  <2>1. /\ pc \in {"headers", "body"} /\ pc' \in {"headers", "parse", "body"}
        /\ handled' = handled
    BY <1>2 DEF Reading, ReadHeaders, ReadBody, Receives, At
  <2>2. threadOf' = threadOf
    BY <2>1 DEF threadOf
  <2>. QED
    BY <2>1, <2>2, Hidden
<1>3. CASE HeadersFail \/ Parse \/ BodyFails \/ BodyRead
  <2>1. /\ pc \in {"headers", "parse", "body"} /\ pc' \in {"body", "dispatch", "refuse"}
        /\ handled' = handled
    BY <1>3 DEF HeadersFail, Parse, BodyFails, BodyRead, EndOfFile, RecvFails, At,
                    input, Throws, Begins, GoesTo
  <2>2. CASE pc' = "refuse"
    BY <2>1, <2>2, Refuses DEF H!Thread
  <2>3. CASE pc' # "refuse"
    <3>1. threadOf' = threadOf
      BY <2>1, <2>3 DEF threadOf
    <3>. QED
      BY <2>1, <3>1, Hidden
  <2>. QED
    BY <2>2, <2>3
<1>4. CASE Dispatch
  <2>1. pc = "dispatch" /\ pc' = "head" /\ handled' = BodySize
    BY <1>4 DEF Dispatch, At, Begins
  <2>2. BodySize # -1
    <3>1. got \in Nat /\ req.hdr \in Nat /\ got >= req.hdr
      BY <2>1, HttpAssumption DEF HttpInv, TypeOK, ReadSoFar
    <3>. QED
      BY <3>1 DEF BodySize
  <2>. QED
    BY <2>1, <2>2, Calls DEF H!Thread
<1>5. CASE SendHead
  <2>1. /\ pc = "head" /\ handled' = handled
        /\ pc' \in {"payload", "close", "refuse"} \/ pc' = pc
    BY <1>5 DEF SendHead, Sends, SendFails, SendKills, At, input,
                  Throws, Begins, GoesTo, GoesOn
  <2>2. CASE pc' = pc
    BY <2>1, <2>2, Hidden DEF threadOf
  <2>3. CASE pc' \in {"payload", "close", "refuse"}
    BY <2>1, <2>3, Returns DEF H!Thread
  <2>. QED
    BY <2>1, <2>2, <2>3
<1>6. CASE SendPayload \/ Refuse
  <2>1. /\ pc \in {"payload", "refuse"} /\ handled' = handled
        /\ pc' \in {"payload", "refuse", "close"}
    BY <1>6 DEF SendPayload, Refuse, Sends, SendFails, SendKills, At, input,
                  Throws, Begins, GoesTo, GoesOn
  <2>2. threadOf' = threadOf
    BY <2>1 DEF threadOf
  <2>. QED
    BY <2>1, <2>2, Hidden
<1>7. CASE Close
  <2>1. pc = "close" /\ pc' = "closed" /\ handled' = handled
    BY <1>7 DEF Close, At, GoesTo, input
  <2>. QED
    BY <2>1, Closes DEF H!Thread
<1>. QED
  BY <1>1, <1>2, <1>3, <1>4, <1>5, <1>6, <1>7 DEF Next, Thread

\* What handleClient() does on its socket is, seen from HttpService, a thread
\* of that module: the two models of the thread are one.
THEOREM ThreadIsServiceThread == Spec => IsServiceThread
<1>1. HttpInv => H!ServiceInv /\ H!ServerInv
  BY ViewIsServerState, ViewIsServiceState
<1>2. HttpInv /\ [Next]_vars => [H!Thread(Me)]_(H!hvars)
  BY ThreadTakesItsSteps
<1>. QED
  BY <1>1, <1>2, HttpInvariant, PTL DEF Spec, IsServiceThread
=============================================================================
