-------------------------- MODULE EchoSessionProofs ---------------------------
EXTENDS EchoSession, SequenceTheorems, TLAPS

-----------------------------------------------------------------------------
(* Sequences and their beginnings.                                         *)

LEMMA PieceTyped ==
  ASSUME NEW S, NEW s \in Seq(S), NEW k \in 0 .. Len(s), NEW n \in 0 .. Len(s) - k
  PROVE  /\ SubSeq(s, k + 1, k + n) \in Seq(S)
         /\ Len(SubSeq(s, k + 1, k + n)) = n
<1>1. \A i \in k + 1 .. k + n : s[i] \in S
  BY ElementOfSeq
<1>. QED
  BY <1>1, SubSeqProperties

LEMMA PrefixTyped ==
  ASSUME NEW S, NEW s \in Seq(S), NEW k \in 0 .. Len(s)
  PROVE  /\ SubSeq(s, 1, k) \in Seq(S)
         /\ Len(SubSeq(s, 1, k)) = k
         /\ \A i \in 1 .. k : SubSeq(s, 1, k)[i] = s[i]
<1>1. \A i \in 1 .. k : s[i] \in S
  BY ElementOfSeq
<1>. QED
  BY <1>1, SubSeqProperties

\* The next piece makes a longer beginning.
LEMMA PrefixExtends ==
  ASSUME NEW S, NEW s \in Seq(S), NEW k \in 0 .. Len(s), NEW n \in 0 .. Len(s) - k
  PROVE  SubSeq(s, 1, k) \o SubSeq(s, k + 1, k + n) = SubSeq(s, 1, k + n)
<1>1. 1 \in 1 .. Len(s) + 1 /\ k \in 0 .. Len(s) /\ k + n \in k .. Len(s)
  OBVIOUS
<1>. QED
  BY <1>1, ConcatAdjacentSubSeq

\* The same behind another sequence.
LEMMA PrefixExtendsAfter ==
  ASSUME NEW S, NEW a \in Seq(S), NEW s \in Seq(S),
         NEW k \in 0 .. Len(s), NEW n \in 0 .. Len(s) - k
  PROVE  (a \o SubSeq(s, 1, k)) \o SubSeq(s, k + 1, k + n) = a \o SubSeq(s, 1, k + n)
<1>. DEFINE p == SubSeq(s, 1, k)
            q == SubSeq(s, k + 1, k + n)
<1>1. p \in Seq(S) /\ q \in Seq(S)
  BY PrefixTyped, PieceTyped
<1>2. p \o q = SubSeq(s, 1, k + n)
  BY PrefixExtends
<1>. HIDE DEF p, q
<1>3. (a \o p) \o q = a \o (p \o q)
  <2>1. ASSUME NEW u \in Seq(S), NEW v \in Seq(S), NEW w \in Seq(S)
        PROVE  (u \o v) \o w = u \o (v \o w)
    BY ConcatAssociative, SMTT(30)
  <2>. QED
    BY <1>1, <2>1, ZenonT(30)
<1>4. (a \o p) \o q = a \o SubSeq(s, 1, k + n)
  BY <1>2, <1>3
<1>. QED
  BY <1>4 DEF p, q

\* What is appended leaves the beginnings alone.
LEMMA PrefixOfLonger ==
  ASSUME NEW S, NEW s \in Seq(S), NEW t \in Seq(S), NEW k \in 0 .. Len(s)
  PROVE  SubSeq(s \o t, 1, k) = SubSeq(s, 1, k)
<1>1. CASE k = 0
  BY <1>1, SubSeqEmpty
<1>2. CASE k # 0
  <2>1. 1 \in 1 .. Len(s) /\ k \in 1 .. Len(s)
    BY <1>2
  <2>. QED
    BY <2>1, SubSeqOfConcat1
<1>. QED
  BY <1>1, <1>2

\* The first part of a beginning is a beginning.
LEMMA LeftIsPrefix ==
  ASSUME NEW S, NEW s \in Seq(S), NEW t \in Seq(S), NEW u \in Seq(S),
         NEW k \in 0 .. Len(u), s \o t = SubSeq(u, 1, k)
  PROVE  Len(s) <= k /\ s = SubSeq(u, 1, Len(s))
<1>1. Len(s) \in Nat /\ Len(t) \in Nat
  OBVIOUS
<1>2. Len(s) <= k
  BY <1>1, ConcatProperties, PrefixTyped
<1>3. \A i \in 1 .. Len(s) : s[i] = u[i]
  <2>. TAKE i \in 1 .. Len(s)
  <2>1. (s \o t)[i] = s[i]
    BY <1>1, ConcatProperties
  <2>2. SubSeq(u, 1, k)[i] = u[i]
    BY <1>1, <1>2, PrefixTyped
  <2>. QED
    BY <2>1, <2>2
<1>4. Len(s) \in 0 .. Len(u)
  BY <1>1, <1>2
<1>5. /\ SubSeq(u, 1, Len(s)) \in Seq(S)
      /\ Len(SubSeq(u, 1, Len(s))) = Len(s)
      /\ \A i \in 1 .. Len(s) : SubSeq(u, 1, Len(s))[i] = u[i]
  BY <1>4, PrefixTyped
<1>. QED
  BY <1>2, <1>3, <1>5, SeqEqual

LEMMA MinIsLeast ==
  ASSUME NEW a \in Int, NEW b \in Int
  PROVE  Min({a, b}) \in {a, b} /\ Min({a, b}) <= a /\ Min({a, b}) <= b
<1>1. \E x \in {a, b} : \A y \in {a, b} : x <= y
  <2>1. CASE a <= b
    BY <2>1
  <2>2. CASE b <= a
    BY <2>2
  <2>. QED
    BY <2>1, <2>2
<1>. QED
  BY <1>1 DEF Min

LEMMA MinOfThree ==
  ASSUME NEW a \in Int, NEW b \in Int, NEW c \in Int
  PROVE  /\ Min({a, b, c}) \in {a, b, c}
         /\ Min({a, b, c}) <= a /\ Min({a, b, c}) <= b /\ Min({a, b, c}) <= c
<1>1. \E x \in {a, b, c} : \A y \in {a, b, c} : x <= y
  <2>1. CASE a <= b /\ a <= c
    BY <2>1
  <2>2. CASE b <= a /\ b <= c
    BY <2>2
  <2>3. CASE c <= a /\ c <= b
    BY <2>3
  <2>. QED
    BY <2>1, <2>2, <2>3
<1>. QED
  BY <1>1 DEF Min

-----------------------------------------------------------------------------
(* The session.                                                            *)

LEMMA Sides ==
  /\ Side = {"client", "server"}
  /\ Peer("client") = "server" /\ Peer("server") = "client"
BY DEF Side, Peer

\* The positions of the two directions are numbers.
LEMMA Numbers ==
  ASSUME DataInv
  PROVE  /\ sent["client"] \in Seq(Char) /\ sent["server"] \in Seq(Char)
         /\ Len(sent["client"]) \in Nat /\ Len(sent["server"]) \in Nat
         /\ got["client"] \in Nat /\ got["server"] \in Nat
         /\ taken["client"] \in Nat /\ taken["server"] \in Nat
         /\ got \in [Side -> Nat] /\ taken \in [Side -> Nat]
BY Sides DEF DataInv, TypeOK, StreamTypeOK

\* What a thread has read has a reply, and it is not empty.
LEMMA ReplyTyped ==
  ASSUME NEW h \in Handler, NEW b \in Seq(Char), Len(b) <= MaxBytes
  PROVE  /\ Reply(h, b) \in Seq(Char)
         /\ b # <<>> => Reply(h, b) # <<>>
         /\ Len(Reply(h, b)) <= 2 * Len(b)
<1>1. b \in [1 .. Len(b) -> Char] /\ Len(b) \in 0 .. MaxBytes
  BY LenProperties, SessionAssumption
<1>2. b \in Data
  BY <1>1 DEF Data
<1>. QED
  BY <1>2, SessionAssumption DEF Reply

\* What is sent stays within the bound, and so has a reply.
LEMMA ReplyOfBuffer ==
  ASSUME DataInv
  PROVE  /\ Len(sent["client"]) <= MaxBytes
         /\ Len(buf) = taken["server"]
         /\ reply \in Seq(Char)
         /\ buf # <<>> => reply # <<>>
<1>1. Len(sent["client"]) <= MaxBytes
  BY SessionAssumption DEF DataInv, TypeOK, StreamTypeOK, Side, Sending
<1>2. taken["server"] \in 0 .. Len(sent["client"])
  BY Sides DEF DataInv, TypeOK, StreamTypeOK, Positions
<1>3. Len(buf) = taken["server"]
  BY <1>2, PrefixTyped, Sides DEF DataInv, TypeOK, StreamTypeOK, Bytes
<1>4. Len(buf) <= MaxBytes
  BY <1>1, <1>2, <1>3, SessionAssumption, Sides DEF DataInv, TypeOK, StreamTypeOK
<1>. QED
  BY <1>1, <1>3, <1>4, ReplyTyped, EmptySeq DEF DataInv, TypeOK, reply

-----------------------------------------------------------------------------
(* Every action keeps the invariant: calls of the client.                  *)

LEMMA InitKeeps ==
  ASSUME Init
  PROVE  DataInv
<1>1. /\ sent["client"] = <<>> /\ sent["server"] = <<>> /\ reply = <<>>
      /\ Len(<<>>) = 0 /\ <<>> \in Seq(Char)
  BY EmptySeq DEF Init, NoConnection, Side, reply
<1>2. SubSeq(<<>>, 1, 0) = <<>> /\ <<>> \o <<>> = <<>>
  BY SubSeqEmpty, ConcatEmptySeq, EmptySeq
<1>3. TypeOK
  BY <1>1 DEF Init, NoConnection, TypeOK, StreamTypeOK, Handler, Side
<1>. QED
  BY <1>1, <1>2, <1>3, SessionAssumption
     DEF Init, NoConnection, DataInv, Positions, Sockets, ServerProgress, Abandoned, Bytes, Sending,
         Receiving, EofMeansWhole, ReadsOnce, Side, Peer

LEMMA ConnectKeeps ==
  ASSUME DataInv, NEW h \in Handler, Connect(h)
  PROVE  DataInv'
<1>1. /\ sent'["client"] = <<>> /\ sent'["server"] = <<>> /\ reply' = <<>>
      /\ Len(<<>>) = 0 /\ <<>> \in Seq(Char)
  BY EmptySeq DEF Connect, Establish, Side, reply
<1>2. SubSeq(<<>>, 1, 0) = <<>> /\ <<>> \o <<>> = <<>>
  BY SubSeqEmpty, ConcatEmptySeq, EmptySeq
<1>3. TypeOK'
  BY <1>1 DEF Connect, Establish, arguments, DataInv, TypeOK, StreamTypeOK, Side
<1>4. data = <<>> /\ totalSent = 0 /\ out = <<>> /\ call = "idle"
  BY DEF DataInv, Connect, Sending, Receiving
<1>. QED
  BY <1>1, <1>2, <1>3, <1>4, SessionAssumption
     DEF Connect, Establish, arguments, DataInv, Positions, Sockets, ServerProgress, Abandoned, Bytes,
         Sending, Receiving, EofMeansWhole, Side, Peer

LEMMA DisconnectKeeps ==
  ASSUME DataInv, Disconnect
  PROVE  DataInv'
<1>. USE DEF Disconnect, Close, arguments, history, server
<1>1. TypeOK'
  BY Sides DEF DataInv, TypeOK, StreamTypeOK, Calling
<1>2. Positions'
  BY <1>1, Sides DEF DataInv, TypeOK, StreamTypeOK, Positions
<1>3. call = "idle" /\ connected /\ sock["client"] # "closed"
  BY DEF DataInv, Calling, Sockets
<1>4. got["client"] > 0 => sent["server"] # <<>>
  BY Sides, EmptySeq DEF DataInv, Positions, TypeOK, StreamTypeOK
<1>5. Sockets'
  BY <1>3, Sides DEF DataInv, TypeOK, StreamTypeOK, Sockets
<1>6. ServerProgress'
  BY <1>3, <1>4, Sides DEF DataInv, TypeOK, StreamTypeOK, ServerProgress, Abandoned, Queued, reply
<1>7. Bytes' /\ Sending'
  BY DEF DataInv, Bytes, Sending, reply
<1>8. Receiving'
  BY <1>3, Sides DEF DataInv, TypeOK, StreamTypeOK, Receiving
<1>. QED
  BY <1>1, <1>2, <1>5, <1>6, <1>7, <1>8 DEF DataInv, EofMeansWhole, reply

LEMMA ShutdownWriteKeeps ==
  ASSUME DataInv, ShutdownWrite
  PROVE  DataInv'
<1>. USE DEF ShutdownWrite, ShutWriting, arguments, server
<1>1. TypeOK'
  BY Sides DEF DataInv, TypeOK, StreamTypeOK, stream
<1>2. Positions' /\ Sockets'
  BY <1>1, Sides DEF DataInv, TypeOK, StreamTypeOK, Positions, Sockets, stream
<1>3. ServerProgress' /\ Bytes'
  <2>1. UNCHANGED <<sent, got, taken, fin, sock, rst, call, handler, hpc, buf, reply>>
    BY DEF stream, reply
  <2>2. DataInv
    OBVIOUS
  <2>. QED
    BY ONLY <2>1, <2>2 DEF DataInv, ServerProgress, Abandoned, Bytes
<1>4. UNCHANGED failed \/ failed' = TRUE
  OBVIOUS
<1>5. Sending'
  BY <1>4 DEF DataInv, Sending, stream, Calling
<1>6. Receiving'
  BY <1>4 DEF DataInv, Receiving, stream
<1>. QED
  BY <1>1, <1>2, <1>3, <1>5, <1>6 DEF DataInv, EofMeansWhole, reply, stream

LEMMA ClientAbortsKeeps ==
  ASSUME DataInv, ClientAborts
  PROVE  DataInv'
<1>. USE DEF ClientAborts, Abort, arguments, history, server
<1>1. TypeOK'
  BY Sides DEF DataInv, TypeOK, StreamTypeOK
<1>2. /\ sock'["client"] = "closed" /\ sock'["server"] = sock["server"]
      /\ rst'["client"] /\ rst'["server"] = rst["server"]
      /\ call' = "aborted" /\ call # "aborted"
  BY Sides DEF DataInv, TypeOK, StreamTypeOK, Sockets
<1>3. Positions' /\ Sockets'
  BY <1>2, Sides DEF DataInv, Positions, Sockets
<1>4. ServerProgress'
  BY <1>2 DEF DataInv, ServerProgress, Abandoned, reply
<1>5. Bytes' /\ Sending'
  BY <1>2 DEF DataInv, Bytes, Sending, reply
<1>6. Receiving'
  BY <1>2 DEF DataInv, Receiving
<1>. QED
  BY <1>1, <1>3, <1>4, <1>5, <1>6 DEF DataInv, EofMeansWhole, reply

LEMMA SendBeginKeeps ==
  ASSUME DataInv, NEW m \in Message, SendBegin(m)
  PROVE  DataInv'
<1>. USE DEF SendBegin, Calling, stream, history, server
<1>1. m \in Seq(Char) /\ Len(m) \in Nat \ {0} /\ SubSeq(m, 1, 0) = <<>>
  BY SessionAssumption, EmptySeq, SubSeqEmpty
<1>2. accepted \o <<>> = accepted
  BY ConcatEmptySeq DEF DataInv, TypeOK
<1>3. TypeOK'
  BY <1>1 DEF DataInv, TypeOK, StreamTypeOK
<1>4. Positions' /\ Sockets' /\ ServerProgress' /\ Bytes' /\ Receiving'
  BY DEF DataInv, Positions, Sockets, ServerProgress, Abandoned, Bytes, Receiving, reply
<1>5. Sending'
  <2>1. ~failed' => sent'["client"] = accepted' \o SubSeq(data', 1, totalSent')
    BY <1>1, <1>2 DEF DataInv, Sending
  <2>2. Len(data') - totalSent' = Len(m)
    BY <1>1
  <2>. QED
    BY <1>1, <1>3, <2>1, <2>2 DEF Sending, DataInv, TypeOK, StreamTypeOK
<1>. QED
  BY <1>3, <1>4, <1>5 DEF DataInv, EofMeansWhole, reply

LEMMA ReceiveBeginKeeps ==
  ASSUME DataInv, NEW k \in MaxSize, ReceiveBegin(k)
  PROVE  DataInv'
<1>. USE DEF ReceiveBegin, Calling, stream, history, server
<1>1. k \in Nat /\ <<>> \in Seq(Char) /\ Len(<<>>) = 0
  BY SessionAssumption, EmptySeq
<1>2. TypeOK'
  BY <1>1 DEF DataInv, TypeOK, StreamTypeOK
<1>3. Positions' /\ Sockets' /\ ServerProgress' /\ Bytes' /\ Sending'
  BY DEF DataInv, Positions, Sockets, ServerProgress, Abandoned, Bytes, Sending, reply
<1>4. Receiving'
  BY <1>1 DEF DataInv, Receiving
<1>. QED
  BY <1>2, <1>3, <1>4 DEF DataInv, EofMeansWhole, reply

\* What one send() takes is the next piece of the data, and not nothing.
LEMMA SendSomePuts ==
  ASSUME DataInv, NEW n \in Piece, SendSome(n)
  PROVE  /\ n \in 1 .. Len(data) - totalSent
         /\ SubSeq(data, totalSent + 1, totalSent + n) \in Seq(Char)
         /\ Len(SubSeq(data, totalSent + 1, totalSent + n)) = n
         /\ sent' = [sent EXCEPT !["client"] = @ \o SubSeq(data, totalSent + 1, totalSent + n)]
<1>1. data \in Seq(Char) /\ totalSent \in 0 .. Len(data) /\ Window \in Nat
  BY StreamAssumption DEF DataInv, TypeOK, Sending
<1>2. n \in 1 .. Len(data) - totalSent
  <2>1. Room("client") \in Int /\ Len(data) - totalSent \in Int
    BY <1>1, Sides DEF Room, DataInv, TypeOK, StreamTypeOK
  <2>2. /\ Min({Room("client"), Len(data) - totalSent}) \in Int
        /\ Min({Room("client"), Len(data) - totalSent}) <= Len(data) - totalSent
    BY <2>1, MinIsLeast
  <2>3. n \in Nat \ {0} /\ n <= Min({Room("client"), Len(data) - totalSent})
    BY <1>1 DEF SendSome, Piece
  <2>. QED
    BY <2>1, <2>2, <2>3
<1>. QED
  BY <1>1, <1>2, PieceTyped DEF SendSome, Put

LEMMA SendSomeKeeps ==
  ASSUME DataInv, NEW n \in Piece, SendSome(n)
  PROVE  DataInv'
<1>. DEFINE piece == SubSeq(data, totalSent + 1, totalSent + n)
<1>1. /\ sent["client"] \in Seq(Char) /\ sent["server"] \in Seq(Char)
      /\ data \in Seq(Char) /\ accepted \in Seq(Char) /\ totalSent \in 0 .. Len(data)
      /\ taken["client"] \in Nat /\ taken["server"] \in Nat /\ Window \in Nat
  BY StreamAssumption DEF DataInv, TypeOK, StreamTypeOK, Side, Sending
<1>2. n \in 1 .. Len(data) - totalSent
  BY SendSomePuts
<1>3. piece \in Seq(Char) /\ Len(piece) = n
  BY SendSomePuts
<1>4. sent' = [sent EXCEPT !["client"] = @ \o piece]
  BY SendSomePuts
<1>. HIDE DEF piece
<1>5. /\ sent'["client"] = sent["client"] \o piece
      /\ sent'["client"] \in Seq(Char)
      /\ Len(sent'["client"]) = Len(sent["client"]) + n
      /\ sent'["server"] = sent["server"]
      /\ UNCHANGED <<got, taken, shut, fin, sock, rst, connected, returned, ended, failed,
                     handler, hpc, buf>>
  <2>1. sent'["client"] = sent["client"] \o piece /\ sent'["server"] = sent["server"]
    BY <1>4 DEF DataInv, TypeOK, StreamTypeOK, Side
  <2>2. /\ sent["client"] \o piece \in Seq(Char)
        /\ Len(sent["client"] \o piece) = Len(sent["client"]) + n
    BY <1>1, <1>3, ConcatProperties
  <2>3. UNCHANGED <<got, taken, shut, fin, sock, rst, connected, returned, ended, failed,
                    handler, hpc, buf>>
    BY DEF SendSome, Put, server
  <2>. QED
    BY <2>1, <2>2, <2>3
<1>6. call = "send" /\ connected /\ ~shut["client"] /\ ~fin["server"] /\ out = <<>>
  BY Sides DEF SendSome, Calling, Accepts, DataInv, Sockets, Positions, Receiving
<1>7. reply' = reply
  BY <1>5 DEF reply
<1>8. TypeOK'
  <2>1. sent' \in [Side -> Seq(Char)]
    BY <1>4, <1>5 DEF DataInv, TypeOK, StreamTypeOK, Side
  <2>2. /\ call' \in {"idle", "send"} /\ data' \in Seq(Char) /\ totalSent' \in Nat
        /\ maxSize' \in Nat /\ out' \in Seq(Char) /\ accepted' \in Seq(Char)
    <3>1. CASE totalSent + n < Len(data)
      BY <1>1, <1>2, <1>6, <3>1 DEF SendSome, DataInv, TypeOK
    <3>2. CASE ~(totalSent + n < Len(data))
      <4>1. accepted \o data \in Seq(Char) /\ <<>> \in Seq(Char)
        BY <1>1, ConcatProperties, EmptySeq
      <4>2. /\ call' = "idle" /\ data' = <<>> /\ totalSent' = 0 /\ maxSize' = 0
            /\ out' = <<>> /\ accepted' = accepted \o data
        BY <3>2 DEF SendSome, Return
      <4>. QED
        BY <4>1, <4>2
    <3>. QED
      BY <3>1, <3>2
  <2>. QED
    BY <1>5, <2>1, <2>2 DEF DataInv, TypeOK, StreamTypeOK
<1>9. Positions' /\ Sockets'
  <2>1. Positions'
    BY <1>1, <1>2, <1>5, <1>6, Sides, SMTT(30) DEF DataInv, TypeOK, StreamTypeOK, Positions
  <2>. QED
    BY <1>5, <1>6, <2>1 DEF SendSome, Return, DataInv, Sockets
<1>10. ServerProgress'
  BY <1>5, <1>6, <1>7 DEF DataInv, ServerProgress, Abandoned
<1>11. Bytes'
  <2>1. taken["server"] \in 0 .. Len(sent["client"])
    BY <1>1, Sides DEF DataInv, TypeOK, StreamTypeOK, Positions
  <2>2. SubSeq(sent["client"] \o piece, 1, taken["server"]) = SubSeq(sent["client"], 1, taken["server"])
    BY <1>1, <1>3, <2>1, PrefixOfLonger
  <2>. QED
    BY <1>5, <1>7, <2>2 DEF DataInv, Bytes
<1>12. Sending'
  <2>1. (accepted \o SubSeq(data, 1, totalSent)) \o piece = accepted \o SubSeq(data, 1, totalSent + n)
    <3>1. n \in 0 .. Len(data) - totalSent
      BY <1>1, <1>2
    <3>2. \A a \in Seq(Char), s \in Seq(Char) : \A k \in 0 .. Len(s) : \A l \in 0 .. Len(s) - k :
            (a \o SubSeq(s, 1, k)) \o SubSeq(s, k + 1, k + l) = a \o SubSeq(s, 1, k + l)
      BY PrefixExtendsAfter, ZenonT(30)
    <3>. QED
      BY <1>1, <3>1, <3>2, Zenon DEF piece
  <2>2. ~failed => sent'["client"] = accepted \o SubSeq(data, 1, totalSent + n)
    <3>1. ~failed => sent["client"] = accepted \o SubSeq(data, 1, totalSent)
      BY <1>6 DEF DataInv, Sending
    <3>. QED
      BY <1>5, <2>1, <3>1
  <2>3. CASE totalSent + n < Len(data)
    <3>1. call' = "send" /\ data' = data /\ totalSent' = totalSent + n /\ accepted' = accepted
      BY <1>6, <2>3 DEF SendSome
    <3>2. ~failed' => sent'["client"] = accepted' \o SubSeq(data', 1, totalSent')
      BY <1>5, <2>2, <3>1
    <3>3. /\ totalSent' < Len(data')
          /\ Len(sent'["client"]) + Len(data') - totalSent' <= MaxBytes
      BY <1>1, <1>2, <1>5, <2>3, <3>1, SessionAssumption, SMTT(30) DEF DataInv, Sending
    <3>4. totalSent' <= Len(data')
      BY <1>1, <1>2, <2>3, <3>1
    <3>. QED
      BY <3>1, <3>2, <3>3, <3>4 DEF Sending
  <2>4. CASE ~(totalSent + n < Len(data))
    <3>1. call' = "idle" /\ data' = <<>> /\ totalSent' = 0 /\ accepted' = accepted \o data
      BY <2>4 DEF SendSome, Return
    <3>2. totalSent + n = Len(data) /\ SubSeq(data, 1, Len(data)) = data /\ Len(<<>>) = 0
      BY <1>1, <1>2, <2>4, SubSeqFull, EmptySeq
    <3>3. ~failed' => sent'["client"] = accepted'
      BY <1>5, <2>2, <3>1, <3>2
    <3>4. totalSent' <= Len(data') /\ Len(sent'["client"]) + Len(data') - totalSent' <= MaxBytes
      BY <1>1, <1>2, <1>5, <3>1, <3>2, SessionAssumption DEF DataInv, Sending
    <3>. QED
      BY <3>1, <3>3, <3>4 DEF Sending
  <2>. QED
    BY <2>3, <2>4
<1>13. Receiving'
  <2>1. out' = <<>> /\ call' # "recv"
    BY <1>6 DEF SendSome, Return
  <2>. QED
    BY <1>5, <1>6, <2>1 DEF DataInv, Receiving
<1>14. EofMeansWhole'
  <2>1. ended = "eof" /\ ~failed => ReadsOnce(handler)
    BY <1>6, Sides DEF DataInv, Positions, Sockets, ServerProgress, Abandoned, TypeOK, Side
  <2>. QED
    BY <1>5, <1>7, <2>1 DEF DataInv, EofMeansWhole
<1>. QED
  BY <1>5, <1>8, <1>9, <1>10, <1>11, <1>12, <1>13, <1>14 DEF DataInv

LEMMA SendFailsKeeps ==
  ASSUME DataInv, SendFails
  PROVE  DataInv'
<1>. USE DEF SendFails, Report, Return, Calling, server
<1>1. <<>> \in Seq(Char) /\ Len(<<>>) = 0
  BY EmptySeq
<1>2. TypeOK'
  BY <1>1 DEF DataInv, TypeOK, StreamTypeOK, Side
<1>3. Positions' /\ Sockets'
  BY <1>2, Sides DEF DataInv, TypeOK, StreamTypeOK, Positions, Sockets
<1>4. ServerProgress' /\ Bytes'
  BY DEF DataInv, ServerProgress, Abandoned, Bytes, reply
<1>5. Sending'
  <2>1. Len(sent["client"]) \in Nat /\ Len(sent["client"]) <= MaxBytes
    BY ReplyOfBuffer DEF DataInv, TypeOK, StreamTypeOK, Side
  <2>2. /\ call' = "idle" /\ data' = <<>> /\ totalSent' = 0
        /\ sent' = sent /\ failed' = TRUE
    OBVIOUS
  <2>3. Len(sent["client"]) + 0 - 0 <= MaxBytes
    BY <2>1, SessionAssumption
  <2>. QED
    BY <1>1, <2>2, <2>3 DEF Sending
<1>6. Receiving'
  BY Sides DEF DataInv, TypeOK, StreamTypeOK, Receiving
<1>. QED
  BY <1>2, <1>3, <1>4, <1>5, <1>6 DEF DataInv, EofMeansWhole

LEMMA SendKilledKeeps ==
  ASSUME DataInv, SendKilled
  PROVE  DataInv'
<1>. USE DEF SendKilled, Close, Calling, arguments, history, server
<1>1. TypeOK'
  BY DEF DataInv, TypeOK, StreamTypeOK, Side
<1>2. Positions'
  BY <1>1, Sides DEF DataInv, TypeOK, StreamTypeOK, Positions
<1>3. connected /\ sock["client"] # "closed"
  BY DEF DataInv, Sockets
<1>4. got["client"] > 0 => sent["server"] # <<>>
  BY Sides, EmptySeq DEF DataInv, Positions, TypeOK, StreamTypeOK
<1>5. Sockets'
  BY <1>3, Sides DEF DataInv, TypeOK, StreamTypeOK, Sockets
<1>6. ServerProgress'
  BY <1>3, <1>4, Sides DEF DataInv, TypeOK, StreamTypeOK, ServerProgress, Abandoned, Queued, reply
<1>7. Bytes' /\ Sending'
  BY DEF DataInv, Bytes, Sending, reply
<1>8. Receiving'
  BY <1>3, Sides DEF DataInv, TypeOK, StreamTypeOK, Receiving
<1>. QED
  BY <1>1, <1>2, <1>5, <1>6, <1>7, <1>8 DEF DataInv, EofMeansWhole, reply

\* What one recv() returns is the next piece of what has arrived.
LEMMA ReceivedTyped ==
  ASSUME DataInv, ReceiveSome
  PROVE  /\ Received \in 1 .. Len(sent["server"]) - taken["client"]
         /\ Received <= got["client"] - taken["client"]
         /\ Incoming("client", Received) \in Seq(Char)
         /\ out \o Incoming("client", Received) \in Seq(Char)
<1>. DEFINE n   == Received
            inc == Incoming("client", n)
<1>1. /\ sent["server"] \in Seq(Char) /\ out \in Seq(Char)
      /\ taken["client"] \in Nat /\ got["client"] \in Nat
      /\ taken["client"] <= got["client"] /\ got["client"] <= Len(sent["server"])
      /\ maxSize \in Nat /\ Len(out) \in Nat /\ ClientBuffer \in Nat \ {0}
  BY SessionAssumption, Sides DEF DataInv, TypeOK, StreamTypeOK, Positions
<1>2. call = "recv" /\ Len(out) < maxSize /\ taken["client"] < got["client"]
  BY <1>1 DEF ReceiveSome, Calling, Queued, DataInv, Receiving
<1>3. n \in 1 .. Len(sent["server"]) - taken["client"] /\ n <= got["client"] - taken["client"]
  <2>1. Queued("client") = got["client"] - taken["client"]
    BY DEF Queued
  <2>2. /\ Queued("client") \in Nat \ {0}
        /\ ClientBuffer \in Nat \ {0}
        /\ maxSize - Len(out) \in Nat \ {0}
    BY <1>1, <1>2, <2>1
  <2>3. n \in {Queued("client"), ClientBuffer, maxSize - Len(out)} /\ n <= Queued("client")
    <3>1. Queued("client") \in Int /\ ClientBuffer \in Int /\ maxSize - Len(out) \in Int
      BY <2>2
    <3>. QED
      BY <3>1, MinOfThree, Zenon DEF Received
  <2>. HIDE DEF n
  <2>. QED
    BY <1>1, <2>1, <2>2, <2>3
<1>. HIDE DEF n
<1>4. inc = SubSeq(sent["server"], taken["client"] + 1, taken["client"] + n)
  BY Sides DEF Incoming
<1>5. inc \in Seq(Char)
  <2>1. taken["client"] \in 0 .. Len(sent["server"]) /\ n \in 0 .. Len(sent["server"]) - taken["client"]
    BY <1>1, <1>3
  <2>. HIDE DEF inc
  <2>. QED
    BY <1>1, <1>4, <2>1, PieceTyped
<1>6. out \o inc \in Seq(Char)
  BY <1>1, <1>5, ConcatProperties
<1>. QED
  BY <1>3, <1>5, <1>6 DEF n

LEMMA ReceiveSomeKeeps ==
  ASSUME DataInv, ReceiveSome
  PROVE  DataInv'
<1>. DEFINE n    == Received
            inc  == Incoming("client", n)
            more == out \o inc
<1>1. /\ sent["server"] \in Seq(Char) /\ out \in Seq(Char) /\ returned \in Seq(Char)
      /\ taken["client"] \in Nat /\ got["client"] \in Nat
      /\ taken["client"] <= got["client"] /\ got["client"] <= Len(sent["server"])
      /\ maxSize \in Nat /\ Len(out) \in Nat
  BY Sides DEF DataInv, TypeOK, StreamTypeOK, Positions
<1>2. call = "recv" /\ connected /\ Len(out) < maxSize /\ taken["client"] < got["client"]
  BY <1>1 DEF ReceiveSome, Calling, Queued, DataInv, Sockets, Receiving
<1>3. n \in 1 .. Len(sent["server"]) - taken["client"] /\ n <= got["client"] - taken["client"]
  BY ReceivedTyped
<1>5. inc \in Seq(Char) /\ more \in Seq(Char)
  BY ReceivedTyped
<1>. HIDE DEF n
<1>. n \in Nat /\ n \in 0 .. Len(sent["server"]) - taken["client"]
  BY <1>1, <1>3
<1>4. inc = SubSeq(sent["server"], taken["client"] + 1, taken["client"] + n)
  BY Sides DEF Incoming
<1>6. more \in Seq(Char)
  BY <1>5
<1>7. returned \o more = SubSeq(sent["server"], 1, taken["client"] + n)
  <2>1. returned \o out = SubSeq(sent["server"], 1, taken["client"])
    BY <1>1, <1>2 DEF DataInv, Receiving
  <2>2. SubSeq(sent["server"], 1, taken["client"]) \o inc = SubSeq(sent["server"], 1, taken["client"] + n)
    <3>1. taken["client"] \in 0 .. Len(sent["server"]) /\ n \in 0 .. Len(sent["server"]) - taken["client"]
      BY <1>1, <1>3
    <3>. QED
      BY <1>1, <1>4, <3>1, PrefixExtends
  <2>3. (returned \o out) \o inc = returned \o more
    <3>. HIDE DEF inc
    <3>1. ASSUME NEW a \in Seq(Char), NEW b \in Seq(Char), NEW c \in Seq(Char)
          PROVE  (a \o b) \o c = a \o (b \o c)
      BY ConcatAssociative, SMTT(30)
    <3>. QED
      BY <1>1, <1>5, <3>1, Zenon
  <2>. QED
    BY <2>1, <2>2, <2>3
<1>8. /\ taken' = [taken EXCEPT !["client"] = @ + n]
      /\ UNCHANGED <<sent, got, shut, fin, sock, rst, connected, accepted, failed, handler, hpc, buf>>
      /\ IF Len(more) < maxSize
         THEN out' = more /\ UNCHANGED <<call, data, totalSent, maxSize, returned, ended>>
         ELSE returned' = returned \o more /\ ended' = "full" /\ Return
  BY DEF ReceiveSome, Take, server, n
<1>. HIDE DEF inc, more
<1>9. taken'["client"] = taken["client"] + n /\ taken'["server"] = taken["server"]
  BY <1>8 DEF DataInv, TypeOK, StreamTypeOK, Side
<1>10. /\ call' \in {"idle", "recv"} 
       /\ call' = "idle" => out' = <<>>
       /\ call' = "recv" => Len(out') < maxSize'
       /\ out' \in Seq(Char) /\ returned' \in Seq(Char)
       /\ data' = <<>> /\ totalSent' = 0 /\ maxSize' \in Nat
       /\ returned' \o out' = SubSeq(sent["server"], 1, taken["client"] + n)
       /\ UNCHANGED <<ended, returned>> \/ ended' = "full"
  <2>1. data = <<>> /\ totalSent = 0
    BY <1>2 DEF DataInv, Sending
  <2>2. CASE Len(more) < maxSize
    BY <1>1, <1>2, <1>6, <1>7, <1>8, <2>1, <2>2
  <2>3. CASE ~(Len(more) < maxSize)
    <3>1. /\ call' = "idle" /\ data' = <<>> /\ totalSent' = 0 /\ maxSize' = 0 /\ out' = <<>>
          /\ returned' = returned \o more /\ ended' = "full"
      BY <1>8, <2>3 DEF Return
    <3>2. returned \o more \in Seq(Char) /\ (returned \o more) \o <<>> = returned \o more
          /\ <<>> \in Seq(Char)
      BY <1>1, <1>6, ConcatProperties, ConcatEmptySeq, EmptySeq
    <3>. QED
      BY <1>7, <3>1, <3>2
  <2>. QED
    BY <2>2, <2>3
<1>11. reply' = reply
  BY <1>8 DEF reply
<1>12. TypeOK'
  <2>1. taken' \in [Side -> Nat]
    <3>1. taken \in [Side -> Nat]
      BY DEF DataInv, TypeOK, StreamTypeOK
    <3>2. taken["client"] + n \in Nat
      BY <1>1, <1>3
    <3>. QED
      BY <1>8, <3>1, <3>2
  <2>2. data' \in Seq(Char) /\ totalSent' \in Nat /\ call' \in {"idle", "send", "recv", "killed"}
    BY <1>10, EmptySeq
  <2>3. ended' \in {"none", "full", "eof", "error"}
    BY <1>10 DEF DataInv, TypeOK
  <2>. QED
    BY <1>8, <1>10, <2>1, <2>2, <2>3 DEF DataInv, TypeOK, StreamTypeOK
<1>13. Positions'
  BY <1>1, <1>3, <1>8, <1>9, Sides, SMTT(30) DEF DataInv, TypeOK, StreamTypeOK, Positions
<1>14. Sockets'
  BY <1>2, <1>8, <1>10 DEF DataInv, Sockets
<1>15. ServerProgress' /\ Bytes'
  BY <1>2, <1>8, <1>9, <1>10, <1>11 DEF DataInv, ServerProgress, Abandoned, Bytes
<1>16. Sending'
  <2>1. sent' = sent /\ accepted' = accepted /\ failed' = failed /\ Len(<<>>) = 0
    BY <1>8, EmptySeq
  <2>2. Len(sent["client"]) + 0 - 0 <= MaxBytes
    BY ReplyOfBuffer, SessionAssumption DEF DataInv, TypeOK, StreamTypeOK, Side
  <2>3. ~failed => sent["client"] = accepted
    BY <1>2 DEF DataInv, Sending
  <2>. QED
    BY <1>10, <2>1, <2>2, <2>3 DEF Sending
<1>17. Receiving'
  <2>1. sock["client"] = "broken" => fin["client"] \/ failed
    BY DEF DataInv, Receiving
  <2>. QED
    BY <1>8, <1>9, <1>10, <2>1 DEF Receiving
<1>18. EofMeansWhole' /\ (ended' = "eof" => fin'["client"] \/ failed')
  <2>1. CASE ended' = "full"
    BY <2>1 DEF EofMeansWhole
  <2>2. CASE UNCHANGED <<ended, returned>>
    BY <1>8, <1>11, <2>2 DEF DataInv, EofMeansWhole
  <2>. QED
    BY <1>10, <2>1, <2>2
<1>. QED
  BY <1>12, <1>13, <1>14, <1>15, <1>16, <1>17, <1>18 DEF DataInv

\* recv() returns the end of the stream to a client that has had no error
\* only after the whole reply.
LEMMA EndIsWhole ==
  ASSUME DataInv, Calling("recv"), AtEnd("client"), ~failed
  PROVE  /\ fin["client"]
         /\ returned \o out = reply
         /\ ReadsOnce(handler) \/ buf = accepted
<1>1. connected /\ call = "recv"
  BY DEF Calling, DataInv, Sockets
<1>2. fin["client"] /\ taken["client"] = Len(sent["server"])
  BY Sides DEF AtEnd, Queued, DataInv, TypeOK, StreamTypeOK, Positions, Receiving
<1>3. hpc = "done" /\ ~rst["client"]
  BY <1>1, <1>2, Sides DEF DataInv, TypeOK, StreamTypeOK, Positions, Sockets, ServerProgress, Abandoned
<1>4. sent["server"] = reply
  BY <1>3 DEF DataInv, ServerProgress, Abandoned
<1>5. returned \o out = SubSeq(sent["server"], 1, Len(sent["server"]))
  BY <1>2 DEF DataInv, Receiving
<1>6. SubSeq(sent["server"], 1, Len(sent["server"])) = sent["server"]
  BY SubSeqFull, Sides DEF DataInv, TypeOK, StreamTypeOK
<1>7. ASSUME ~ReadsOnce(handler)
      PROVE  buf = accepted
  <2>1. taken["server"] = Len(sent["client"])
    BY <1>1, <1>3, <1>7 DEF DataInv, ServerProgress, Abandoned
  <2>2. buf = SubSeq(sent["client"], 1, Len(sent["client"]))
    BY <2>1 DEF DataInv, Bytes
  <2>3. SubSeq(sent["client"], 1, Len(sent["client"])) = sent["client"]
    BY SubSeqFull, Sides DEF DataInv, TypeOK, StreamTypeOK
  <2>4. sent["client"] = accepted
    BY <1>1 DEF DataInv, Sending
  <2>. QED
    BY <2>2, <2>3, <2>4
<1>. QED
  BY <1>2, <1>4, <1>5, <1>6, <1>7

LEMMA ReceiveEndKeeps ==
  ASSUME DataInv, ReceiveEnd
  PROVE  DataInv'
<1>. USE DEF ReceiveEnd, Return, Calling, server, stream
<1>1. <<>> \in Seq(Char) /\ Len(<<>>) = 0
  BY EmptySeq
<1>2. /\ returned' = returned \o out /\ returned' \in Seq(Char)
      /\ returned' \o <<>> = returned \o out
  BY ConcatProperties, ConcatEmptySeq DEF DataInv, TypeOK
<1>3. TypeOK'
  BY <1>1, <1>2 DEF DataInv, TypeOK, StreamTypeOK
<1>4. Positions' /\ Sockets'
  BY DEF DataInv, Positions, Sockets
<1>5. ServerProgress' /\ Bytes'
  BY DEF DataInv, ServerProgress, Abandoned, Bytes, reply
<1>6. Sending'
  BY <1>1 DEF DataInv, Sending
<1>7. Receiving'
  <2>1. CASE returned \o out = SubSeq(sent["server"], 1, taken["client"])
    BY <1>2, <2>1 DEF DataInv, Receiving
  <2>2. CASE ~(returned \o out = SubSeq(sent["server"], 1, taken["client"]))
    <3>1. out = <<>> /\ returned \o <<>> = returned
      BY <2>2, ConcatEmptySeq DEF DataInv, Receiving, TypeOK
    <3>. QED
      BY <1>2, <2>2, <3>1 DEF DataInv, Receiving
  <2>. QED
    BY <2>1, <2>2
<1>8. EofMeansWhole' /\ (ended' = "eof" => fin'["client"] \/ failed')
  BY <1>2, EndIsWhole DEF EofMeansWhole, reply
<1>. QED
  BY <1>3, <1>4, <1>5, <1>6, <1>7, <1>8 DEF DataInv

LEMMA ReceiveFailsKeeps ==
  ASSUME DataInv, ReceiveFails
  PROVE  DataInv'
<1>. USE DEF ReceiveFails, Report, Return, Calling, server
<1>1. <<>> \in Seq(Char) /\ Len(<<>>) = 0
  BY EmptySeq
<1>2. TypeOK'
  BY <1>1 DEF DataInv, TypeOK, StreamTypeOK, Side
<1>3. Positions' /\ Sockets'
  BY <1>2, Sides DEF DataInv, TypeOK, StreamTypeOK, Positions, Sockets, Fails
<1>4. ServerProgress' /\ Bytes'
  BY DEF DataInv, ServerProgress, Abandoned, Bytes, reply
<1>5. Sending'
  BY <1>1 DEF DataInv, Sending
<1>6. Receiving'
  <2>1. sock["client"] = "reset" /\ taken["client"] = got["client"]
    BY Sides DEF Fails, Queued, DataInv, TypeOK, StreamTypeOK
  <2>2. /\ taken["client"] \in 0 .. Len(sent["server"])
        /\ sent["server"] \in Seq(Char) /\ returned \in Seq(Char) /\ out \in Seq(Char)
    BY Sides DEF DataInv, TypeOK, StreamTypeOK, Positions
  <2>3. returned \o out = SubSeq(sent["server"], 1, taken["client"])
    BY <2>1 DEF DataInv, Receiving
  <2>4. Len(returned) <= taken["client"] /\ returned = SubSeq(sent["server"], 1, Len(returned))
    BY <2>2, <2>3, LeftIsPrefix
  <2>5. Len(returned) <= Len(sent["server"])
    BY <2>2, <2>4
  <2>6. /\ call' = "idle" /\ out' = <<>> /\ failed' = TRUE /\ sock'["client"] = "broken"
        /\ UNCHANGED <<returned, sent, taken, got>>
    BY <2>1, Sides DEF DataInv, TypeOK, StreamTypeOK
  <2>. QED
    BY <2>1, <2>4, <2>5, <2>6 DEF Receiving
<1>. QED
  BY <1>2, <1>3, <1>4, <1>5, <1>6 DEF DataInv, EofMeansWhole

-----------------------------------------------------------------------------
(* The connection's thread.                                                *)

LEMMA HandlerEndsKeeps ==
  ASSUME DataInv, HandlerEnds
  PROVE  DataInv'
<1>. USE DEF HandlerEnds, Report, client, arguments, history
<1>1. TypeOK'
  BY DEF DataInv, TypeOK, StreamTypeOK, Side
<1>2. sent["server"] = <<>> /\ sock["server"] \in {"open", "reset", "broken"} /\ hpc' \in {"send", "close"}
  BY Sides DEF DataInv, TypeOK, StreamTypeOK, Sockets, ServerProgress
<1>3. /\ sock'["client"] = sock["client"]
      /\ sock["server"] = "open" => sock'["server"] = "open"
      /\ sock["server"] # "open" => sock'["server"] = "broken"
  BY <1>2 DEF DataInv, TypeOK, StreamTypeOK, Side
<1>4. \/ fin["server"] /\ taken["server"] = Len(sent["client"])
      \/ Abandoned'
  <2>1. CASE sock["server"] = "open"
    BY <2>1, Sides DEF AtEnd, Fails, Queued, DataInv, TypeOK, StreamTypeOK, Positions
  <2>2. CASE sock["server"] # "open"
    <3>1. rst["client"]
      BY <1>2, <2>2, Sides DEF DataInv, Sockets
    <3>. QED
      BY <1>2, <1>3, <2>2, <3>1 DEF DataInv, ServerProgress, Abandoned
  <2>. QED
    BY <2>1, <2>2
<1>5. Positions' /\ Sockets'
  BY <1>1, <1>2, <1>3, Sides DEF DataInv, Positions, Sockets
<1>6. buf # <<>> => Len(sent["server"]) < Len(reply)
  <2>1. buf # <<>> => Len(reply) \in Nat \ {0}
    BY ReplyOfBuffer, EmptySeq
  <2>. QED
    BY <1>2, <2>1, EmptySeq
<1>7. ServerProgress'
  <2>1. buf = <<>> => reply = <<>>
    BY DEF reply
  <2>2. hpc' = "send" <=> buf # <<>>
    OBVIOUS
  <2>. QED
    BY <1>2, <1>4, <1>6, <2>1, <2>2 DEF DataInv, ServerProgress, reply
<1>8. Bytes' /\ Sending' /\ Receiving'
  BY <1>3 DEF DataInv, Bytes, Sending, Receiving, reply
<1>. QED
  BY <1>1, <1>5, <1>7, <1>8 DEF DataInv, EofMeansWhole, reply

LEMMA HandlerReadsKeeps ==
  ASSUME DataInv, HandlerReads
  PROVE  DataInv'
<1>. DEFINE n == Min({Queued("server"), HandlerBuffer})
            inc == Incoming("server", n)
<1>1. /\ sent["client"] \in Seq(Char) /\ taken["server"] \in Nat /\ got["server"] \in Nat
      /\ got["server"] <= Len(sent["client"]) /\ taken["server"] < got["server"]
      /\ Len(sent["client"]) \in Nat
  BY Sides DEF HandlerReads, Queued, DataInv, TypeOK, StreamTypeOK, Positions
<1>2. n \in Nat \ {0} /\ n <= got["server"] - taken["server"]
  <2>1. /\ Queued("server") = got["server"] - taken["server"]
        /\ Queued("server") \in Nat \ {0} /\ HandlerBuffer \in Nat \ {0}
    BY <1>1, SessionAssumption DEF Queued
  <2>2. n \in {Queued("server"), HandlerBuffer} /\ n <= Queued("server")
    <3>1. Queued("server") \in Int /\ HandlerBuffer \in Int
      BY <2>1
    <3>. QED
      BY <3>1, MinIsLeast, Zenon
  <2>. HIDE DEF n
  <2>. QED
    BY <2>1, <2>2
<1>3. /\ buf' = buf \o inc
      /\ taken' = [taken EXCEPT !["server"] = @ + n]
      /\ hpc = "read" /\ hpc' = IF ReadsOnce(handler) THEN "send" ELSE "read"
      /\ UNCHANGED <<sent, got, shut, fin, sock, rst, client, handler>>
  BY DEF HandlerReads, Take
<1>4. inc = SubSeq(sent["client"], taken["server"] + 1, taken["server"] + n)
  BY Sides DEF Incoming
<1>. HIDE DEF n, inc
<1>5. taken["server"] \in 0 .. Len(sent["client"]) /\ n \in 0 .. Len(sent["client"]) - taken["server"]
  BY <1>1, <1>2
<1>6. inc \in Seq(Char) /\ Len(inc) = n
  BY <1>1, <1>4, <1>5, PieceTyped
<1>7. buf' = SubSeq(sent["client"], 1, taken["server"] + n)
  <2>1. buf = SubSeq(sent["client"], 1, taken["server"])
    BY DEF DataInv, Bytes
  <2>. QED
    BY <1>1, <1>3, <1>4, <1>5, <2>1, PrefixExtends
<1>8. buf' \in Seq(Char) /\ Len(buf') = taken["server"] + n
  <2>1. taken["server"] + n \in 0 .. Len(sent["client"])
    BY <1>1, <1>5
  <2>. QED
    BY <1>1, <1>7, <2>1, PrefixTyped
<1>9. taken'["server"] = taken["server"] + n /\ taken'["client"] = taken["client"]
  BY <1>3 DEF DataInv, TypeOK, StreamTypeOK, Side
<1>10. sent["server"] = <<>> /\ Len(<<>>) = 0 /\ sent'["server"] = <<>> /\ connected' = connected
  BY <1>3, EmptySeq DEF DataInv, ServerProgress, Abandoned, client
<1>11. buf' # <<>> /\ reply' \in Seq(Char) /\ Len(reply') \in Nat \ {0}
  <2>1. buf' # <<>>
    BY <1>1, <1>2, <1>8, EmptySeq
  <2>2. Len(buf') <= MaxBytes
    BY <1>1, <1>5, <1>8, ReplyOfBuffer, SessionAssumption
  <2>3. reply' = Reply(handler, buf')
    BY <1>3, <2>1 DEF reply
  <2>4. handler \in Handler
    BY DEF DataInv, TypeOK
  <2>5. Reply(handler, buf') \in Seq(Char) /\ Reply(handler, buf') # <<>>
    BY <1>8, <2>1, <2>2, <2>4, ReplyTyped
  <2>. QED
    BY <2>1, <2>3, <2>5, EmptySeq
<1>12. TypeOK'
  <2>1. taken' \in [Side -> Nat]
    <3>1. taken["server"] + n \in Nat
      BY <1>2, Numbers
    <3>. QED
      BY <1>3, <3>1, Numbers, Sides
  <2>. QED
    BY <1>3, <1>8, <2>1 DEF DataInv, TypeOK, StreamTypeOK, client, arguments, history
<1>13. Positions'
  <2>1. /\ taken'["server"] <= got["server"] /\ taken["client"] <= got["client"]
        /\ got["server"] <= Len(sent["client"]) /\ got["client"] <= Len(sent["server"])
    BY <1>1, <1>2, <1>9, Numbers, Sides DEF DataInv, Positions
  <2>2. \A s \in Side : fin[s] => shut[Peer(s)] /\ got[s] = Len(sent[Peer(s)])
    BY DEF DataInv, Positions
  <2>. QED
    BY <1>3, <1>9, <2>1, <2>2, Sides DEF Positions
<1>14. Sockets'
  BY <1>3 DEF DataInv, Sockets, client
<1>15. ServerProgress'
  BY <1>3, <1>10, <1>11 DEF DataInv, ServerProgress, Abandoned, client
<1>16. Bytes'
  <2>1. buf' = SubSeq(sent'["client"], 1, taken'["server"])
    BY <1>3, <1>7, <1>9
  <2>2. SubSeq(reply', 1, 0) = <<>>
    BY SubSeqEmpty
  <2>3. Len(sent'["server"]) = 0
    BY <1>10
  <2>4. sent'["server"] = SubSeq(reply', 1, Len(sent'["server"]))
    BY <1>10, <2>2, <2>3
  <2>. QED
    BY <1>11, <2>1, <2>3, <2>4 DEF Bytes
<1>17. Sending' /\ Receiving'
  BY <1>3, <1>9 DEF DataInv, Sending, Receiving, client, arguments, history
<1>18. EofMeansWhole' /\ (ended' = "eof" => fin'["client"] \/ failed')
  <2>1. ended' = "eof" => failed'
    <3>1. ~fin["client"]
      BY <1>3, Sides DEF DataInv, Positions, Sockets, Side
    <3>. QED
      BY <1>3, <3>1 DEF DataInv, client, history
  <2>. QED
    BY <2>1 DEF EofMeansWhole
<1>. QED
  BY <1>12, <1>13, <1>14, <1>15, <1>16, <1>17, <1>18 DEF DataInv

LEMMA HandlerSendsKeeps ==
  ASSUME DataInv, NEW n \in Piece, HandlerSends(n)
  PROVE  DataInv'
<1>. DEFINE k == Len(sent["server"])
            piece == SubSeq(reply, k + 1, k + n)
<1>1. /\ sent["server"] \in Seq(Char) /\ reply \in Seq(Char) /\ k \in Nat /\ Len(reply) \in Nat
      /\ hpc = "send" /\ k < Len(reply) /\ sock["server"] = "open" /\ Window \in Nat
  BY ReplyOfBuffer, StreamAssumption
     DEF HandlerSends, Accepts, DataInv, TypeOK, StreamTypeOK, Side, ServerProgress, Abandoned
<1>2. n \in Nat \ {0} /\ n \in 0 .. Len(reply) - k
  <2>1. Room("server") \in Int /\ Len(reply) - k \in Int
    BY <1>1, Sides DEF Room, DataInv, TypeOK, StreamTypeOK
  <2>2. /\ Min({Room("server"), Len(reply) - k}) \in {Room("server"), Len(reply) - k}
        /\ Min({Room("server"), Len(reply) - k}) <= Len(reply) - k
    BY <2>1, MinIsLeast, Zenon
  <2>3. n \in Nat \ {0} /\ n <= Min({Room("server"), Len(reply) - k})
    BY <1>1 DEF HandlerSends, Piece
  <2>. QED
    BY <1>1, <2>1, <2>2, <2>3
<1>3. piece \in Seq(Char) /\ Len(piece) = n
  <2>1. k \in 0 .. Len(reply)
    BY <1>1
  <2>. QED
    BY <1>1, <1>2, <2>1, PieceTyped
<1>4. /\ sent' = [sent EXCEPT !["server"] = @ \o piece]
      /\ hpc' = IF k + n < Len(reply) THEN "send" ELSE "close"
      /\ UNCHANGED <<got, taken, shut, fin, sock, rst, client, handler, buf>>
  BY DEF HandlerSends, Put
<1>5. reply' = reply
  BY <1>4 DEF reply
<1>6. sent["server"] \o piece = SubSeq(reply, 1, k + n)
  <2>1. sent["server"] = SubSeq(reply, 1, k)
    BY DEF DataInv, Bytes
  <2>2. k \in 0 .. Len(reply)
    BY <1>1
  <2>3. SubSeq(reply, 1, k) \o piece = SubSeq(reply, 1, k + n)
    BY <1>1, <1>2, <2>2, PrefixExtends
  <2>. HIDE DEF k, piece
  <2>. QED
    BY <2>1, <2>3
<1>7. sent["server"] \o piece \in Seq(Char) /\ Len(sent["server"] \o piece) = k + n
  BY <1>1, <1>3, ConcatProperties
<1>. HIDE DEF piece
<1>8. sent'["server"] = sent["server"] \o piece /\ sent'["client"] = sent["client"]
  BY <1>4 DEF DataInv, TypeOK, StreamTypeOK, Side
<1>9. Len(sent'["server"]) = k + n /\ sent'["server"] # <<>>
  BY <1>1, <1>2, <1>7, <1>8, EmptySeq
<1>10. TypeOK'
  <2>1. sent' \in [Side -> Seq(Char)]
    BY <1>4, <1>7 DEF DataInv, TypeOK, StreamTypeOK, Side
  <2>. QED
    BY <1>4, <2>1 DEF DataInv, TypeOK, StreamTypeOK, client, arguments, history
<1>11. ~shut["server"] /\ ~fin["client"] /\ ~rst["server"]
  BY <1>1, Sides DEF DataInv, Sockets, Positions
<1>12. Positions'
  <2>1. /\ taken["server"] <= got["server"] /\ taken["client"] <= got["client"]
        /\ got["server"] <= Len(sent'["client"]) /\ got["client"] <= Len(sent'["server"])
    BY <1>1, <1>2, <1>8, <1>9, Numbers, Sides DEF DataInv, Positions
  <2>2. fin["server"] => shut["client"] /\ got["server"] = Len(sent["client"])
    BY Sides DEF DataInv, Positions
  <2>. QED
    BY <1>4, <1>8, <1>11, <2>1, <2>2, Sides DEF Positions
<1>13. Sockets'
  BY <1>1, <1>4 DEF DataInv, Sockets, client
<1>14. ServerProgress'
  <2>1. hpc' = "close" => sent'["server"] = reply
    <3>1. SUFFICES ASSUME hpc' = "close"
                   PROVE  k + n = Len(reply)
      BY <1>1, <1>6, <1>8, <3>1, SubSeqFull
    <3>. QED
      BY <1>1, <1>2, <1>4, <3>1
  <2>2. hpc' = "send" => k + n < Len(reply)
    BY <1>4
  <2>3. hpc' \in {"send", "close"}
    BY <1>4
  <2>4. /\ buf # <<>>
        /\ ReadsOnce(handler) \/ (fin["server"] /\ taken["server"] = Len(sent["client"]))
    BY <1>1 DEF DataInv, ServerProgress, Abandoned
  <2>5. rst'["client"] => sent'["server"] # <<>>
    BY <1>9
  <2>. QED
    BY <1>4, <1>5, <1>8, <1>9, <2>1, <2>2, <2>3, <2>4, <2>5 DEF ServerProgress
<1>15. Bytes'
  <2>1. sent'["server"] = SubSeq(reply', 1, Len(sent'["server"]))
    BY <1>5, <1>6, <1>8, <1>9
  <2>2. Len(sent'["server"]) <= Len(reply')
    BY <1>1, <1>2, <1>5, <1>9
  <2>. QED
    BY <1>4, <1>8, <2>1, <2>2 DEF DataInv, Bytes
<1>16. Sending'
  BY <1>4, <1>8 DEF DataInv, Sending, client, arguments, history
<1>17. Receiving'
  <2>1. /\ sent["server"] \in Seq(Char) /\ piece \in Seq(Char)
        /\ taken["client"] \in 0 .. Len(sent["server"]) /\ Len(returned) \in Nat
    <3>1. taken["client"] <= got["client"] /\ got["client"] <= Len(sent["server"])
      BY Sides DEF DataInv, Positions
    <3>2. Len(returned) \in Nat
      BY DEF DataInv, TypeOK
    <3>. QED
      BY <1>1, <1>3, <3>1, <3>2, Numbers
  <2>2. SubSeq(sent'["server"], 1, taken["client"]) = SubSeq(sent["server"], 1, taken["client"])
    BY <1>8, <2>1, PrefixOfLonger
  <2>3. Len(returned) <= Len(sent["server"]) =>
          /\ SubSeq(sent'["server"], 1, Len(returned)) = SubSeq(sent["server"], 1, Len(returned))
          /\ Len(returned) <= Len(sent'["server"])
    <3>1. SUFFICES ASSUME Len(returned) <= Len(sent["server"])
                   PROVE  Len(returned) \in 0 .. Len(sent["server"]) /\ Len(returned) <= k + n
      BY <1>8, <1>9, <2>1, PrefixOfLonger
    <3>. QED
      BY <1>1, <1>2, <2>1, <3>1
  <2>4. UNCHANGED <<call, out, maxSize, sock, fin, failed, taken, got, returned>>
    BY <1>4 DEF client, arguments, history
  <2>. QED
    BY <2>2, <2>3, <2>4 DEF DataInv, Receiving
<1>18. EofMeansWhole' /\ (ended' = "eof" => fin'["client"] \/ failed')
  BY <1>4, <1>5 DEF DataInv, EofMeansWhole, client, history
<1>. QED
  BY <1>10, <1>12, <1>13, <1>14, <1>15, <1>16, <1>17, <1>18 DEF DataInv

\* send() fails only for a client that is gone.
LEMMA HandlerSendFailsKeeps ==
  ASSUME DataInv, HandlerSendFails
  PROVE  DataInv'
<1>. USE DEF HandlerSendFails, Report, client, arguments, history
<1>1. /\ rst["client"] /\ hpc = "send" /\ hpc' = "close"
      /\ sock["server"] \in {"reset", "broken"} /\ sock'["server"] = "broken"
      /\ sock'["client"] = sock["client"]
  BY Sides DEF DataInv, TypeOK, StreamTypeOK, Sockets, Side
<1>2. TypeOK'
  BY <1>1 DEF DataInv, TypeOK, StreamTypeOK, Side
<1>3. Positions' /\ Sockets'
  BY <1>1, <1>2, Sides DEF DataInv, TypeOK, StreamTypeOK, Positions, Sockets
<1>4. ServerProgress' /\ Bytes'
  BY <1>1 DEF DataInv, ServerProgress, Abandoned, Bytes, reply
<1>5. Sending' /\ Receiving'
  BY <1>1 DEF DataInv, Sending, Receiving
<1>. QED
  BY <1>2, <1>3, <1>4, <1>5 DEF DataInv, EofMeansWhole, reply

\* A thread that raises SIGPIPE has been reset before it sent anything, which
\* only an abort does.
LEMMA HandlerKilledKeeps ==
  ASSUME DataInv, HandlerKilled
  PROVE  DataInv' /\ call = "aborted"
<1>. USE DEF HandlerKilled, Close, client, arguments, history
<1>1. /\ rst["client"] /\ hpc' = "killed" /\ sent["server"] = <<>>
      /\ sock["server"] = "broken" /\ sock'["server"] = "closed"
      /\ sock'["client"] = sock["client"] /\ rst' = rst /\ shut'["client"] = shut["client"]
  BY Sides DEF DataInv, TypeOK, StreamTypeOK, Sockets, Side
<1>2. call = "aborted"
  BY <1>1 DEF DataInv, ServerProgress
<1>3. TypeOK'
  BY DEF DataInv, TypeOK, StreamTypeOK, Side
<1>4. Positions'
  BY <1>1, Sides DEF DataInv, TypeOK, StreamTypeOK, Positions
<1>5. Sockets'
  BY <1>1, Sides DEF DataInv, Sockets
<1>6. ServerProgress' /\ Bytes'
  BY <1>1, <1>2 DEF DataInv, ServerProgress, Abandoned, Bytes, reply
<1>7. Sending' /\ Receiving'
  BY <1>1 DEF DataInv, Sending, Receiving
<1>. QED
  BY <1>2, <1>3, <1>4, <1>5, <1>6, <1>7 DEF DataInv, EofMeansWhole, reply

LEMMA HandlerClosesKeeps ==
  ASSUME DataInv, HandlerCloses
  PROVE  DataInv'
<1>. USE DEF HandlerCloses, Close, client, arguments, history
<1>1. TypeOK'
  BY DEF DataInv, TypeOK, StreamTypeOK, Side
<1>2. sock["server"] # "closed" /\ ~shut["server"]
  BY DEF DataInv, Sockets
<1>3. /\ sock'["client"] = sock["client"] /\ sock'["server"] = "closed"
      /\ rst'["client"] = rst["client"] /\ shut'["client"] = shut["client"]
  BY DEF DataInv, TypeOK, StreamTypeOK, Side
<1>4. Positions'
  BY <1>1, <1>3, Sides DEF DataInv, TypeOK, StreamTypeOK, Positions
<1>5. Sockets'
  BY <1>1, <1>2, <1>3, Sides DEF DataInv, TypeOK, StreamTypeOK, Sockets
<1>6. ServerProgress' /\ Bytes'
  BY <1>3 DEF DataInv, ServerProgress, Abandoned, Bytes, reply
<1>7. Sending' /\ Receiving'
  BY <1>3 DEF DataInv, Sending, Receiving
<1>. QED
  BY <1>1, <1>4, <1>5, <1>6, <1>7 DEF DataInv, EofMeansWhole, reply

-----------------------------------------------------------------------------
(* The network.                                                            *)

LEMMA ArriveKeeps ==
  ASSUME DataInv, NEW s \in Side, Arrive(s), UNCHANGED <<client, server>>
  PROVE  DataInv'
<1>. USE DEF Arrive, client, server, arguments, history
<1>1. PICK n \in 1 .. Coming(s) : got' = [got EXCEPT ![s] = @ + n]
  OBVIOUS
<1>2. /\ got[s] \in Nat /\ Len(sent[Peer(s)]) \in Nat
      /\ n \in Nat \ {0} /\ got[s] + n <= Len(sent[Peer(s)])
  BY Sides, SMTT(30) DEF Coming, DataInv, TypeOK, StreamTypeOK
<1>3. TypeOK'
  <2>1. got \in [Side -> Nat]
    BY DEF DataInv, TypeOK, StreamTypeOK
  <2>2. got[s] + n \in Nat
    BY <1>2
  <2>3. got' \in [Side -> Nat]
    BY <1>1, <2>1, <2>2
  <2>. QED
    BY <2>3 DEF DataInv, TypeOK, StreamTypeOK
<1>4. ~fin[s]
  BY <1>2 DEF DataInv, Positions
<1>5. Positions'
  BY <1>1, <1>2, <1>4, Sides, SMTT(30) DEF DataInv, TypeOK, StreamTypeOK, Positions
<1>6. Sockets' /\ ServerProgress' /\ Bytes' /\ Sending'
  BY DEF DataInv, Sockets, ServerProgress, Abandoned, Bytes, Sending, reply
<1>7. Receiving'
  <2>1. s = "client" \/ got'["client"] = got["client"]
    BY <1>1 DEF DataInv, TypeOK, StreamTypeOK, Side
  <2>. QED
    BY <2>1 DEF DataInv, Receiving
<1>. QED
  BY <1>3, <1>5, <1>6, <1>7 DEF DataInv, EofMeansWhole, reply

LEMMA ArriveClosedKeeps ==
  ASSUME DataInv, NEW s \in Side, ArriveClosed(s), UNCHANGED <<client, server>>
  PROVE  DataInv'
<1>. USE DEF ArriveClosed, client, server, arguments, history
<1>1. TypeOK'
  BY DEF DataInv, TypeOK, StreamTypeOK
<1>2. Sockets'
  BY Sides DEF DataInv, TypeOK, StreamTypeOK, Sockets
<1>3. ServerProgress'
  <2>1. s = "client" => sent["server"] # <<>>
    BY EmptySeq, Sides DEF Coming, DataInv, TypeOK, StreamTypeOK
  <2>. QED
    BY <2>1, Sides DEF DataInv, TypeOK, StreamTypeOK, ServerProgress, Abandoned, reply
<1>4. Positions' /\ Bytes' /\ Sending' /\ Receiving'
  BY DEF DataInv, Positions, Bytes, Sending, Receiving, reply
<1>. QED
  BY <1>1, <1>2, <1>3, <1>4 DEF DataInv, EofMeansWhole, reply

LEMMA ArriveFinKeeps ==
  ASSUME DataInv, NEW s \in Side, ArriveFin(s), UNCHANGED <<client, server>>
  PROVE  DataInv'
<1>. USE DEF ArriveFin, client, server, arguments, history
<1>1. TypeOK'
  BY DEF DataInv, TypeOK, StreamTypeOK
<1>2. got[s] = Len(sent[Peer(s)])
  <2>1. Len(sent[Peer(s)]) - got[s] = 0
    BY DEF Coming
  <2>. QED
    BY <2>1, Numbers, Sides
<1>3. Positions'
  BY <1>2, Sides DEF DataInv, TypeOK, StreamTypeOK, Positions
<1>4. fin'[s] /\ \A t \in Side : fin[t] => fin'[t]
  BY DEF DataInv, TypeOK, StreamTypeOK
<1>5. Sockets' /\ ServerProgress'
  BY <1>4, Sides DEF DataInv, Sockets, ServerProgress, Abandoned, reply
<1>6. Bytes' /\ Sending'
  BY DEF DataInv, Bytes, Sending, reply
<1>7. Receiving'
  BY <1>4, Sides DEF DataInv, Receiving
<1>. QED
  BY <1>1, <1>3, <1>4, <1>5, <1>6, <1>7, Sides DEF DataInv, EofMeansWhole, reply

LEMMA ArriveResetKeeps ==
  ASSUME DataInv, NEW s \in Side, ArriveReset(s), UNCHANGED <<client, server>>
  PROVE  DataInv'
<1>. USE DEF ArriveReset, client, server, arguments, history
<1>1. TypeOK'
  BY DEF DataInv, TypeOK, StreamTypeOK
<1>2. Sockets'
  BY Sides DEF DataInv, TypeOK, StreamTypeOK, Sockets
<1>3. Positions' /\ Bytes' /\ Sending'
  BY DEF DataInv, Positions, Bytes, Sending, reply
<1>4. Receiving'
  BY Sides DEF DataInv, TypeOK, StreamTypeOK, Receiving
<1>5. ServerProgress'
  <2>1. sock["server"] # "open" => sock'["server"] # "open"
    BY DEF DataInv, TypeOK, StreamTypeOK
  <2>. QED
    BY <2>1 DEF DataInv, ServerProgress, Abandoned, reply
<1>. QED
  BY <1>1, <1>2, <1>3, <1>4, <1>5 DEF DataInv, EofMeansWhole, reply

-----------------------------------------------------------------------------
(* Every step is one of the contract.                                      *)

\* A beginning of a beginning.
LEMMA PrefixOfPrefix ==
  ASSUME NEW S, NEW s \in Seq(S), NEW t \in Seq(S), NEW u \in Seq(S),
         Len(s) <= Len(t), s = SubSeq(t, 1, Len(s)),
         Len(t) <= Len(u), t = SubSeq(u, 1, Len(t))
  PROVE  s = SubSeq(u, 1, Len(s))
<1>1. Len(s) \in 0 .. Len(t) /\ Len(t) \in 0 .. Len(u) /\ Len(s) \in 0 .. Len(u)
  OBVIOUS
<1>2. \A i \in 1 .. Len(s) : s[i] = u[i]
  <2>. TAKE i \in 1 .. Len(s)
  <2>1. s[i] = t[i]
    BY <1>1, PrefixTyped
  <2>2. i \in 1 .. Len(t)
    BY <1>1
  <2>3. t[i] = u[i]
    BY <1>1, <2>2, PrefixTyped
  <2>. QED
    BY <2>1, <2>3
<1>3. /\ SubSeq(u, 1, Len(s)) \in Seq(S)
      /\ Len(SubSeq(u, 1, Len(s))) = Len(s)
      /\ \A i \in 1 .. Len(s) : SubSeq(u, 1, Len(s))[i] = u[i]
  BY <1>1, PrefixTyped
<1>. QED
  BY <1>2, <1>3, SeqEqual

LEMMA SendSomeAsks ==
  ASSUME DataInv, NEW n \in Piece, SendSome(n)
  PROVE  C!Ask
<1>. DEFINE piece == SubSeq(data, totalSent + 1, totalSent + n)
<1>1. /\ sent["client"] \in Seq(Char) /\ Len(sent["client"]) \in Nat
      /\ piece \in Seq(Char) /\ Len(piece) = n /\ n \in Nat \ {0}
  <2>1. sent["client"] \in Seq(Char) /\ Len(sent["client"]) \in Nat
    BY DEF DataInv, TypeOK, StreamTypeOK, Side
  <2>2. piece \in Seq(Char) /\ Len(piece) = n
    BY SendSomePuts
  <2>3. n \in Nat \ {0}
    BY StreamAssumption DEF Piece
  <2>. QED
    BY <2>1, <2>2, <2>3
<1>2. sent'["client"] = sent["client"] \o piece
  BY SendSomePuts DEF DataInv, TypeOK, StreamTypeOK, Side
<1>. HIDE DEF piece
<1>3. Len(sent'["client"]) > Len(sent["client"])
  BY <1>1, <1>2, ConcatProperties
<1>4. SubSeq(sent'["client"], 1, Len(sent["client"])) = sent["client"]
  BY <1>1, <1>2, PrefixOfLonger, SubSeqFull
<1>5. sent'["server"] = sent["server"]
  BY SendSomePuts DEF DataInv, TypeOK, StreamTypeOK, Side
<1>. QED
  BY <1>3, <1>4, <1>5 DEF C!Ask, SendSome, Put, Accepts, server, reply

LEMMA ReceiveIsOfAnswer ==
  ASSUME DataInv, DataInv', InReceive
  PROVE  C!Receive \/ UNCHANGED C!cvars
<1>1. /\ UNCHANGED <<sent, shut, handler, hpc, buf>>
      /\ \/ UNCHANGED returned
         \/ \E more \in Seq(Char) : returned' = returned \o more
  <2>1. CASE ReceiveSome
    <3>1. \/ UNCHANGED returned
          \/ returned' = returned \o (out \o Incoming("client", Received))
      BY <2>1 DEF ReceiveSome
    <3>2. out \o Incoming("client", Received) \in Seq(Char)
      BY <2>1, ReceivedTyped
    <3>. QED
      BY <2>1, <3>1, <3>2 DEF ReceiveSome, Take, server
  <2>2. CASE ReceiveEnd
    BY <2>2 DEF ReceiveEnd, stream, server, DataInv, TypeOK
  <2>3. CASE ReceiveFails
    BY <2>3 DEF ReceiveFails, Report, server
  <2>. QED
    BY <2>1, <2>2, <2>3 DEF InReceive
<1>2. reply' = reply
  BY <1>1 DEF reply
<1>3. CASE UNCHANGED returned
  BY <1>1, <1>2, <1>3 DEF C!cvars
<1>4. CASE returned' # returned
  <2>1. PICK more \in Seq(Char) : returned' = returned \o more
    BY <1>1, <1>4
  <2>2. /\ returned \in Seq(Char) /\ returned' \in Seq(Char) /\ out' \in Seq(Char)
        /\ sent["server"] \in Seq(Char) /\ reply \in Seq(Char)
        /\ taken'["client"] \in 0 .. Len(sent["server"])
    <3>1. returned \in Seq(Char) /\ returned' \in Seq(Char) /\ out' \in Seq(Char)
      BY DEF DataInv, TypeOK
    <3>2. sent["server"] \in Seq(Char) /\ reply \in Seq(Char)
      BY ReplyOfBuffer, Sides DEF DataInv, TypeOK, StreamTypeOK
    <3>3. /\ taken'["client"] \in Nat /\ got'["client"] \in Nat
          /\ taken'["client"] <= got'["client"] /\ got'["client"] <= Len(sent'["server"])
      BY Sides DEF DataInv, TypeOK, StreamTypeOK, Positions
    <3>4. Len(sent["server"]) \in Nat /\ sent'["server"] = sent["server"]
      BY <1>1, <3>2
    <3>. QED
      BY <3>1, <3>2, <3>3, <3>4
  <2>3. Len(more) \in Nat \ {0} /\ Len(returned') = Len(returned) + Len(more)
    BY <1>4, <2>1, <2>2, ConcatProperties, ConcatEmptySeq, EmptySeq
  <2>4. Len(returned') > Len(returned) /\ Len(returned') \in Nat \ {0}
    BY <2>2, <2>3
  <2>5. Len(returned') <= Len(sent["server"]) /\ returned' = SubSeq(sent["server"], 1, Len(returned'))
    <3>1. CASE returned' \o out' = SubSeq(sent["server"], 1, taken'["client"])
      <4>1. Len(returned') <= taken'["client"] /\ returned' = SubSeq(sent["server"], 1, Len(returned'))
        BY <2>2, <3>1, LeftIsPrefix
      <4>. QED
        BY <2>2, <2>4, <4>1
    <3>2. CASE ~(returned' \o out' = SubSeq(sent["server"], 1, taken'["client"]))
      BY <1>1, <3>2 DEF DataInv, Receiving
    <3>. QED
      BY <3>1, <3>2
  <2>6. Len(sent["server"]) <= Len(reply) /\ sent["server"] = SubSeq(reply, 1, Len(sent["server"]))
    BY DEF DataInv, Bytes
  <2>7. returned' = SubSeq(reply, 1, Len(returned'))
    BY <2>2, <2>5, <2>6, PrefixOfPrefix
  <2>8. Len(returned') \in 1 .. Len(reply)
    BY <2>2, <2>4, <2>5, <2>6
  <2>9. sent["server"] # <<>>
    BY <2>2, <2>4, <2>5, EmptySeq
  <2>. QED
    BY <1>1, <1>2, <2>4, <2>7, <2>8, <2>9 DEF C!Receive
<1>. QED
  BY <1>3, <1>4

\* One send() of a reply lengthens what is sent.
LEMMA HandlerSendsPuts ==
  ASSUME DataInv, NEW n \in Piece, HandlerSends(n)
  PROVE  Len(sent'["server"]) = Len(sent["server"]) + n
<1>. DEFINE k == Len(sent["server"])
            piece == SubSeq(reply, k + 1, k + n)
<1>1. /\ sent["server"] \in Seq(Char) /\ reply \in Seq(Char) /\ k \in Nat /\ Len(reply) \in Nat
      /\ hpc = "send" /\ k < Len(reply) /\ sock["server"] = "open" /\ Window \in Nat
  BY ReplyOfBuffer, StreamAssumption
     DEF HandlerSends, Accepts, DataInv, TypeOK, StreamTypeOK, Side, ServerProgress, Abandoned
<1>2. n \in Nat \ {0} /\ n \in 0 .. Len(reply) - k
  <2>1. Room("server") \in Int /\ Len(reply) - k \in Int
    BY <1>1, Sides DEF Room, DataInv, TypeOK, StreamTypeOK
  <2>2. /\ Min({Room("server"), Len(reply) - k}) \in {Room("server"), Len(reply) - k}
        /\ Min({Room("server"), Len(reply) - k}) <= Len(reply) - k
    BY <2>1, MinIsLeast, Zenon
  <2>3. n \in Nat \ {0} /\ n <= Min({Room("server"), Len(reply) - k})
    BY <1>1 DEF HandlerSends, Piece
  <2>. QED
    BY <1>1, <2>1, <2>2, <2>3
<1>3. piece \in Seq(Char) /\ Len(piece) = n
  <2>1. k \in 0 .. Len(reply)
    BY <1>1
  <2>. QED
    BY <1>1, <1>2, <2>1, PieceTyped
<1>4. /\ sent' = [sent EXCEPT !["server"] = @ \o piece]
      /\ hpc' = IF k + n < Len(reply) THEN "send" ELSE "close"
      /\ UNCHANGED <<got, taken, shut, fin, sock, rst, client, handler, buf>>
  BY DEF HandlerSends, Put
<1>5. sent["server"] \o piece \in Seq(Char) /\ Len(sent["server"] \o piece) = k + n
  BY <1>1, <1>3, ConcatProperties
<1>. HIDE DEF piece
<1>6. sent'["server"] = sent["server"] \o piece
  BY <1>4, Sides DEF DataInv, TypeOK, StreamTypeOK
<1>. QED
  BY <1>5, <1>6

\* The answer is given with its first byte.
LEMMA FirstByteAnswers ==
  ASSUME DataInv, NEW n \in Piece, HandlerSends(n), sent["server"] = <<>>
  PROVE  C!Answer
<1>. DEFINE k == taken["server"]
<1>1. /\ hpc = "send" /\ sock["server"] = "open"
      /\ UNCHANGED <<shut, handler, buf, returned, reply>> /\ sent'["client"] = sent["client"]
  BY DEF HandlerSends, Accepts, Put, client, history, reply, DataInv, TypeOK, StreamTypeOK, Side
<1>2. sent'["server"] # <<>>
  <2>1. Len(sent'["server"]) = Len(sent["server"]) + n /\ n \in Nat \ {0}
    BY HandlerSendsPuts, StreamAssumption DEF Piece
  <2>. QED
    BY <2>1, EmptySeq
<1>3. /\ buf # <<>> /\ buf = SubSeq(sent["client"], 1, k)
      /\ k \in 0 .. Len(sent["client"])
      /\ ReadsOnce(handler) \/ (shut["client"] /\ k = Len(sent["client"]))
  <2>1. buf # <<>> /\ buf = SubSeq(sent["client"], 1, k)
    BY <1>1 DEF DataInv, ServerProgress, Bytes
  <2>2. /\ k \in Nat /\ got["server"] \in Nat /\ k <= got["server"]
        /\ got["server"] <= Len(sent["client"]) /\ Len(sent["client"]) \in Nat
        /\ fin["server"] => shut["client"]
    BY Sides DEF DataInv, TypeOK, StreamTypeOK, Positions
  <2>3. ReadsOnce(handler) \/ (fin["server"] /\ k = Len(sent["client"]))
    BY <1>1 DEF DataInv, ServerProgress, Abandoned
  <2>. QED
    BY <2>1, <2>2, <2>3
<1>4. k # 0
  BY <1>3, SubSeqEmpty
<1>5. k \in 1 .. Len(sent["client"])
  BY <1>3, <1>4
<1>6. reply = Reply(handler, SubSeq(sent["client"], 1, k))
  BY <1>3 DEF reply
<1>. HIDE DEF k
<1>. QED
  BY <1>1, <1>2, <1>3, <1>5, <1>6 DEF C!Answer

LEMMA ThreadAnswers ==
  ASSUME DataInv, Thread
  PROVE  C!Answer \/ UNCHANGED C!cvars
<1>1. CASE HandlerReads \/ HandlerEnds
  <2>1. UNCHANGED <<sent, shut, handler, returned>> /\ hpc = "read"
    BY <1>1 DEF HandlerReads, HandlerEnds, Take, Report, client, history
  <2>2. sent["server"] = <<>>
    BY <2>1 DEF DataInv, ServerProgress
  <2>. QED
    BY <2>1, <2>2 DEF C!cvars
<1>2. ASSUME NEW n \in Piece, HandlerSends(n)
      PROVE  C!Answer \/ UNCHANGED C!cvars
  <2>1. CASE sent["server"] = <<>>
    BY <1>2, <2>1, FirstByteAnswers
  <2>2. CASE sent["server"] # <<>>
    <3>1. UNCHANGED <<shut, handler, buf, returned, reply>> /\ sent'["client"] = sent["client"]
      BY <1>2 DEF HandlerSends, Put, client, history, reply, DataInv, TypeOK, StreamTypeOK, Side
    <3>2. sent'["server"] # <<>>
      <4>1. Len(sent'["server"]) = Len(sent["server"]) + n /\ n \in Nat \ {0}
        BY <1>2, HandlerSendsPuts, StreamAssumption DEF Piece
      <4>2. Len(sent["server"]) \in Nat
        BY Sides DEF DataInv, TypeOK, StreamTypeOK
      <4>. QED
        BY <4>1, <4>2, EmptySeq
    <3>. QED
      BY <2>2, <3>1, <3>2 DEF C!cvars
  <2>. QED
    BY <2>1, <2>2
<1>3. CASE HandlerSendFails \/ HandlerKilled \/ HandlerCloses
  <2>1. sent' = sent /\ shut'["client"] = shut["client"] /\ UNCHANGED <<handler, buf, returned>>
    BY <1>3 DEF HandlerSendFails, HandlerKilled, HandlerCloses, Report, Close, client, history,
       DataInv, TypeOK, StreamTypeOK, Side
  <2>. QED
    BY <2>1 DEF C!cvars, reply
<1>. QED
  BY <1>1, <1>2, <1>3 DEF Thread

-----------------------------------------------------------------------------
(* The theorems.                                                           *)

LEMMA NextKeeps ==
  ASSUME DataInv, [Next]_vars
  PROVE  DataInv'
<1>1. CASE UNCHANGED vars
  <2>. USE <1>1 DEF vars, stream, client, server, arguments, history, reply
  <2>1. TypeOK' /\ Positions'
    BY DEF DataInv, TypeOK, StreamTypeOK, Positions
  <2>2. Sockets' /\ ServerProgress' /\ Bytes'
    BY DEF DataInv, Sockets, ServerProgress, Abandoned, Bytes
  <2>3. Sending' /\ Receiving'
    BY DEF DataInv, Sending, Receiving
  <2>. QED
    BY <2>1, <2>2, <2>3 DEF DataInv, EofMeansWhole
<1>2. ASSUME NEW h \in Handler, Connect(h) PROVE DataInv'
  BY <1>2, ConnectKeeps
<1>3. CASE Disconnect
  BY <1>3, DisconnectKeeps
<1>4. CASE ShutdownWrite \/ ClientAborts
  BY <1>4, ShutdownWriteKeeps, ClientAbortsKeeps
<1>5. ASSUME NEW m \in Message, SendBegin(m) PROVE DataInv'
  BY <1>5, SendBeginKeeps
<1>6. ASSUME NEW k \in MaxSize, ReceiveBegin(k) PROVE DataInv'
  BY <1>6, ReceiveBeginKeeps
<1>7. CASE InSend
  BY <1>7, SendSomeKeeps, SendFailsKeeps, SendKilledKeeps DEF InSend
<1>8. CASE InReceive
  BY <1>8, ReceiveSomeKeeps, ReceiveEndKeeps, ReceiveFailsKeeps DEF InReceive
<1>9. CASE Thread
  BY <1>9, HandlerReadsKeeps, HandlerEndsKeeps, HandlerSendsKeeps, HandlerSendFailsKeeps,
     HandlerKilledKeeps, HandlerClosesKeeps DEF Thread
<1>10. CASE Deliver
  BY <1>10, ArriveKeeps, ArriveClosedKeeps, ArriveFinKeeps, ArriveResetKeeps DEF Deliver, Network
<1>. QED
  BY <1>1, <1>2, <1>3, <1>4, <1>5, <1>6, <1>7, <1>8, <1>9, <1>10 DEF Next

-----------------------------------------------------------------------------
(* Nobody is left waiting: the rest of the invariant, and NeverStuck.      *)

\* What one read() of a handler returns.
LEMMA OfferedTyped ==
  ASSUME DataInv, HandlerReads
  PROVE  LET n == Min({Queued("server"), HandlerBuffer})
         IN  /\ n \in Nat \ {0} /\ n <= Queued("server") /\ n <= HandlerBuffer
             /\ Incoming("server", n) \in Seq(Char)
             /\ Len(Incoming("server", n)) = n
<1>. DEFINE n == Min({Queued("server"), HandlerBuffer})
<1>1. /\ sent["client"] \in Seq(Char) /\ taken["server"] \in Nat /\ got["server"] \in Nat
      /\ got["server"] <= Len(sent["client"]) /\ taken["server"] < got["server"]
      /\ Len(sent["client"]) \in Nat
  BY Sides DEF HandlerReads, Queued, DataInv, TypeOK, StreamTypeOK, Positions
<1>2. Queued("server") = got["server"] - taken["server"]
  BY DEF Queued
<1>3. Queued("server") \in Nat \ {0} /\ HandlerBuffer \in Nat \ {0}
  BY <1>1, <1>2, SessionAssumption
<1>4. n \in {Queued("server"), HandlerBuffer} /\ n <= Queued("server") /\ n <= HandlerBuffer
  <2>1. Queued("server") \in Int /\ HandlerBuffer \in Int
    BY <1>3
  <2>. QED
    BY <2>1, MinIsLeast, Zenon
<1>. HIDE DEF n
<1>5. Incoming("server", n) = SubSeq(sent["client"], taken["server"] + 1, taken["server"] + n)
  BY Sides DEF Incoming
<1>6. taken["server"] \in 0 .. Len(sent["client"]) /\ n \in 0 .. Len(sent["client"]) - taken["server"]
  BY <1>1, <1>2, <1>3, <1>4
<1>7. Incoming("server", n) \in Seq(Char) /\ Len(Incoming("server", n)) = n
  <2>. DEFINE inc == Incoming("server", n)
  <2>1. inc = SubSeq(sent["client"], taken["server"] + 1, taken["server"] + n)
    BY <1>5
  <2>. HIDE DEF inc
  <2>2. inc \in Seq(Char) /\ Len(inc) = n
    BY <1>1, <1>6, <2>1, PieceTyped
  <2>. QED
    BY <2>2 DEF inc
<1>. QED
  BY <1>3, <1>4, <1>7 DEF n

LEMMA OneReadKept ==
  ASSUME DataInv, OneRead, [Next]_vars
  PROVE  OneRead'
<1>0. Len(<<>>) = 0 /\ HandlerBuffer \in Nat
  BY EmptySeq, SessionAssumption
<1>1. CASE UNCHANGED server
  BY <1>1 DEF OneRead, server
<1>2. ASSUME NEW h \in Handler, Connect(h) PROVE OneRead'
  BY <1>0, <1>2 DEF Connect, OneRead
<1>3. CASE HandlerReads
  <2>. DEFINE n == Min({Queued("server"), HandlerBuffer})
  <2>1. /\ handler' = handler /\ hpc = "read" /\ buf' = buf \o Incoming("server", n)
        /\ ReadsOnce(handler) => hpc' = "send"
    BY <1>3 DEF HandlerReads
  <2>2. n <= HandlerBuffer /\ Incoming("server", n) \in Seq(Char) /\ Len(Incoming("server", n)) = n
    BY <1>3, OfferedTyped
  <2>. HIDE DEF n
  <2>3. ASSUME ReadsOnce(handler)
        PROVE  Len(buf') <= HandlerBuffer
    <3>1. buf = <<>>
      BY <2>1, <2>3 DEF OneRead
    <3>2. buf' = Incoming("server", n)
      BY <2>1, <2>2, <3>1, ConcatEmptySeq
    <3>. QED
      BY <2>2, <3>2
  <2>4. ReadsOnce(handler') = ReadsOnce(handler)
    BY <2>1
  <2>. QED
    BY <2>1, <2>3, <2>4 DEF OneRead
<1>4. CASE HandlerEnds \/ (\E n \in Piece : HandlerSends(n)) \/ HandlerSendFails
           \/ HandlerKilled \/ HandlerCloses
  <2>1. handler' = handler /\ buf' = buf /\ hpc' # "read"
    BY <1>4 DEF HandlerEnds, HandlerSends, HandlerSendFails, HandlerKilled, HandlerCloses
  <2>. QED
    BY <2>1 DEF OneRead
<1>5. CASE Disconnect \/ ShutdownWrite \/ ClientAborts \/ (\E m \in Message : SendBegin(m))
           \/ (\E k \in MaxSize : ReceiveBegin(k))
  BY <1>1, <1>5 DEF Disconnect, ShutdownWrite, ClientAborts, SendBegin, ReceiveBegin, server
<1>6. CASE InSend \/ InReceive
  BY <1>1, <1>6 DEF InSend, InReceive, SendSome, SendFails, SendKilled, ReceiveSome, ReceiveEnd,
                    ReceiveFails, server
<1>7. CASE Deliver \/ UNCHANGED vars
  BY <1>1, <1>7 DEF Deliver, vars
<1>. QED
  BY <1>2, <1>3, <1>4, <1>5, <1>6, <1>7 DEF Next, Thread

LEMMA FarewellKept ==
  ASSUME DataInv, Farewell, [Next]_vars
  PROVE  Farewell'
<1>. USE DEF Queued
<1>1. hpc = "done" => sock["server"] = "closed"
  BY Sides DEF DataInv, Sockets
<1>2. ASSUME UNCHANGED <<connected, hpc>>, shut'["server"] = shut["server"],
             rst["server"] => rst'["server"],
             hpc = "done" => got'["server"] = got["server"] /\ taken'["server"] = taken["server"]
      PROVE  Farewell'
  BY <1>2 DEF Farewell
<1>3. ASSUME NEW h \in Handler, Connect(h) PROVE Farewell'
  BY <1>3 DEF Connect, Farewell
<1>4. CASE Disconnect \/ SendKilled \/ ClientAborts
  BY <1>4 DEF Disconnect, SendKilled, ClientAborts, Farewell
<1>5. CASE ShutdownWrite \/ (\E m \in Message : SendBegin(m)) \/ (\E k \in MaxSize : ReceiveBegin(k))
  <2>1. /\ UNCHANGED <<connected, hpc, got, taken, rst>>
        /\ shut' = shut \/ shut' = [shut EXCEPT !["client"] = TRUE]
    BY <1>5 DEF ShutdownWrite, ShutWriting, SendBegin, ReceiveBegin, stream, server
  <2>2. shut'["server"] = shut["server"]
    BY <2>1 DEF DataInv, TypeOK, StreamTypeOK, Side
  <2>. QED
    BY <1>2, <2>1, <2>2
<1>6. CASE (\E n \in Piece : SendSome(n)) \/ SendFails \/ ReceiveEnd
  <2>1. UNCHANGED <<connected, hpc, got, taken, shut, rst>>
    BY <1>6 DEF SendSome, Put, SendFails, ReceiveEnd, Report, stream, server
  <2>. QED
    BY <1>2, <2>1
<1>7. CASE ReceiveSome \/ ReceiveFails
  <2>1. /\ UNCHANGED <<connected, hpc, got, shut, rst>>
        /\ taken' = taken \/ taken' = [taken EXCEPT !["client"] = @ + Received]
    BY <1>7 DEF ReceiveSome, ReceiveFails, Take, Report, server
  <2>2. taken'["server"] = taken["server"]
    BY <2>1 DEF DataInv, TypeOK, StreamTypeOK, Side
  <2>. QED
    BY <1>2, <2>1, <2>2
<1>8. CASE HandlerReads \/ HandlerEnds \/ (\E n \in Piece : HandlerSends(n)) \/ HandlerSendFails
           \/ HandlerKilled
  BY <1>8 DEF HandlerReads, HandlerEnds, HandlerSends, HandlerSendFails, HandlerKilled, Farewell
<1>9. CASE HandlerCloses
  <2>1. ASSUME connected
        PROVE  sock["server"] = "open"
    <3>1. ~rst["client"] /\ sock["server"] # "closed"
      BY <1>9, <2>1, Sides DEF HandlerCloses, DataInv, Sockets
    <3>. QED
      BY <3>1, Sides DEF DataInv, Sockets, TypeOK, StreamTypeOK
  <2>2. /\ connected' = connected /\ got' = got /\ taken' = taken
        /\ rst'["server"] = (rst["server"] \/ (sock["server"] = "open" /\ got["server"] - taken["server"] > 0))
        /\ shut'["server"] = (shut["server"] \/ ~(sock["server"] = "open" /\ got["server"] - taken["server"] > 0))
    BY <1>9, Sides DEF HandlerCloses, Close, client, DataInv, TypeOK, StreamTypeOK
  <2>. QED
    BY <2>1, <2>2 DEF Farewell
<1>10. ASSUME NEW s \in Side, Network(s), UNCHANGED <<client, server>> PROVE Farewell'
  <2>1. UNCHANGED <<connected, hpc, taken, shut>>
    BY <1>10 DEF Network, Arrive, ArriveClosed, ArriveFin, ArriveReset, client, server
  <2>2. rst["server"] => rst'["server"]
    BY <1>10 DEF Network, Arrive, ArriveClosed, ArriveFin, ArriveReset, DataInv, TypeOK, StreamTypeOK, Side
  <2>3. hpc = "done" => got'["server"] = got["server"]
    BY <1>1, <1>10, Sides DEF Network, Arrive, ArriveClosed, ArriveFin, ArriveReset, DataInv, TypeOK, StreamTypeOK
  <2>. QED
    BY <1>2, <2>1, <2>2, <2>3
<1>11. CASE UNCHANGED vars
  BY <1>2, <1>11 DEF vars, stream, client, server
<1>. QED
  BY <1>3, <1>4, <1>5, <1>6, <1>7, <1>8, <1>9, <1>10, <1>11 DEF Next, InSend, InReceive, Thread, Deliver

LEMMA BrokenBehindFinKept ==
  ASSUME DataInv, OneRead, BrokenBehindFin, [Next]_vars
  PROVE  BrokenBehindFin'
<1>1. ASSUME UNCHANGED <<handler, hpc>>, sock'["server"] = sock["server"], fin'["server"] = fin["server"]
      PROVE  BrokenBehindFin'
  BY <1>1 DEF BrokenBehindFin, ReadsOnce
<1>2. ASSUME NEW h \in Handler, Connect(h) PROVE BrokenBehindFin'
  BY <1>2, Sides DEF Connect, Establish, BrokenBehindFin
<1>3. CASE Disconnect \/ SendKilled \/ ClientAborts \/ ShutdownWrite
  <2>1. UNCHANGED <<handler, hpc, fin>> /\ sock'["server"] = sock["server"]
    BY <1>3 DEF Disconnect, SendKilled, ClientAborts, ShutdownWrite, Close, Abort, ShutWriting, stream,
                server, DataInv, TypeOK, StreamTypeOK, Side
  <2>. QED
    BY <1>1, <2>1
<1>4. CASE (\E m \in Message : SendBegin(m)) \/ (\E k \in MaxSize : ReceiveBegin(k))
           \/ (\E n \in Piece : SendSome(n)) \/ ReceiveSome \/ ReceiveEnd \/ UNCHANGED vars
  <2>1. UNCHANGED <<handler, hpc, fin, sock>>
    BY <1>4 DEF SendBegin, ReceiveBegin, SendSome, ReceiveSome, ReceiveEnd, Put, Take, stream, server, vars
  <2>. QED
    BY <1>1, <2>1
<1>5. CASE SendFails \/ ReceiveFails
  <2>1. UNCHANGED <<handler, hpc, fin>> /\ sock'["server"] = sock["server"]
    BY <1>5 DEF SendFails, ReceiveFails, Report, server, DataInv, TypeOK, StreamTypeOK, Side
  <2>. QED
    BY <1>1, <2>1
<1>6. CASE HandlerReads
  BY <1>6 DEF HandlerReads, Take, BrokenBehindFin, ReadsOnce
<1>7. CASE HandlerEnds
  <2>1. handler' = handler /\ (ReadsOnce(handler) => hpc' = "close")
    BY <1>7 DEF HandlerEnds, OneRead
  <2>. QED
    BY <2>1 DEF BrokenBehindFin, ReadsOnce
<1>8. ASSUME NEW n \in Piece, HandlerSends(n) PROVE BrokenBehindFin'
  BY <1>8 DEF HandlerSends, Accepts, Put, BrokenBehindFin
<1>9. CASE HandlerSendFails \/ HandlerKilled \/ HandlerCloses
  BY <1>9 DEF HandlerSendFails, HandlerKilled, HandlerCloses, BrokenBehindFin
<1>10. ASSUME NEW s \in Side, Network(s), UNCHANGED <<client, server>> PROVE BrokenBehindFin'
  <2>1. UNCHANGED <<handler, hpc>>
    BY <1>10 DEF server
  <2>2. fin["server"] => fin'["server"]
    BY <1>10 DEF Network, Arrive, ArriveClosed, ArriveFin, ArriveReset, DataInv, TypeOK, StreamTypeOK, Side
  <2>3. sock'["server"] = sock["server"] \/ (sock'["server"] = "broken" => fin["server"])
    BY <1>10 DEF Network, Arrive, ArriveClosed, ArriveFin, ArriveReset, DataInv, TypeOK, StreamTypeOK, Side
  <2>. QED
    BY <2>1, <2>2, <2>3 DEF BrokenBehindFin, ReadsOnce
<1>. QED
  BY <1>2, <1>3, <1>4, <1>5, <1>6, <1>7, <1>8, <1>9, <1>10 DEF Next, InSend, InReceive, Thread, Deliver

LEMMA OnlyAbortsKillKept ==
  ASSUME DataInv, BrokenBehindFin, OnlyAbortsKill, [Next]_vars
  PROVE  OnlyAbortsKill'
<1>1. CASE HandlerKilled
  <2>1. call = "aborted" /\ call' = call
    BY <1>1, HandlerKilledKeeps DEF HandlerKilled, client
  <2>2. ReadsOnce(handler) => fin["server"]
    BY <1>1 DEF HandlerKilled, BrokenBehindFin
  <2>3. fin' = fin /\ handler' = handler
    BY <1>1 DEF HandlerKilled, Close
  <2>. QED
    BY <2>1, <2>2, <2>3 DEF OnlyAbortsKill, ReadsOnce
<1>2. CASE UNCHANGED vars
  BY <1>2 DEF vars, client, server, stream, OnlyAbortsKill, ReadsOnce
<1>3. CASE Deliver
  <2>1. UNCHANGED <<call, handler, hpc>>
    BY <1>3 DEF Deliver, client, server
  <2>2. fin["server"] => fin'["server"]
    BY <1>3 DEF Deliver, Network, Arrive, ArriveClosed, ArriveFin, ArriveReset,
                DataInv, TypeOK, StreamTypeOK, Side
  <2>. QED
    BY <2>1, <2>2 DEF OnlyAbortsKill, ReadsOnce
<1>4. ASSUME Next, ~Deliver, hpc' = "killed"
      PROVE  HandlerKilled
  <2>1. CASE hpc = "killed"
    <3>1. call = "aborted" /\ ~connected
      BY <2>1 DEF DataInv, ServerProgress, Abandoned, Sockets, OnlyAbortsKill
    <3>. QED
      BY <1>4, <2>1, <3>1
         DEF Next, InSend, InReceive, Thread, Connect, Disconnect, ShutdownWrite, ClientAborts,
             SendBegin, ReceiveBegin, SendSome, SendFails, SendKilled, ReceiveSome, ReceiveEnd,
             ReceiveFails, Calling, HandlerReads, HandlerEnds, HandlerSends, HandlerSendFails,
             HandlerKilled, HandlerCloses
  <2>2. CASE hpc # "killed"
    BY <1>4, <2>2
       DEF Next, InSend, InReceive, Thread, Connect, Disconnect, ShutdownWrite, ClientAborts,
           SendBegin, ReceiveBegin, SendSome, SendFails, SendKilled, ReceiveSome, ReceiveEnd,
           ReceiveFails, server, HandlerReads, HandlerEnds, HandlerSends, HandlerSendFails,
           HandlerCloses
  <2>. QED
    BY <2>1, <2>2
<1>. QED
  BY <1>1, <1>2, <1>3, <1>4 DEF OnlyAbortsKill

\* The inductive invariant, for every set of messages and sizes, every
\* buffer, window and compression.
THEOREM EchoInvariant == Spec => []EchoInv
<1>1. Init => EchoInv
  <2>1. Init => OneRead /\ Farewell /\ BrokenBehindFin /\ OnlyAbortsKill
    BY SessionAssumption, EmptySeq DEF Init, OneRead, Farewell, BrokenBehindFin, OnlyAbortsKill
  <2>. QED
    BY <2>1, InitKeeps DEF EchoInv
<1>2. EchoInv /\ [Next]_vars => EchoInv'
  BY NextKeeps, OneReadKept, FarewellKept, BrokenBehindFinKept, OnlyAbortsKillKept DEF EchoInv
<1>. QED
  BY <1>1, <1>2, PTL DEF Spec

LEMMA ReplyHasRoom ==
  ASSUME DataInv, OneRead, ReadsOnce(handler)
  PROVE  Len(reply) \in Nat /\ Len(reply) <= Window
<1>1. /\ HandlerBuffer \in Nat /\ Window \in Nat /\ Window >= 2 * HandlerBuffer
      /\ Len(<<>>) = 0
  BY SessionAssumption, StreamAssumption, ReplyFits, EmptySeq
<1>2. reply \in Seq(Char) /\ buf \in Seq(Char) /\ handler \in Handler
  BY ReplyOfBuffer DEF DataInv, TypeOK
<1>3. Len(reply) \in Nat /\ Len(buf) \in Nat /\ Len(buf) <= HandlerBuffer
  BY <1>2 DEF OneRead
<1>4. CASE buf = <<>>
  BY <1>1, <1>4 DEF reply
<1>5. CASE buf # <<>>
  <2>1. Len(buf) <= MaxBytes
    <3>1. Len(buf) = taken["server"] /\ Len(sent["client"]) <= MaxBytes
      BY ReplyOfBuffer
    <3>2. /\ taken["server"] \in Nat /\ got["server"] \in Nat /\ Len(sent["client"]) \in Nat
          /\ taken["server"] <= got["server"] /\ got["server"] <= Len(sent["client"])
      BY Sides DEF DataInv, TypeOK, StreamTypeOK, Positions
    <3>. QED
      BY <3>1, <3>2, SessionAssumption
  <2>2. Len(reply) <= 2 * Len(buf)
    BY <1>2, <1>5, <2>1, ReplyTyped DEF reply
  <2>. QED
    BY <1>1, <1>3, <2>2
<1>. QED
  BY <1>3, <1>4, <1>5

\* If client, thread and network all had to wait, every byte sent would have
\* been taken, and then one of them would not be waiting.
LEMMA SomeoneGoesOn ==
  ASSUME DataInv, OneRead, Farewell,
         call = "send" \/ (call = "recv" /\ AnswerIsDue)
  PROVE  ClientCanGoOn \/ ThreadCanGoOn \/ NetworkCanGoOn("client") \/ NetworkCanGoOn("server")
<1>. SUFFICES ASSUME ~ClientCanGoOn, ~ThreadCanGoOn,
                     ~NetworkCanGoOn("client"), ~NetworkCanGoOn("server")
              PROVE  FALSE
  OBVIOUS
<1>. DEFINE asked == Len(sent["client"])
            answered == Len(sent["server"])
<1>1. /\ taken["server"] \in Nat /\ got["server"] \in Nat /\ asked \in Nat
      /\ taken["client"] \in Nat /\ got["client"] \in Nat /\ answered \in Nat
      /\ taken["server"] <= got["server"] /\ got["server"] <= asked
      /\ taken["client"] <= got["client"] /\ got["client"] <= answered
      /\ Window \in Nat /\ Window > 0
  BY StreamAssumption, Sides DEF DataInv, TypeOK, StreamTypeOK, Positions
<1>2. /\ Queued("client") = got["client"] - taken["client"]
      /\ Queued("server") = got["server"] - taken["server"]
      /\ Coming("client") = answered - got["client"]
      /\ Coming("server") = asked - got["server"]
      /\ Room("client") = Window - (asked - taken["server"])
      /\ Room("server") = Window - (answered - taken["client"])
  BY Sides DEF Queued, Coming, Room
<1>. HIDE DEF asked, answered
<1>3. /\ connected /\ sock["client"] # "closed" /\ ~rst["client"] /\ sock["server"] \in {"open", "closed"}
      /\ hpc \in {"read", "send", "close"} <=> sock["server"] = "open"
      /\ hpc \in {"read", "send", "close", "done"}
      /\ shut["server"] => sock["server"] = "closed"
  BY Sides DEF DataInv, Sockets, ServerProgress, Abandoned, TypeOK, StreamTypeOK
<1>4. /\ call = "send" => sock["client"] = "open" /\ ~shut["client"] /\ ~(Room("client") > 0)
      /\ call = "recv" => sock["client"] = "open" /\ ~fin["client"] /\ Queued("client") = 0
  <2>1. Queued("client") > 0 \/ Queued("client") = 0
    BY <1>1, <1>2
  <2>2. sock["client"] \in {"open", "reset", "broken"}
    BY <1>3, Sides DEF DataInv, TypeOK, StreamTypeOK
  <2>. QED
    BY <2>1, <2>2 DEF ClientCanGoOn, Accepts, Raises, AtEnd, Fails
<1>5. sock["client"] = "open" /\ (call = "send" \/ call = "recv")
  BY <1>4
<1>6. got["client"] = answered /\ ~rst["server"] /\ (shut["server"] => fin["client"])
  <2>1. /\ ~(Coming("client") > 0) /\ ~rst[Peer("client")]
        /\ shut[Peer("client")] => fin["client"]
    BY <1>5, Zenon DEF NetworkCanGoOn
  <2>. QED
    BY <1>1, <1>2, <2>1, Sides
<1>7. ASSUME got["server"] = asked, Queued("server") = 0, ~shut["client"]
      PROVE  call = "recv"
  BY <1>1, <1>2, <1>4, <1>5, <1>7
<1>8. CASE sock["server"] = "closed"
  <2>1. hpc = "done"
    BY <1>3, <1>8
  <2>2. shut["server"] /\ ~(Queued("server") > 0)
    BY <1>3, <1>6, <2>1 DEF Farewell
  <2>3. got["server"] = asked
    BY <1>1, <1>2, <1>6, <1>8 DEF NetworkCanGoOn
  <2>4. call = "recv"
    BY <1>1, <1>2, <1>4, <1>5, <1>7, <2>2, <2>3
  <2>. QED
    BY <1>4, <1>6, <2>2, <2>4
<1>9. CASE sock["server"] = "open"
  <2>1. got["server"] = asked /\ (shut["client"] => fin["server"])
    <3>1. ~(Coming("server") > 0) /\ (shut[Peer("server")] => fin["server"])
      BY <1>9, Zenon DEF NetworkCanGoOn
    <3>. QED
      BY <1>1, <1>2, <3>1, Sides
  <2>2. CASE hpc = "read"
    <3>1. Queued("server") = 0 /\ ~fin["server"]
      <4>1. Queued("server") > 0 \/ Queued("server") = 0
        BY <1>1, <1>2
      <4>. QED
        BY <2>2, <4>1 DEF ThreadCanGoOn, AtEnd
    <3>2. ~shut["client"] /\ call = "recv"
      BY <1>7, <2>1, <3>1
    <3>3. ReadsOnce(handler) /\ sent["client"] # <<>>
      BY <3>2 DEF AnswerIsDue
    <3>4. buf = <<>> /\ Len(buf) = taken["server"]
      BY <2>2, <3>3, ReplyOfBuffer DEF OneRead
    <3>5. asked # 0
      BY <3>3, EmptySeq, Sides DEF DataInv, TypeOK, StreamTypeOK, asked
    <3>. QED
      BY <1>1, <1>2, <2>1, <3>1, <3>4, <3>5, EmptySeq
  <2>3. CASE hpc = "send"
    <3>1. ~(Room("server") > 0)
      BY <1>3, <1>9, <2>3 DEF ThreadCanGoOn, Accepts
    <3>2. CASE call = "recv"
      BY <1>1, <1>2, <1>4, <1>6, <3>1, <3>2
    <3>3. CASE call = "send"
      <4>1. ~fin["server"]
        BY <1>4, <3>3, Sides DEF DataInv, Positions
      <4>2. ReadsOnce(handler) /\ answered < Len(reply)
        BY <2>3, <4>1 DEF DataInv, ServerProgress, Abandoned, answered
      <4>3. Len(reply) \in Nat /\ Len(reply) <= Window
        BY <4>2, ReplyHasRoom
      <4>. QED
        BY <1>1, <1>2, <3>1, <4>2, <4>3
    <3>. QED
      BY <1>5, <3>2, <3>3
  <2>4. CASE hpc = "close"
    BY <2>4 DEF ThreadCanGoOn
  <2>. QED
    BY <1>3, <1>9, <2>2, <2>3, <2>4
<1>. QED
  BY <1>3, <1>8, <1>9

\* In a sendData(), and in a receiveData() to which an answer is due, client,
\* thread and network never all wait for each other: for every buffer size,
\* and any window that holds the reply to one read().
THEOREM NobodyIsStuck == Spec => []NeverStuck
<1>1. EchoInv => NeverStuck
  BY SomeoneGoesOn, Sides DEF EchoInv, NeverStuck
<1>. QED
  BY <1>1, EchoInvariant, PTL

-----------------------------------------------------------------------------
(* Nobody runs in circles: every step but a call of the client uses up some *)
(* of ToGo.                                                                 *)

LEMMA ReplyOfNextBuffer ==
  DataInv' =>
    /\ Len(sent'["client"]) <= MaxBytes
    /\ Len(buf') = taken'["server"]
    /\ reply' \in Seq(Char)
<1>. DEFINE P == /\ Len(sent["client"]) <= MaxBytes
                 /\ Len(buf) = taken["server"]
                 /\ reply \in Seq(Char)
<1>1. DataInv => P
  BY ReplyOfBuffer
<1>. HIDE DEF P
<1>2. DataInv' => P'
  BY <1>1, PTL
<1>. QED
  BY <1>2 DEF P

LEMMA ToGoTyped ==
  ASSUME DataInv
  PROVE  /\ ToSend \in Nat /\ ToAnswer \in Nat
         /\ Coming("client") \in Nat /\ Queued("client") \in Nat
         /\ Coming("server") \in Nat /\ Queued("server") \in Nat
         /\ CallsToGo \in Nat
         /\ EventsToGo("client") \in Nat /\ EventsToGo("server") \in Nat
         /\ ToGo \in Nat
<1>1. ToSend \in Nat
  BY DEF DataInv, TypeOK, Sending, ToSend
<1>2. /\ Coming("client") \in Nat /\ Queued("client") \in Nat
      /\ Coming("server") \in Nat /\ Queued("server") \in Nat
  <2>1. /\ taken["client"] <= got["client"] /\ got["client"] <= Len(sent["server"])
        /\ taken["server"] <= got["server"] /\ got["server"] <= Len(sent["client"])
    BY Sides DEF DataInv, Positions
  <2>2. /\ Queued("client") = got["client"] - taken["client"]
        /\ Queued("server") = got["server"] - taken["server"]
        /\ Coming("client") = Len(sent["server"]) - got["client"]
        /\ Coming("server") = Len(sent["client"]) - got["server"]
    BY Sides DEF Coming, Queued
  <2>3. /\ got["client"] \in Nat /\ taken["client"] \in Nat /\ Len(sent["client"]) \in Nat
        /\ got["server"] \in Nat /\ taken["server"] \in Nat /\ Len(sent["server"]) \in Nat
    BY Numbers
  <2>4. Coming("client") \in Nat /\ Queued("client") \in Nat
    BY <2>1, <2>2, <2>3
  <2>5. Coming("server") \in Nat /\ Queued("server") \in Nat
    BY <2>1, <2>2, <2>3
  <2>. QED
    BY <2>4, <2>5
<1>3. ToAnswer \in Nat
  <2>1. reply \in Seq(Char) /\ sent["server"] \in Seq(Char)
    BY ReplyOfBuffer, Sides DEF DataInv, TypeOK, StreamTypeOK
  <2>. QED
    BY <2>1 DEF DataInv, Bytes, ToAnswer
<1>4. CallsToGo \in Nat
  BY DEF CallsToGo
<1>5. EventsToGo("client") \in Nat /\ EventsToGo("server") \in Nat
  BY DEF EventsToGo
<1>. QED
  BY <1>1, <1>2, <1>3, <1>4, <1>5 DEF ToGo, BytesToGo

\* What a side has seen of the other does not come undone.
LEMMA EventsPass ==
  ASSUME DataInv, NEW s \in Side,
         fin[s] => fin'[s], rst[s] => rst'[s],
         sock'[s] = sock[s] \/ sock'[s] \in {"broken", "closed"}
  PROVE  EventsToGo(s)' \in 0 .. EventsToGo(s)
<1>1. sock[s] \in {"open", "reset", "broken", "closed"}
  BY DEF DataInv, TypeOK, StreamTypeOK
<1>. QED
  BY <1>1 DEF EventsToGo

LEMMA SendAdvances ==
  ASSUME DataInv, DataInv', InSend
  PROVE  ToGo' < ToGo
<1>0. call = "send"
  BY DEF InSend, SendSome, SendFails, SendKilled, Calling
<1>1. UNCHANGED <<got, taken, hpc, reply>> /\ sent'["server"] = sent["server"]
  BY DEF InSend, SendSome, SendFails, SendKilled, Put, Report, Close, server, reply,
         DataInv, TypeOK, StreamTypeOK, Side
<1>2. UNCHANGED <<Queued("client"), Queued("server"), Coming("client"), ToAnswer>>
  BY <1>1, Sides DEF Queued, Coming, ToAnswer
<1>3. EventsToGo("client")' \in 0 .. EventsToGo("client") /\ EventsToGo("server")' \in 0 .. EventsToGo("server")
  <2>1. \A s \in Side : /\ fin[s] => fin'[s]
                        /\ rst[s] => rst'[s]
                        /\ sock'[s] = sock[s] \/ sock'[s] \in {"broken", "closed"}
    <3>. USE DEF DataInv, TypeOK, StreamTypeOK
    <3>1. CASE \E n \in Piece : SendSome(n)
      BY <3>1 DEF SendSome, Put
    <3>2. CASE SendFails
      BY <3>2 DEF SendFails, Report
    <3>3. CASE SendKilled
      BY <3>3 DEF SendKilled, Close
    <3>. QED
      BY <3>1, <3>2, <3>3 DEF InSend
  <2>. QED
    BY <2>1, EventsPass, Sides
<1>4. ASSUME NEW n \in Piece, SendSome(n)
      PROVE  ToGo' < ToGo
  <2>1. n \in 1 .. Len(data) - totalSent
    BY <1>4, SendSomePuts
  <2>2. ToSend' = ToSend - n
    <3>1. CASE totalSent + n < Len(data)
      BY <1>4, <2>1, <3>1 DEF SendSome, DataInv, TypeOK, ToSend
    <3>2. CASE ~(totalSent + n < Len(data))
      BY <1>4, <2>1, <3>2, EmptySeq DEF SendSome, Return, DataInv, TypeOK, ToSend
    <3>. QED
      BY <3>1, <3>2
  <2>3. Coming("server")' = Coming("server") + n
    <3>. DEFINE piece == SubSeq(data, totalSent + 1, totalSent + n)
    <3>1. piece \in Seq(Char) /\ Len(piece) = n /\ sent' = [sent EXCEPT !["client"] = @ \o piece]
      BY <1>4, SendSomePuts
    <3>. HIDE DEF piece
    <3>2. sent["client"] \in Seq(Char) /\ sent'["client"] = sent["client"] \o piece
      BY <3>1, Sides DEF DataInv, TypeOK, StreamTypeOK
    <3>3. Len(sent'["client"]) = Len(sent["client"]) + n
      BY <3>1, <3>2, ConcatProperties
    <3>4. Len(sent["client"]) \in Nat /\ got["server"] \in Nat
      BY <3>2, Sides DEF DataInv, TypeOK, StreamTypeOK
    <3>. QED
      BY <1>1, <2>1, <3>3, <3>4, Sides DEF Coming
  <2>4. CallsToGo' = CallsToGo \/ CallsToGo' = CallsToGo - 1
    BY <1>0, <1>1, <1>4 DEF SendSome, Return, CallsToGo
  <2>. QED
    <3>1. n \in Nat \ {0}
      BY StreamAssumption DEF Piece
    <3>. QED
      BY <1>2, <1>3, <2>2, <2>3, <2>4, <3>1, ToGoTyped DEF ToGo, BytesToGo
<1>5. CASE SendFails \/ SendKilled
  <2>1. ToSend' = 0 \/ ToSend' = ToSend
    <3>1. CASE SendFails
      BY <3>1, EmptySeq DEF SendFails, Return, ToSend
    <3>2. CASE SendKilled
      BY <3>2 DEF SendKilled, arguments, ToSend
    <3>. QED
      BY <1>5, <3>1, <3>2
  <2>2. Coming("server")' = Coming("server")
    BY <1>1, <1>5, Sides DEF SendFails, SendKilled, Report, Close, Coming
  <2>3. CallsToGo' = CallsToGo - 1
    <3>1. call' \in {"idle", "killed"} /\ hpc' = hpc
      BY <1>1, <1>5 DEF SendFails, SendKilled, Return
    <3>. QED
      BY <1>0, <3>1 DEF CallsToGo
  <2>. QED
    BY <1>2, <1>3, <2>1, <2>2, <2>3, ToGoTyped DEF ToGo, BytesToGo
<1>. QED
  BY <1>4, <1>5 DEF InSend

LEMMA ReceiveAdvances ==
  ASSUME DataInv, DataInv', InReceive
  PROVE  ToGo' < ToGo
<1>0. call = "recv" /\ data = <<>> /\ totalSent = 0 /\ data' = <<>> /\ totalSent' = 0
  BY DEF InReceive, ReceiveSome, ReceiveEnd, ReceiveFails, Calling, Return, DataInv, Sending
<1>1. UNCHANGED <<sent, got, hpc, reply>> /\ taken'["server"] = taken["server"]
  BY DEF InReceive, ReceiveSome, ReceiveEnd, ReceiveFails, Take, Report, stream, server, reply,
         DataInv, TypeOK, StreamTypeOK, Side
<1>2. UNCHANGED <<Queued("server"), Coming("client"), Coming("server"), ToSend, ToAnswer>>
  BY <1>0, <1>1, Sides DEF Queued, Coming, ToSend, ToAnswer
<1>3. EventsToGo("client")' \in 0 .. EventsToGo("client") /\ EventsToGo("server")' \in 0 .. EventsToGo("server")
  <2>1. \A s \in Side : /\ fin[s] => fin'[s]
                        /\ rst[s] => rst'[s]
                        /\ sock'[s] = sock[s] \/ sock'[s] \in {"broken", "closed"}
    <3>. USE DEF DataInv, TypeOK, StreamTypeOK
    <3>1. CASE ReceiveSome
      BY <3>1 DEF ReceiveSome, Take
    <3>2. CASE ReceiveEnd
      BY <3>2 DEF ReceiveEnd, stream
    <3>3. CASE ReceiveFails
      BY <3>3 DEF ReceiveFails, Report
    <3>. QED
      BY <3>1, <3>2, <3>3 DEF InReceive
  <2>. QED
    BY <2>1, EventsPass, Sides
<1>4. CASE ReceiveSome
  <2>1. Received \in Nat \ {0}
    <3>1. Received \in 1 .. Len(sent["server"]) - taken["client"]
      BY <1>4, ReceivedTyped
    <3>2. Len(sent["server"]) \in Nat /\ taken["client"] \in Nat
      BY Sides DEF DataInv, TypeOK, StreamTypeOK
    <3>. QED
      BY <3>1, <3>2
  <2>2. Queued("client")' = Queued("client") - Received
    <3>1. taken'["client"] = taken["client"] + Received
      BY <1>4, Numbers, Sides DEF ReceiveSome, Take
    <3>. HIDE DEF Received
    <3>. QED
      BY <1>1, <2>1, <3>1, Numbers DEF Queued
  <2>3. CallsToGo' = CallsToGo \/ CallsToGo' = CallsToGo - 1
    BY <1>0, <1>1, <1>4 DEF ReceiveSome, Return, CallsToGo
  <2>. QED
    BY <1>2, <1>3, <2>1, <2>2, <2>3, ToGoTyped DEF ToGo, BytesToGo
<1>5. CASE ReceiveEnd \/ ReceiveFails
  <2>1. Queued("client")' = Queued("client")
    BY <1>5, <1>1 DEF ReceiveEnd, ReceiveFails, Report, stream, Queued
  <2>2. CallsToGo' = CallsToGo - 1
    <3>1. call' = "idle" /\ hpc' = hpc
      BY <1>1, <1>5 DEF ReceiveEnd, ReceiveFails, Return
    <3>. QED
      BY <1>0, <3>1 DEF CallsToGo
  <2>. QED
    BY <1>2, <1>3, <2>1, <2>2, ToGoTyped DEF ToGo, BytesToGo
<1>. QED
  BY <1>4, <1>5 DEF InReceive

\* What is read adds at most twice its length to the reply.
LEMMA ReadingLengthensReply ==
  ASSUME DataInv, DataInv', OneRead, HandlerReads,
         NEW n \in Nat, taken'["server"] = taken["server"] + n
  PROVE  Len(reply') <= Len(reply) + 2 * n
<1>1. /\ handler \in Handler /\ handler' = handler /\ taken["server"] \in Nat
      /\ buf \in Seq(Char) /\ buf' \in Seq(Char) /\ Len(<<>>) = 0
  BY EmptySeq, Sides DEF HandlerReads, DataInv, TypeOK, StreamTypeOK
<1>2. /\ Len(buf) = taken["server"] /\ Len(buf') = taken["server"] + n
      /\ reply \in Seq(Char) /\ reply' \in Seq(Char)
  <2>1. Len(buf) = taken["server"] /\ reply \in Seq(Char)
    BY ReplyOfBuffer
  <2>2. Len(buf') = taken'["server"] /\ reply' \in Seq(Char)
    BY ReplyOfNextBuffer
  <2>. QED
    BY <2>1, <2>2
<1>3. CASE ReadsOnce(handler)
  <2>1. buf = <<>> /\ taken["server"] = 0 /\ Len(reply) = 0
    BY <1>1, <1>2, <1>3 DEF OneRead, HandlerReads, reply
  <2>2. CASE buf' = <<>>
    BY <1>1, <2>1, <2>2 DEF reply
  <2>3. CASE buf' # <<>>
    <3>1. Len(buf') <= MaxBytes
      <4>1. Len(buf') = taken'["server"] /\ Len(sent'["client"]) <= MaxBytes
        BY ReplyOfNextBuffer
      <4>2. /\ taken'["server"] \in Nat /\ got'["server"] \in Nat /\ Len(sent'["client"]) \in Nat
            /\ taken'["server"] <= got'["server"] /\ got'["server"] <= Len(sent'["client"])
        BY Sides DEF DataInv, TypeOK, StreamTypeOK, Positions
      <4>. QED
        BY <4>1, <4>2, SessionAssumption
    <3>2. reply' = Reply(handler, buf')
      BY <1>1, <2>3 DEF reply
    <3>3. Len(Reply(handler, buf')) <= 2 * Len(buf')
      BY <1>1, <3>1, ReplyTyped
    <3>. QED
      BY <1>2, <2>1, <3>2, <3>3
  <2>. QED
    BY <2>2, <2>3
<1>4. CASE ~ReadsOnce(handler)
  <2>1. reply = buf /\ reply' = buf'
    BY <1>1, <1>4 DEF reply, Reply, ReadsOnce
  <2>. QED
    BY <1>1, <1>2, <2>1
<1>. QED
  BY <1>3, <1>4

LEMMA ThreadGoesOn ==
  ASSUME DataInv, DataInv', OneRead, Thread
  PROVE  ToGo' < ToGo
<1>0. UNCHANGED <<call, data, totalSent, got>> /\ sent'["client"] = sent["client"]
      /\ taken'["client"] = taken["client"]
  BY DEF Thread, HandlerReads, HandlerEnds, HandlerSends, HandlerSendFails, HandlerKilled,
         HandlerCloses, Take, Report, Put, Close, client, arguments, DataInv, TypeOK, StreamTypeOK, Side
<1>1. UNCHANGED <<Queued("client"), Coming("server"), ToSend>>
  BY <1>0, Sides DEF Queued, Coming, ToSend
<1>2. EventsToGo("client")' \in 0 .. EventsToGo("client") /\ EventsToGo("server")' \in 0 .. EventsToGo("server")
  <2>1. \A s \in Side : /\ fin[s] => fin'[s]
                        /\ rst[s] => rst'[s]
                        /\ sock'[s] = sock[s] \/ sock'[s] \in {"broken", "closed"}
    <3>. USE DEF DataInv, TypeOK, StreamTypeOK
    <3>1. CASE HandlerReads
      BY <3>1 DEF HandlerReads, Take
    <3>2. CASE HandlerEnds \/ HandlerSendFails
      BY <3>2 DEF HandlerEnds, HandlerSendFails, Report
    <3>3. CASE \E n \in Piece : HandlerSends(n)
      BY <3>3 DEF HandlerSends, Put
    <3>4. CASE HandlerKilled \/ HandlerCloses
      BY <3>4 DEF HandlerKilled, HandlerCloses, Close
    <3>. QED
      BY <3>1, <3>2, <3>3, <3>4 DEF Thread
  <2>. QED
    BY <2>1, EventsPass, Sides
<1>3. CASE HandlerReads
  <2>. DEFINE n == Min({Queued("server"), HandlerBuffer})
  <2>1. n \in Nat \ {0} /\ taken' = [taken EXCEPT !["server"] = @ + n]
    BY <1>3, OfferedTyped DEF HandlerReads, Take
  <2>2. sent' = sent /\ hpc = "read" /\ hpc' \in {"read", "send"}
    BY <1>3 DEF HandlerReads, Take
  <2>. HIDE DEF n
  <2>3. taken'["server"] = taken["server"] + n
    BY <2>1, Sides DEF DataInv, TypeOK, StreamTypeOK
  <2>4. Queued("server")' = Queued("server") - n /\ Coming("client")' = Coming("client")
    BY <1>0, <2>1, <2>2, <2>3, Numbers, Sides DEF Queued, Coming
  <2>5. Len(reply') <= Len(reply) + 2 * n /\ Len(reply) \in Nat /\ Len(reply') \in Nat
    <3>1. reply \in Seq(Char) /\ reply' \in Seq(Char)
      BY ReplyOfBuffer, ReplyOfNextBuffer
    <3>. QED
      BY <1>3, <2>1, <2>3, <3>1, ReadingLengthensReply
  <2>6. CallsToGo' = CallsToGo \/ CallsToGo' = CallsToGo - 1
    BY <1>0, <2>2 DEF CallsToGo
  <2>7. ToAnswer' - ToAnswer <= 2 * n /\ ToAnswer' \in Int
    <3>1. Len(sent'["server"]) = Len(sent["server"]) /\ Len(sent["server"]) \in Nat
      BY <2>2, Sides DEF DataInv, TypeOK, StreamTypeOK
    <3>. QED
      BY <2>1, <2>5, <3>1 DEF ToAnswer
  <2>. QED
    BY <1>1, <1>2, <2>1, <2>4, <2>6, <2>7, ToGoTyped DEF ToGo, BytesToGo
<1>4. CASE HandlerEnds \/ HandlerSendFails \/ HandlerKilled \/ HandlerCloses
  <2>1. UNCHANGED <<sent, taken, reply>>
    BY <1>4 DEF HandlerEnds, HandlerSendFails, HandlerKilled, HandlerCloses, Report, Close, reply
  <2>2. UNCHANGED <<Queued("server"), Coming("client"), ToAnswer>>
    BY <1>0, <2>1 DEF Queued, Coming, ToAnswer
  <2>3. CallsToGo' \in {CallsToGo - 1, CallsToGo - 2}
    <3>1. \/ hpc = "read" /\ hpc' \in {"send", "close"}
          \/ hpc = "send" /\ hpc' \in {"close", "killed"}
          \/ hpc = "close" /\ hpc' = "done"
      BY <1>4 DEF HandlerEnds, HandlerSendFails, HandlerKilled, HandlerCloses
    <3>. QED
      BY <1>0, <3>1 DEF CallsToGo
  <2>. QED
    BY <1>0, <1>1, <1>2, <2>1, <2>2, <2>3, ToGoTyped DEF ToGo, BytesToGo
<1>5. ASSUME NEW n \in Piece, HandlerSends(n)
      PROVE  ToGo' < ToGo
  <2>1. n \in Nat \ {0} /\ UNCHANGED <<taken, reply>> /\ hpc = "send" /\ hpc' \in {"send", "close"}
    BY <1>5, StreamAssumption DEF HandlerSends, Put, Piece, reply
  <2>2. Len(sent'["server"]) = Len(sent["server"]) + n
    BY <1>5, HandlerSendsPuts
  <2>3. Queued("server")' = Queued("server") /\ Coming("client")' = Coming("client") + n
    <3>1. Len(sent["server"]) \in Nat /\ got["client"] \in Nat
      BY Sides DEF DataInv, TypeOK, StreamTypeOK
    <3>. QED
      BY <1>0, <2>1, <2>2, <3>1, Sides DEF Queued, Coming
  <2>4. CallsToGo' = CallsToGo \/ CallsToGo' = CallsToGo - 1
    BY <1>0, <2>1 DEF CallsToGo
  <2>5. ToAnswer' = ToAnswer - n
    <3>1. reply \in Seq(Char) /\ sent["server"] \in Seq(Char)
      BY ReplyOfBuffer, Sides DEF DataInv, TypeOK, StreamTypeOK
    <3>. QED
      BY <2>1, <2>2, <3>1 DEF ToAnswer
  <2>. QED
    BY <1>0, <1>1, <1>2, <2>1, <2>3, <2>4, <2>5, ToGoTyped DEF ToGo, BytesToGo
<1>. QED
  BY <1>3, <1>4, <1>5 DEF Thread

LEMMA NetworkAdvances ==
  ASSUME DataInv, DataInv', NEW s \in Side, Network(s), UNCHANGED <<client, server>>
  PROVE  ToGo' < ToGo
<1>0. UNCHANGED <<sent, taken, call, data, totalSent, hpc, reply>>
  BY DEF Network, Arrive, ArriveClosed, ArriveFin, ArriveReset, client, server, arguments, reply
<1>1. UNCHANGED <<CallsToGo, ToSend, ToAnswer>>
  BY <1>0 DEF CallsToGo, ToSend, ToAnswer
<1>2. CASE Arrive(s)
  <2>1. PICK n \in 1 .. Coming(s) : got' = [got EXCEPT ![s] = @ + n]
    BY <1>2 DEF Arrive
  <2>2. UNCHANGED <<EventsToGo("client"), EventsToGo("server")>>
    BY <1>2 DEF Arrive, EventsToGo
  <2>3. /\ n \in Nat \ {0}
        /\ Coming(s)' = Coming(s) - n /\ Queued(s)' = Queued(s) + n
        /\ Coming(Peer(s))' = Coming(Peer(s)) /\ Queued(Peer(s))' = Queued(Peer(s))
    <3>1. /\ got \in [Side -> Nat] /\ taken \in [Side -> Nat] /\ n \in Nat \ {0}
          /\ \A t \in Side : Len(sent[t]) \in Nat
      <4>1. Coming(s) \in Nat
        BY ToGoTyped, Sides
      <4>2. n \in Nat \ {0}
        BY <4>1
      <4>3. got \in [Side -> Nat] /\ taken \in [Side -> Nat] /\ sent \in [Side -> Seq(Char)]
        BY DEF DataInv, TypeOK, StreamTypeOK
      <4>4. ASSUME NEW t \in Side PROVE Len(sent[t]) \in Nat
        <5>1. sent[t] \in Seq(Char)
          BY <4>3, <4>4
        <5>. QED
          BY <5>1
      <4>. QED
        BY <4>2, <4>3, <4>4
    <3>. QED
      BY <1>0, <2>1, <3>1, Sides DEF Coming, Queued
  <2>4. CASE s = "client"
    BY <1>0, <1>1, <2>2, <2>3, <2>4, ToGoTyped, Sides DEF ToGo, BytesToGo
  <2>5. CASE s = "server"
    BY <1>0, <1>1, <2>2, <2>3, <2>5, ToGoTyped, Sides DEF ToGo, BytesToGo
  <2>. QED
    BY <2>4, <2>5, Sides
<1>3. CASE ArriveClosed(s) \/ ArriveFin(s) \/ ArriveReset(s)
  <2>1. got' = got
    BY <1>3 DEF ArriveClosed, ArriveFin, ArriveReset
  <2>2. UNCHANGED <<Coming("client"), Coming("server"), Queued("client"), Queued("server")>>
    BY <1>0, <2>1 DEF Coming, Queued
  <2>3. /\ EventsToGo(s)' \in {EventsToGo(s) - 1, EventsToGo(s) - 2}
        /\ EventsToGo(Peer(s))' = EventsToGo(Peer(s))
    <3>0. Peer(s) \in Side /\ Peer(s) # s
      BY Sides
    <3>. USE DEF DataInv, TypeOK, StreamTypeOK
    <3>1. CASE ArriveClosed(s)
      <4>1. /\ UNCHANGED <<fin, sock>> /\ ~rst[s] /\ rst'[s] /\ rst'[Peer(s)] = rst[Peer(s)]
            /\ sock[s] = "closed"
        BY <3>0, <3>1 DEF ArriveClosed
      <4>2. EventsToGo(s)' = EventsToGo(s) - 1
        BY <4>1 DEF EventsToGo
      <4>3. EventsToGo(Peer(s))' = EventsToGo(Peer(s))
        BY <4>1 DEF EventsToGo
      <4>. QED
        BY <4>2, <4>3
    <3>2. CASE ArriveFin(s)
      <4>1. /\ UNCHANGED <<rst, sock>> /\ ~fin[s] /\ fin'[s] /\ fin'[Peer(s)] = fin[Peer(s)]
            /\ sock[s] = "open"
        BY <3>0, <3>2 DEF ArriveFin
      <4>2. EventsToGo(s)' = EventsToGo(s) - 1
        BY <4>1 DEF EventsToGo
      <4>3. EventsToGo(Peer(s))' = EventsToGo(Peer(s))
        BY <4>1 DEF EventsToGo
      <4>. QED
        BY <4>2, <4>3
    <3>3. CASE ArriveReset(s)
      <4>1. /\ UNCHANGED <<rst, fin>> /\ sock[s] = "open" /\ sock'[s] \in {"reset", "broken"}
            /\ sock'[Peer(s)] = sock[Peer(s)]
        BY <3>0, <3>3 DEF ArriveReset
      <4>. QED
        BY <4>1 DEF EventsToGo
    <3>. QED
      BY <1>3, <3>1, <3>2, <3>3
  <2>4. /\ BytesToGo \in Int /\ CallsToGo \in Nat
        /\ EventsToGo("client") \in Nat /\ EventsToGo("server") \in Nat
    BY ToGoTyped DEF BytesToGo
  <2>5. CASE s = "client"
    <3>1. /\ EventsToGo("client")' \in {EventsToGo("client") - 1, EventsToGo("client") - 2}
          /\ EventsToGo("server")' = EventsToGo("server")
      BY <2>3, <2>5, Sides
    <3>2. BytesToGo' = BytesToGo
      BY <1>1, <2>2 DEF BytesToGo
    <3>. QED
      BY <1>1, <2>4, <3>1, <3>2 DEF ToGo
  <2>6. CASE s = "server"
    <3>1. /\ EventsToGo("server")' \in {EventsToGo("server") - 1, EventsToGo("server") - 2}
          /\ EventsToGo("client")' = EventsToGo("client")
      BY <2>3, <2>6, Sides
    <3>2. BytesToGo' = BytesToGo
      BY <1>1, <2>2 DEF BytesToGo
    <3>. QED
      BY <1>1, <2>4, <3>1, <3>2 DEF ToGo
  <2>. QED
    BY <2>5, <2>6, Sides
<1>. QED
  BY <1>2, <1>3 DEF Network

\* Between two calls of the client the session takes at most ToGo steps, a
\* natural number that each of them makes smaller.  With NobodyIsStuck: a call
\* that may wait only for thread and network returns, if these go on at all.
THEOREM SessionIsBounded == Spec => SessionAdvances /\ [](ToGo \in Nat)
<1>1. EchoInv => ToGo \in Nat
  BY ToGoTyped DEF EchoInv
<1>2. EchoInv /\ EchoInv' /\ [Next]_vars =>
        [InSend \/ InReceive \/ Thread \/ Deliver => ToGo' < ToGo]_vars
  <2>. SUFFICES ASSUME EchoInv, EchoInv', InSend \/ InReceive \/ Thread \/ Deliver
                PROVE  ToGo' < ToGo
    OBVIOUS
  <2>. QED
    BY SendAdvances, ReceiveAdvances, ThreadGoesOn, NetworkAdvances DEF EchoInv, Deliver
<1>. QED
  BY <1>1, <1>2, EchoInvariant, PTL DEF Spec, SessionAdvances

\* The server ends by SIGPIPE only for a connection that was aborted, and
\* in a handler that reads once only behind its client's FIN: the calls of the
\* class Client never bring it about, in whatever order they are made.
THEOREM OnlyAbortsEndTheServer == Spec => []OnlyAbortsKill
<1>1. EchoInv => OnlyAbortsKill
  BY DEF EchoInv
<1>. QED
  BY <1>1, EchoInvariant, PTL

\* The end of the stream, met without an error, is the end of the reply.
THEOREM EndOfStreamIsEndOfReply == Spec => []EofMeansWhole
<1>1. EchoInv => EofMeansWhole
  BY DEF EchoInv, DataInv
<1>. QED
  BY <1>1, EchoInvariant, PTL

\* Every step of client, thread and network is one of the contract.
THEOREM EchoRefinement == Spec => ImplementsEcho
<1>1. Init => C!CInit
  BY DEF Init, NoConnection, C!CInit, Handler, Side
<1>2. EchoInv /\ EchoInv' /\ [Next]_vars => [C!CNext]_(C!cvars)
  <2>. SUFFICES ASSUME DataInv, DataInv', [Next]_vars
                PROVE  [C!CNext]_(C!cvars)
    BY DEF EchoInv
  <2>. USE DEF C!cvars
  <2>1. CASE UNCHANGED vars
    BY <2>1 DEF vars, stream, client, server, history, reply
  <2>2. ASSUME NEW h \in Handler, Connect(h) PROVE C!CNext
    BY <2>2 DEF Connect, Establish, C!CNext, C!Begin, Side
  <2>3. CASE Disconnect \/ SendKilled
    <3>1. sent' = sent /\ shut'["client"] \in {shut["client"], TRUE}
          /\ UNCHANGED <<returned, handler, hpc, buf>>
      BY <2>3 DEF Disconnect, SendKilled, Close, history, server, DataInv, TypeOK, StreamTypeOK, Side
    <3>. QED
      BY <3>1 DEF C!CNext, C!Finish, reply
  <2>4. CASE ShutdownWrite
    <3>1. sent' = sent /\ shut'["client"] \in {shut["client"], TRUE}
          /\ UNCHANGED <<returned, handler, hpc, buf>>
      BY <2>4 DEF ShutdownWrite, ShutWriting, stream, server, DataInv, TypeOK, StreamTypeOK, Side
    <3>. QED
      BY <3>1 DEF C!CNext, C!Finish, reply
  <2>5. ASSUME NEW m \in Message, SendBegin(m) PROVE UNCHANGED C!cvars
    BY <2>5 DEF SendBegin, stream, history, server, reply
  <2>6. ASSUME NEW k \in MaxSize, ReceiveBegin(k) PROVE UNCHANGED C!cvars
    BY <2>6 DEF ReceiveBegin, stream, history, server, reply
  <2>7. ASSUME NEW n \in Piece, SendSome(n) PROVE C!CNext
    BY <2>7, SendSomeAsks DEF C!CNext
  <2>8. CASE SendFails
    BY <2>8 DEF SendFails, Report, server, reply
  <2>9. CASE InReceive
    BY <2>9, ReceiveIsOfAnswer DEF C!CNext
  <2>10. CASE Thread
    BY <2>10, ThreadAnswers DEF C!CNext
  <2>11. CASE ClientAborts
    BY <2>11 DEF ClientAborts, Abort, history, server, reply
  <2>12. CASE Deliver
    BY <2>12 DEF Deliver, Network, Arrive, ArriveClosed, ArriveFin, ArriveReset, client, server, history, reply
  <2>. QED
    BY <2>1, <2>2, <2>3, <2>4, <2>5, <2>6, <2>7, <2>8, <2>9, <2>10, <2>11, <2>12 DEF Next, InSend
<1>. QED
  BY <1>1, <1>2, EchoInvariant, PTL DEF Spec, ImplementsEcho, C!CSpec
=============================================================================
