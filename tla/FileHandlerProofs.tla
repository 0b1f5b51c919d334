-------------------------- MODULE FileHandlerProofs ---------------------------
EXTENDS FileHandler, SequenceTheorems, TLAPS

LEMMA MaxOfTwo ==
  ASSUME NEW m \in Nat, NEW n \in Nat
  PROVE  Max({m, n}) = IF m >= n THEN m ELSE n
<1>1. \E x \in {m, n} : \A y \in {m, n} : x >= y
  <2>1. CASE m >= n
    BY <2>1
  <2>2. CASE n >= m
    BY <2>2
  <2>. QED
    BY <2>1, <2>2
<1>2. Max({m, n}) \in {m, n} /\ \A y \in {m, n} : Max({m, n}) >= y
  BY <1>1 DEF Max
<1>. QED
  BY <1>2

LEMMA MinOfTwo ==
  ASSUME NEW m \in Nat, NEW n \in Nat
  PROVE  Min({m, n}) = IF m <= n THEN m ELSE n
<1>1. \E x \in {m, n} : \A y \in {m, n} : x <= y
  <2>1. CASE m <= n
    BY <2>1
  <2>2. CASE n <= m
    BY <2>2
  <2>. QED
    BY <2>1, <2>2
<1>2. Min({m, n}) \in {m, n} /\ \A y \in {m, n} : Min({m, n}) <= y
  BY <1>1 DEF Min
<1>. QED
  BY <1>2

LEMMA PieceTyped ==
  ASSUME NEW S, NEW s \in Seq(S), NEW k \in Nat, NEW n \in Nat, k + n <= Len(s)
  PROVE  /\ SubSeq(s, k + 1, k + n) \in Seq(S)
         /\ Len(SubSeq(s, k + 1, k + n)) = n
<1>1. \A i \in k + 1 .. k + n : s[i] \in S
  BY ElementOfSeq
<1>. QED
  BY <1>1, SubSeqProperties

LEMMA PrefixTyped ==
  ASSUME NEW S, NEW s \in Seq(S), NEW k \in Nat, k <= Len(s)
  PROVE  SubSeq(s, 1, k) \in Seq(S) /\ Len(SubSeq(s, 1, k)) = k
<1>1. \A i \in 1 .. k : s[i] \in S
  BY ElementOfSeq
<1>. QED
  BY <1>1, SubSeqProperties

\* The next piece makes a longer beginning.
LEMMA PrefixExtends ==
  ASSUME NEW S, NEW s \in Seq(S), NEW k \in Nat, NEW n \in Nat, k + n <= Len(s)
  PROVE  SubSeq(s, 1, k) \o SubSeq(s, k + 1, k + n) = SubSeq(s, 1, k + n)
<1>1. 1 \in 1 .. Len(s) + 1 /\ k \in 0 .. Len(s) /\ k + n \in k .. Len(s)
  OBVIOUS
<1>. QED
  BY <1>1, ConcatAdjacentSubSeq

\* Writing leaves bytes and zeros; writing at the end of the file appends.
LEMMA OverwrittenTyped ==
  ASSUME NEW S, Zero \in S, file \in Seq(S), NEW at \in Nat, NEW bytes \in Seq(S)
  PROVE  Overwritten(at, bytes) \in Seq(S)
<1>. DEFINE top == Max({Len(file), at + Len(bytes)})
<1>1. Len(file) \in Nat /\ Len(bytes) \in Nat
  OBVIOUS
<1>2. top \in Nat
  BY <1>1, MaxOfTwo
<1>3. ASSUME NEW i \in 1 .. top
      PROVE  (IF i \in at + 1 .. at + Len(bytes) THEN bytes[i - at]
              ELSE IF i <= Len(file) THEN file[i] ELSE Zero) \in S
  BY <1>1, <1>2, <1>3, ElementOfSeq
<1>4. Overwritten(at, bytes) = [i \in 1 .. top |->
         IF i \in at + 1 .. at + Len(bytes) THEN bytes[i - at]
         ELSE IF i <= Len(file) THEN file[i] ELSE Zero]
  BY DEF Overwritten
<1>. HIDE DEF top
<1>. QED
  BY <1>2, <1>3, <1>4

LEMMA OverwrittenAtEnd ==
  ASSUME NEW S, file \in Seq(S), NEW bytes \in Seq(S)
  PROVE  Overwritten(Len(file), bytes) = file \o bytes
<1>1. Len(file) \in Nat /\ Len(bytes) \in Nat
  OBVIOUS
<1>2. Max({Len(file), Len(file) + Len(bytes)}) = Len(file) + Len(bytes)
  BY <1>1, MaxOfTwo
<1>3. Overwritten(Len(file), bytes) = [i \in 1 .. Len(file) + Len(bytes) |->
         IF i \in Len(file) + 1 .. Len(file) + Len(bytes) THEN bytes[i - Len(file)]
         ELSE IF i <= Len(file) THEN file[i] ELSE Zero]
  BY <1>2 DEF Overwritten
<1>4. ASSUME NEW i \in 1 .. Len(file) + Len(bytes)
      PROVE  /\ Overwritten(Len(file), bytes)[i]
                  = IF i <= Len(file) THEN file[i] ELSE bytes[i - Len(file)]
             /\ Overwritten(Len(file), bytes)[i] \in S
  BY <1>1, <1>3, <1>4, ElementOfSeq
<1>5. /\ Overwritten(Len(file), bytes) \in Seq(S)
      /\ Len(Overwritten(Len(file), bytes)) = Len(file) + Len(bytes)
  BY <1>1, <1>3, <1>4
<1>6. /\ file \o bytes \in Seq(S)
      /\ Len(file \o bytes) = Len(file) + Len(bytes)
      /\ \A i \in 1 .. Len(file) + Len(bytes) :
           (file \o bytes)[i] = IF i <= Len(file) THEN file[i] ELSE bytes[i - Len(file)]
  BY ConcatProperties
<1>. QED
  BY <1>4, <1>5, <1>6, SeqEqual

-----------------------------------------------------------------------------
(* The shape of a step.                                                    *)

\* Only the thread that steps can come to write or read, or cease to.
LEMMA OneMoves ==
  ASSUME TypeOK, NEW t \in Thread, NEW label, Go(t, label)
  PROVE  /\ pc'[t] = label
         /\ \A u \in Thread : u # t => pc'[u] = pc[u]
         /\ \A u \in Thread : u # t => (u \in Writing' <=> u \in Writing)
         /\ \A u \in Thread : u # t => (u \in Reading' <=> u \in Reading)
         /\ t \in Writing' <=> label \in {"write", "flush", "unwind"}
         /\ t \in Reading' <=> label \in {"size", "read", "got"}
         /\ Writing' \subseteq Thread /\ Reading' \subseteq Thread
<1>1. pc'[t] = label /\ \A u \in Thread : u # t => pc'[u] = pc[u]
  BY DEF Go, TypeOK
<1>. QED
  BY <1>1 DEF Writing, Reading

\* The values of what a call leaves behind.
LEMMA Left ==
  ASSUME TypeOK, NEW t \in Thread, Leave(t)
  PROVE  /\ pc' \in [Thread -> {"idle", "size", "read", "got", "write", "flush", "unwind"}]
         /\ data' \in [Thread -> Seq(Byte \cup {Zero})]
         /\ pos' \in [Thread -> Nat] /\ size' \in [Thread -> Nat]
         /\ alone' \in [Thread -> BOOLEAN]
         /\ expected' \in [Thread -> Seq(Byte) \cup {Unknown}]
         /\ data'[t] = <<>>
         /\ \A u \in Thread : u # t =>
              /\ data'[u] = data[u] /\ pos'[u] = pos[u] /\ size'[u] = size[u]
              /\ alone'[u] = alone[u] /\ expected'[u] = expected[u]
BY DEF Leave, Go, TypeOK

\* A call that ends without a trace keeps the invariant.
LEMMA LeaveKeeps ==
  ASSUME FileInv, NEW t \in Thread, Leave(t), UNCHANGED <<disk, content, overlapped>>
  PROVE  FileInv'
<1>. USE DEF FileInv
<1>0. UNCHANGED <<exists, file, content, overlapped>>
  BY DEF disk
<1>1. /\ \A u \in Writing' : u \in Writing /\ u # t
      /\ \A u \in Reading' : u \in Reading /\ u # t
      /\ Writing' \subseteq Writing /\ Reading' \subseteq Thread /\ Writing' \subseteq Thread
      /\ \A u \in Thread : u # t => pc'[u] = pc[u]
      /\ \A u \in Writing : u # t => u \in Writing'
  <2>1. Go(t, "idle")
    BY DEF Leave
  <2>2. Writing \subseteq Thread
    BY DEF Writing
  <2>. QED
    BY <2>1, <2>2, OneMoves
<1>2. TypeOK'
  BY <1>0, Left DEF TypeOK
<1>3. OwnData'
  <2>. SUFFICES ASSUME NEW u \in Thread
       PROVE  /\ pc'[u] \in {"idle", "size"} => data'[u] = <<>>
              /\ u \in Writing' => data'[u] \in Seq(Byte)
    BY DEF OwnData
  <2>1. CASE u = t
    BY <1>1, <2>1, Left
  <2>2. CASE u # t
    BY <1>1, <2>2, Left DEF OwnData
  <2>. QED
    BY <2>1, <2>2
<1>4. FileMatches'
  <2>1. content' # Unknown => file' = content' /\ Writing' = {}
    BY <1>0, <1>1 DEF FileMatches
  <2>2. ASSUME NEW u \in Writing'
        PROVE  /\ pos'[u] <= Len(data'[u])
               /\ alone'[u] => Writing' = {u} /\ content' = Unknown
               /\ alone'[u] /\ pc'[u] # "unwind" => file' = SubSeq(data'[u], 1, pos'[u])
    <3>1. /\ pos'[u] = pos[u] /\ data'[u] = data[u] /\ alone'[u] = alone[u]
          /\ pc'[u] = pc[u] /\ u \in Writing
      BY <1>1, <2>2, Left
    <3>2. Writing = {u} => Writing' = {u}
      BY <1>1, <2>2
    <3>. QED
      BY <1>0, <3>1, <3>2 DEF FileMatches
  <2>. QED
    BY <2>1, <2>2 DEF FileMatches
<1>5. ReadMatches'
  <2>. SUFFICES ASSUME NEW u \in Reading'
       PROVE  expected'[u] # Unknown =>
                /\ expected'[u] = content'
                /\ pc'[u] \in {"read", "got"} =>
                     /\ size'[u] = Len(file') /\ Len(data'[u]) <= size'[u]
                     /\ data'[u] = SubSeq(file', 1, Len(data'[u]))
                /\ pc'[u] = "got" => Len(data'[u]) = size'[u]
    BY DEF ReadMatches
  <2>1. /\ data'[u] = data[u] /\ size'[u] = size[u] /\ expected'[u] = expected[u]
        /\ pc'[u] = pc[u] /\ u \in Reading
    BY <1>1, Left
  <2>. QED
    BY <1>0, <2>1 DEF ReadMatches
<1>6. NoHoles'
  <2>. SUFFICES ASSUME ~overlapped'
       PROVE  /\ file' \in Seq(Byte)
              /\ \A u \in Thread : data'[u] \in Seq(Byte)
              /\ \A u \in Writing' : Writing' = {u} /\ pos'[u] = Len(file')
    BY DEF NoHoles
  <2>1. \A u \in Thread : data'[u] \in Seq(Byte)
    <3>. TAKE u \in Thread
    <3>1. <<>> \in Seq(Byte)
      OBVIOUS
    <3>2. data[u] \in Seq(Byte)
      BY <1>0 DEF NoHoles
    <3>3. data'[u] = <<>> \/ data'[u] = data[u]
      BY Left
    <3>. QED
      BY <3>1, <3>2, <3>3
  <2>2. ASSUME NEW u \in Writing'
        PROVE  Writing' = {u} /\ pos'[u] = Len(file')
    <3>1. u \in Writing /\ pos'[u] = pos[u]
      BY <1>1, Left
    <3>2. Writing = {u} /\ pos[u] = Len(file)
      BY <1>0, <3>1 DEF NoHoles
    <3>. QED
      BY <1>0, <1>1, <3>1, <3>2
  <2>. QED
    BY <1>0, <2>1, <2>2 DEF NoHoles
<1>. QED
  BY <1>2, <1>3, <1>4, <1>5, <1>6

\* What a step of a reader has to establish, all of it about its own call.
LEMMA ReaderKeeps ==
  ASSUME FileInv, NEW t \in Thread, NEW label \in {"size", "read", "got"}, Go(t, label),
         t \notin Writing, UNCHANGED <<disk, pos, content, alone, overlapped>>,
         NEW d \in Seq(Byte \cup {Zero}), data' = [data EXCEPT ![t] = d],
         NEW n \in Nat, size' = [size EXCEPT ![t] = n],
         NEW e \in Seq(Byte) \cup {Unknown}, expected' = [expected EXCEPT ![t] = e],
         ~overlapped => d \in Seq(Byte),
         label = "size" => d = <<>>,
         e # Unknown => e = content,
         e # Unknown /\ label # "size" =>
           n = Len(file) /\ Len(d) <= n /\ d = SubSeq(file, 1, Len(d)),
         e # Unknown /\ label = "got" => Len(d) = n
  PROVE  FileInv'
<1>. USE DEF FileInv
<1>0. UNCHANGED <<exists, file, pos, content, alone, overlapped>>
  BY DEF disk
<1>1. /\ pc'[t] = label
      /\ \A u \in Thread : u # t => pc'[u] = pc[u]
      /\ Writing' = Writing /\ t \notin Writing /\ Writing \subseteq Thread
      /\ \A u \in Reading' : u \in Thread /\ (u # t => u \in Reading)
  <2>1. Writing \subseteq Thread
    BY DEF Writing
  <2>2. /\ pc'[t] = label
        /\ \A u \in Thread : u # t => pc'[u] = pc[u]
        /\ \A u \in Thread : u # t => (u \in Writing' <=> u \in Writing)
        /\ \A u \in Thread : u # t => (u \in Reading' <=> u \in Reading)
        /\ t \notin Writing'
        /\ Writing' \subseteq Thread /\ Reading' \subseteq Thread
    BY OneMoves
  <2>3. \A u : u \in Writing' <=> u \in Writing
    BY <2>1, <2>2
  <2>4. Writing' = Writing
    BY <2>3
  <2>. QED
    BY <2>1, <2>2, <2>4
<1>2. /\ data'[t] = d /\ size'[t] = n /\ expected'[t] = e
      /\ \A u \in Thread : u # t =>
           data'[u] = data[u] /\ size'[u] = size[u] /\ expected'[u] = expected[u]
  BY DEF TypeOK
<1>3. TypeOK'
  BY <1>0 DEF TypeOK, Go
<1>4. \A u \in Writing' : data'[u] = data[u] /\ pc'[u] = pc[u]
  BY <1>1, <1>2
<1>8. OwnData'
  BY <1>1, <1>2 DEF OwnData
<1>5. FileMatches'
  BY <1>0, <1>1, <1>4 DEF FileMatches
<1>6. ReadMatches'
  <2>. SUFFICES ASSUME NEW u \in Reading'
       PROVE  expected'[u] # Unknown =>
                /\ expected'[u] = content'
                /\ pc'[u] \in {"read", "got"} =>
                     /\ size'[u] = Len(file') /\ Len(data'[u]) <= size'[u]
                     /\ data'[u] = SubSeq(file', 1, Len(data'[u]))
                /\ pc'[u] = "got" => Len(data'[u]) = size'[u]
    BY DEF ReadMatches
  <2>1. CASE u = t
    BY <1>0, <1>1, <1>2, <2>1
  <2>2. CASE u # t
    <3>1. /\ data'[u] = data[u] /\ size'[u] = size[u] /\ expected'[u] = expected[u]
          /\ pc'[u] = pc[u] /\ u \in Reading
      BY <1>1, <1>2, <2>2
    <3>. QED
      BY <1>0, <3>1 DEF ReadMatches
  <2>. QED
    BY <2>1, <2>2
<1>7. NoHoles'
  <2>. SUFFICES ASSUME ~overlapped'
       PROVE  /\ file' \in Seq(Byte)
              /\ \A u \in Thread : data'[u] \in Seq(Byte)
              /\ \A u \in Writing' : Writing' = {u} /\ pos'[u] = Len(file')
    BY DEF NoHoles
  <2>1. /\ file \in Seq(Byte) /\ d \in Seq(Byte)
        /\ \A u \in Thread : data[u] \in Seq(Byte)
        /\ \A u \in Writing : Writing = {u} /\ pos[u] = Len(file)
    BY <1>0 DEF NoHoles
  <2>2. \A u \in Thread : data'[u] \in Seq(Byte)
    BY <1>2, <2>1
  <2>. QED
    BY <1>0, <1>1, <2>1, <2>2
<1>. QED
  BY <1>3, <1>5, <1>6, <1>7, <1>8

\* What a step of a writer has to establish: no reader expects anything.
LEMMA WriterKeeps ==
  ASSUME FileInv, NEW t \in Writing, NEW label \in {"write", "flush", "unwind"},
         Go(t, label), UNCHANGED <<exists, data, size, history>>,
         NEW p \in Nat, pos' = [pos EXCEPT ![t] = p], p <= Len(data[t]),
         file' \in Seq(Byte \cup {Zero}),
         ~overlapped => file' \in Seq(Byte) /\ p = Len(file'),
         alone[t] /\ label # "unwind" => file' = SubSeq(data[t], 1, p)
  PROVE  FileInv'
<1>. USE DEF FileInv
<1>0. UNCHANGED <<exists, data, size, content, alone, expected, overlapped>>
  BY DEF history
<1>1. t \in Thread /\ Writing \subseteq Thread
  BY DEF Writing
<1>2. /\ pc'[t] = label
      /\ \A u \in Thread : u # t => pc'[u] = pc[u]
      /\ Writing' = Writing
      /\ \A u \in Reading' : u \in Thread /\ u # t /\ u \in Reading
  <2>1. /\ pc'[t] = label
        /\ \A u \in Thread : u # t => pc'[u] = pc[u]
        /\ \A u \in Thread : u # t => (u \in Writing' <=> u \in Writing)
        /\ \A u \in Thread : u # t => (u \in Reading' <=> u \in Reading)
        /\ t \in Writing' /\ t \notin Reading'
        /\ Writing' \subseteq Thread /\ Reading' \subseteq Thread
    BY <1>1, OneMoves
  <2>2. \A u : u \in Writing' <=> u \in Writing
    BY <1>1, <2>1
  <2>3. Writing' = Writing
    BY <2>2
  <2>. QED
    BY <2>1, <2>3
<1>3. pos'[t] = p /\ \A u \in Thread : u # t => pos'[u] = pos[u]
  BY <1>1 DEF TypeOK
<1>4. content = Unknown
  BY DEF FileMatches
<1>5. TypeOK'
  BY <1>0, <1>1 DEF TypeOK, Go
<1>6. FileMatches'
  <2>. SUFFICES ASSUME NEW u \in Writing
       PROVE  /\ pos'[u] <= Len(data[u])
              /\ alone[u] => Writing = {u} /\ content = Unknown
              /\ alone[u] /\ pc'[u] # "unwind" => file' = SubSeq(data[u], 1, pos'[u])
    BY <1>0, <1>2, <1>4 DEF FileMatches
  <2>1. alone[u] => Writing = {u}
    BY DEF FileMatches
  <2>2. CASE u = t
    BY <1>2, <1>3, <1>4, <2>1, <2>2
  <2>3. CASE u # t
    <3>1. alone[u] = FALSE \/ alone[u] = TRUE
      BY <1>1 DEF TypeOK
    <3>2. ~alone[u]
      BY <2>1, <2>3
    <3>3. pos'[u] <= Len(data[u])
      BY <1>1, <1>3, <2>3 DEF FileMatches
    <3>. QED
      BY <3>2, <3>3
  <2>. QED
    BY <2>2, <2>3
<1>7. ReadMatches'
  <2>. SUFFICES ASSUME NEW u \in Reading'
       PROVE  expected'[u] = Unknown
    BY DEF ReadMatches
  <2>1. u \in Reading /\ pc'[u] = pc[u]
    BY <1>2
  <2>. QED
    BY <1>0, <1>4, <2>1 DEF ReadMatches
<1>8. NoHoles'
  <2>. SUFFICES ASSUME ~overlapped
       PROVE  /\ file' \in Seq(Byte)
              /\ \A u \in Thread : data[u] \in Seq(Byte)
              /\ \A u \in Writing : Writing = {u} /\ pos'[u] = Len(file')
    BY <1>0, <1>2 DEF NoHoles
  <2>1. \A u \in Writing : Writing = {u}
    BY DEF NoHoles
  <2>. QED
    BY <1>3, <2>1 DEF NoHoles
<1>9. OwnData'
  BY <1>0, <1>1, <1>2 DEF OwnData
<1>. QED
  BY <1>5, <1>6, <1>7, <1>8, <1>9

-----------------------------------------------------------------------------
(* One lemma per action.                                                   *)

LEMMA InitHolds ==
  ASSUME Init
  PROVE  FileInv
<1>1. Writing = {} /\ Reading = {}
  BY DEF Init, Writing, Reading
<1>2. <<>> \in Seq(Byte) /\ <<>> \in Seq(Byte \cup {Zero})
  OBVIOUS
<1>. QED
  BY <1>1, <1>2 DEF Init, FileInv, TypeOK, OwnData, FileMatches, ReadMatches, NoHoles

LEMMA ReadOpenKeeps ==
  ASSUME FileInv, NEW t \in Thread, ReadOpen(t)
  PROVE  FileInv'
<1>1. Go(t, "size") /\ t \notin Writing /\ data[t] = <<>>
  BY DEF ReadOpen, Writing, FileInv, OwnData
<1>2. /\ UNCHANGED <<disk, pos, content, alone, overlapped>>
      /\ expected' = [expected EXCEPT ![t] = content]
      /\ data' = [data EXCEPT ![t] = <<>>] /\ size' = [size EXCEPT ![t] = size[t]]
  BY <1>1 DEF ReadOpen, FileInv, TypeOK
<1>3. /\ size[t] \in Nat /\ content \in Seq(Byte) \cup {Unknown}
      /\ <<>> \in Seq(Byte) /\ <<>> \in Seq(Byte \cup {Zero})
  BY DEF FileInv, TypeOK
<1>. QED
  BY <1>1, <1>2, <1>3, ReaderKeeps

LEMMA ReadSizeKeeps ==
  ASSUME FileInv, NEW t \in Thread, ReadSize(t)
  PROVE  FileInv'
<1>. DEFINE label == IF file = <<>> THEN "got" ELSE "read"
<1>1. Go(t, label) /\ t \notin Writing /\ t \in Reading /\ data[t] = <<>>
  BY DEF ReadSize, Writing, Reading, FileInv, OwnData
<1>2. /\ UNCHANGED <<disk, pos, content, alone, overlapped>>
      /\ expected' = [expected EXCEPT ![t] = expected[t]]
      /\ data' = [data EXCEPT ![t] = <<>>] /\ size' = [size EXCEPT ![t] = Len(file)]
  BY <1>1 DEF ReadSize, FileInv, TypeOK, history
<1>3. /\ Len(file) \in Nat /\ expected[t] \in Seq(Byte) \cup {Unknown}
      /\ <<>> \in Seq(Byte) /\ <<>> \in Seq(Byte \cup {Zero})
      /\ file = <<>> => Len(file) = 0
      /\ SubSeq(file, 1, 0) = <<>>
  BY DEF FileInv, TypeOK
<1>4. expected[t] # Unknown => expected[t] = content
  BY <1>1 DEF FileInv, ReadMatches
<1>5. /\ label \in {"size", "read", "got"} /\ label # "size"
      /\ Len(<<>>) = 0
      /\ label = "got" => Len(file) = 0
  BY <1>3
<1>6. /\ Len(file) = Len(file) /\ Len(<<>>) <= Len(file)
      /\ <<>> = SubSeq(file, 1, Len(<<>>))
      /\ label = "got" => Len(<<>>) = Len(file)
  BY <1>3, <1>5
<1>. HIDE DEF label
<1>. QED
  BY <1>1, <1>2, <1>3, <1>4, <1>5, <1>6, ReaderKeeps

LEMMA ReadSomeKeeps ==
  ASSUME FileInv, NEW t \in Thread, ReadSome(t)
  PROVE  FileInv'
<1>1. /\ pc[t] = "read" /\ t \notin Writing /\ t \in Reading
      /\ size[t] \in Nat /\ expected[t] \in Seq(Byte) \cup {Unknown}
      /\ file \in Seq(Byte \cup {Zero}) /\ data[t] \in Seq(Byte \cup {Zero})
  BY DEF ReadSome, Writing, Reading, FileInv, TypeOK
<1>2. PICK n \in 1 .. Min({size[t], Len(file)}) - Len(data[t]) :
        /\ data' = [data EXCEPT ![t] = @ \o SubSeq(file, Len(@) + 1, Len(@) + n)]
        /\ Go(t, IF Len(data[t]) + n = size[t] THEN "got" ELSE "read")
  BY DEF ReadSome
<1>. DEFINE label == IF Len(data[t]) + n = size[t] THEN "got" ELSE "read"
            k     == Len(data[t])
            piece == SubSeq(file, k + 1, k + n)
<1>3. n \in Nat /\ k \in Nat /\ k + n <= size[t] /\ k + n <= Len(file)
  <2>1. k \in Nat /\ Len(file) \in Nat
    BY <1>1
  <2>2. Min({size[t], Len(file)}) = IF size[t] <= Len(file) THEN size[t] ELSE Len(file)
    BY <1>1, <2>1, MinOfTwo
  <2>3. n \in 1 .. Min({size[t], Len(file)}) - k
    OBVIOUS
  <2>. HIDE DEF k
  <2>. QED
    BY <1>1, <2>1, <2>2, <2>3
<1>4. piece \in Seq(Byte \cup {Zero}) /\ Len(piece) = n
  BY <1>1, <1>3, PieceTyped
<1>5. /\ data[t] \o piece \in Seq(Byte \cup {Zero})
      /\ Len(data[t] \o piece) = k + n
  BY <1>1, <1>4
<1>6. ~overlapped => data[t] \o piece \in Seq(Byte)
  <2>1. ~overlapped => file \in Seq(Byte) /\ data[t] \in Seq(Byte)
    BY DEF FileInv, NoHoles
  <2>2. ~overlapped => piece \in Seq(Byte)
    BY <1>3, <2>1, PieceTyped
  <2>. QED
    BY <2>1, <2>2
<1>7. expected[t] # Unknown =>
        /\ expected[t] = content /\ size[t] = Len(file)
        /\ data[t] = SubSeq(file, 1, k)
  BY <1>1 DEF FileInv, ReadMatches
<1>8. expected[t] # Unknown => data[t] \o piece = SubSeq(file, 1, k + n)
  BY <1>1, <1>3, <1>7, PrefixExtends
<1>9. /\ UNCHANGED <<disk, pos, content, alone, overlapped>>
      /\ Go(t, label) /\ label \in {"size", "read", "got"} /\ label # "size"
      /\ label = "got" => k + n = size[t]
      /\ expected' = [expected EXCEPT ![t] = expected[t]]
      /\ data' = [data EXCEPT ![t] = data[t] \o piece]
      /\ size' = [size EXCEPT ![t] = size[t]]
  BY <1>2 DEF ReadSome, FileInv, TypeOK, history
<1>10. expected[t] # Unknown =>
         /\ size[t] = Len(file) /\ Len(data[t] \o piece) <= size[t]
         /\ data[t] \o piece = SubSeq(file, 1, Len(data[t] \o piece))
  BY <1>3, <1>5, <1>7, <1>8
<1>11. expected[t] # Unknown => expected[t] = content
  BY <1>7
<1>12. expected[t] # Unknown /\ label = "got" => Len(data[t] \o piece) = size[t]
  BY <1>5, <1>9
<1>. HIDE DEF label, piece, k
<1>. QED
  BY <1>1, <1>5, <1>6, <1>9, <1>10, <1>11, <1>12, ReaderKeeps

\* What the invariant says of one writer.
LEMMA OfAWriter ==
  ASSUME FileInv, NEW t \in Writing
  PROVE  /\ t \in Thread /\ pos[t] \in Nat /\ data[t] \in Seq(Byte)
         /\ pos[t] <= Len(data[t])
         /\ file \in Seq(Byte \cup {Zero}) /\ content = Unknown
         /\ ~overlapped => file \in Seq(Byte) /\ pos[t] = Len(file)
         /\ alone[t] => Writing = {t}
         /\ alone[t] /\ pc[t] # "unwind" => file = SubSeq(data[t], 1, pos[t])
<1>1. t \in Thread
  BY DEF Writing
<1>. QED
  BY <1>1 DEF FileInv, TypeOK, OwnData, FileMatches, NoHoles

LEMMA OpenToWriteKeeps ==
  ASSUME FileInv, NEW t \in Thread, NEW d \in Content, WriteOpen(t, d)
  PROVE  FileInv'
<1>. USE DEF FileInv
<1>1. d \in Seq(Byte) /\ d \in Seq(Byte \cup {Zero}) /\ <<>> \in Seq(Byte)
      /\ <<>> \in Seq(Byte \cup {Zero}) /\ Len(<<>>) = 0 /\ Len(d) \in Nat
  BY FileAssumption
<1>2. /\ exists' = TRUE /\ file' = <<>> /\ content' = Unknown
      /\ \A u \in Thread : expected'[u] = Unknown
      /\ \A u \in Thread : alone'[u] = (u = t /\ Writing = {})
      /\ overlapped' = (overlapped \/ Writing # {})
      /\ data'[t] = d /\ pos'[t] = 0
      /\ \A u \in Thread : u # t => data'[u] = data[u] /\ pos'[u] = pos[u]
  BY DEF WriteOpen, TypeOK
<1>3. /\ pc'[t] = "write"
      /\ \A u \in Thread : u # t => pc'[u] = pc[u]
      /\ \A u \in Thread : u # t => (u \in Writing' <=> u \in Writing)
      /\ t \in Writing' /\ t \notin Writing
      /\ Writing' \subseteq Thread /\ Writing \subseteq Thread /\ Reading' \subseteq Thread
  <2>1. Go(t, "write")
    BY DEF WriteOpen
  <2>2. t \notin Writing /\ Writing \subseteq Thread
    BY DEF WriteOpen, Writing
  <2>. QED
    BY <2>1, <2>2, OneMoves
<1>4. TypeOK'
  <2>1. overlapped' \in BOOLEAN
    BY <1>2
  <2>2. alone' \in [Thread -> BOOLEAN] /\ expected' \in [Thread -> Seq(Byte) \cup {Unknown}]
    BY DEF WriteOpen
  <2>. QED
    BY <1>1, <2>1, <2>2 DEF WriteOpen, TypeOK, Go
<1>5. OwnData'
  BY <1>1, <1>2, <1>3 DEF OwnData
<1>6. Writing = {} => Writing' = {t}
  <2>. SUFFICES ASSUME Writing = {} PROVE \A u : u \in Writing' <=> u = t
    OBVIOUS
  <2>. QED
    BY <1>3
<1>7. FileMatches'
  <2>. SUFFICES ASSUME NEW u \in Writing'
       PROVE  /\ pos'[u] <= Len(data'[u])
              /\ alone'[u] => Writing' = {u}
              /\ alone'[u] => file' = SubSeq(data'[u], 1, pos'[u])
    BY <1>2 DEF FileMatches
  <2>1. CASE u = t
    <3>1. pos'[u] <= Len(data'[u])
      BY <1>1, <1>2, <2>1
    <3>2. file' = SubSeq(data'[u], 1, pos'[u])
      BY <1>1, <1>2, <2>1
    <3>3. alone'[u] => Writing' = {u}
      BY <1>2, <1>6, <2>1
    <3>. QED
      BY <3>1, <3>2, <3>3
  <2>2. CASE u # t
    <3>1. u \in Writing /\ u \in Thread
      BY <1>3, <2>2
    <3>2. pos'[u] <= Len(data'[u])
      BY <1>2, <2>2, <3>1 DEF FileMatches
    <3>3. ~alone'[u]
      BY <1>2, <2>2, <3>1
    <3>. QED
      BY <3>2, <3>3
  <2>. QED
    BY <2>1, <2>2
<1>8. ReadMatches'
  BY <1>2, <1>3 DEF ReadMatches
<1>9. NoHoles'
  <2>. SUFFICES ASSUME ~overlapped'
       PROVE  /\ file' \in Seq(Byte)
              /\ \A u \in Thread : data'[u] \in Seq(Byte)
              /\ \A u \in Writing' : Writing' = {u} /\ pos'[u] = Len(file')
    BY DEF NoHoles
  <2>1. ~overlapped /\ Writing = {}
    BY <1>2
  <2>2. \A u \in Thread : data'[u] \in Seq(Byte)
    BY <1>1, <1>2, <2>1 DEF NoHoles
  <2>3. Writing' = {t}
    BY <1>6, <2>1
  <2>. QED
    BY <1>1, <1>2, <2>2, <2>3
<1>. QED
  BY <1>4, <1>5, <1>7, <1>8, <1>9

LEMMA WriteBuffersKeeps ==
  ASSUME FileInv, NEW t \in Thread, WriteBuffers(t)
  PROVE  FileInv'
<1>1. t \in Writing /\ pc[t] # "unwind"
  BY DEF WriteBuffers, Writing
<1>2. /\ Go(t, "flush") /\ UNCHANGED <<exists, data, size, history>>
      /\ file' = file /\ pos' = [pos EXCEPT ![t] = pos[t]]
  BY DEF WriteBuffers, FileInv, TypeOK, disk
<1>. QED
  BY <1>1, <1>2, OfAWriter, WriterKeeps

LEMMA FlushFailsKeeps ==
  ASSUME FileInv, NEW t \in Thread, FlushFails(t)
  PROVE  FileInv'
<1>1. t \in Writing
  BY DEF FlushFails, Writing
<1>2. /\ Go(t, "unwind") /\ UNCHANGED <<exists, data, size, history>>
      /\ file' = file /\ pos' = [pos EXCEPT ![t] = pos[t]]
  BY DEF FlushFails, FileInv, TypeOK, disk
<1>. QED
  BY <1>1, <1>2, OfAWriter, WriterKeeps

LEMMA WriteSomeKeeps ==
  ASSUME FileInv, NEW t \in Thread, WriteSome(t)
  PROVE  FileInv'
<1>1. t \in Writing /\ pc[t] \in {"write", "flush"}
  BY DEF WriteSome, Writing
<1>2. PICK n \in 1 .. Len(data[t]) - pos[t] :
        /\ file' = Overwritten(pos[t], SubSeq(data[t], pos[t] + 1, pos[t] + n))
        /\ pos' = [pos EXCEPT ![t] = @ + n]
        /\ Go(t, IF pos[t] + n = Len(data[t]) THEN "flush" ELSE pc[t])
  BY DEF WriteSome
<1>. DEFINE piece == SubSeq(data[t], pos[t] + 1, pos[t] + n)
            label == IF pos[t] + n = Len(data[t]) THEN "flush" ELSE pc[t]
<1>3. /\ pos[t] \in Nat /\ data[t] \in Seq(Byte) /\ file \in Seq(Byte \cup {Zero})
      /\ Zero \in Byte \cup {Zero}
  BY <1>1, OfAWriter
<1>4. n \in Nat /\ pos[t] + n \in Nat /\ pos[t] + n <= Len(data[t]) /\ pos[t] <= Len(data[t])
  BY <1>1, <1>2, <1>3, OfAWriter
<1>5. piece \in Seq(Byte) /\ Len(piece) = n
  BY <1>3, <1>4, PieceTyped
<1>6. piece \in Seq(Byte \cup {Zero})
  BY <1>5
<1>7. file' \in Seq(Byte \cup {Zero})
  BY <1>2, <1>3, <1>6, OverwrittenTyped
<1>8. pos[t] = Len(file) => file' = file \o piece
  BY <1>2, <1>3, <1>6, OverwrittenAtEnd
<1>9. ~overlapped => file' \in Seq(Byte) /\ pos[t] + n = Len(file')
  <2>1. ~overlapped => file \in Seq(Byte) /\ pos[t] = Len(file)
    BY <1>1, OfAWriter
  <2>. HIDE DEF piece
  <2>2. ASSUME file \in Seq(Byte)
        PROVE  file \o piece \in Seq(Byte) /\ Len(file \o piece) = Len(file) + n
    BY <1>5, <2>2
  <2>. QED
    BY <1>8, <2>1, <2>2
<1>10. alone[t] => file' = SubSeq(data[t], 1, pos[t] + n)
  <2>1. alone[t] => file = SubSeq(data[t], 1, pos[t])
    BY <1>1, OfAWriter
  <2>2. alone[t] => Len(file) = pos[t]
    BY <1>3, <1>4, <2>1, PrefixTyped
  <2>3. SubSeq(data[t], 1, pos[t]) \o piece = SubSeq(data[t], 1, pos[t] + n)
    BY <1>3, <1>4, PrefixExtends
  <2>. HIDE DEF piece
  <2>. QED
    BY <1>8, <2>1, <2>2, <2>3
<1>11. /\ label \in {"write", "flush", "unwind"} /\ Go(t, label)
       /\ UNCHANGED <<exists, data, size, history>>
       /\ pos' = [pos EXCEPT ![t] = pos[t] + n]
  BY <1>1, <1>2 DEF WriteSome
<1>. HIDE DEF piece, label
<1>. QED
  BY <1>1, <1>4, <1>7, <1>9, <1>10, <1>11, WriterKeeps

LEMMA UnwindKeeps ==
  ASSUME FileInv, NEW t \in Thread, Unwind(t)
  PROVE  FileInv'
<1>. USE DEF FileInv
<1>1. t \in Writing /\ Leave(t) /\ UNCHANGED <<exists, content, overlapped>>
  BY DEF Unwind, Writing
<1>2. PICK n \in 0 .. Len(data[t]) :
        file' = IF n = 0 THEN file ELSE Overwritten(pos[t], SubSeq(data[t], 1, n))
  BY DEF Unwind
<1>. DEFINE again == SubSeq(data[t], 1, n)
<1>3. /\ pos[t] \in Nat /\ data[t] \in Seq(Byte) /\ file \in Seq(Byte \cup {Zero})
      /\ Zero \in Byte \cup {Zero} /\ content = Unknown
      /\ ~overlapped => file \in Seq(Byte) /\ pos[t] = Len(file)
      /\ n \in Nat /\ n <= Len(data[t])
  BY <1>1, <1>2, OfAWriter
<1>4. again \in Seq(Byte)
  BY <1>3, PrefixTyped
<1>5. file' \in Seq(Byte \cup {Zero})
  <2>1. again \in Seq(Byte \cup {Zero})
    BY <1>4
  <2>2. Overwritten(pos[t], again) \in Seq(Byte \cup {Zero})
    BY <1>3, <2>1, OverwrittenTyped
  <2>. QED
    BY <1>2, <1>3, <2>2
<1>6. ~overlapped => file' \in Seq(Byte)
  <2>. SUFFICES ASSUME ~overlapped PROVE file' \in Seq(Byte)
    OBVIOUS
  <2>1. file \in Seq(Byte) /\ pos[t] = Len(file)
    BY <1>3
  <2>2. Overwritten(pos[t], again) = file \o again
    BY <1>4, <2>1, OverwrittenAtEnd
  <2>. HIDE DEF again
  <2>3. file \o again \in Seq(Byte)
    BY <1>4, <2>1
  <2>. QED
    BY <1>2, <2>1, <2>2, <2>3 DEF again
<1>7. /\ \A u \in Writing' : u \in Writing /\ u # t /\ pc'[u] = pc[u]
      /\ \A u \in Reading' : u \in Reading /\ u # t /\ pc'[u] = pc[u]
      /\ Reading' \subseteq Thread /\ Writing' \subseteq Thread
      /\ \A u \in Thread : u # t => pc'[u] = pc[u]
  <2>1. Go(t, "idle")
    BY <1>1 DEF Leave
  <2>. QED
    BY <2>1, OneMoves
<1>8. TypeOK'
  BY <1>1, <1>5, Left DEF TypeOK
<1>9. OwnData'
  <2>. SUFFICES ASSUME NEW u \in Thread
       PROVE  /\ pc'[u] \in {"idle", "size"} => data'[u] = <<>>
              /\ u \in Writing' => data'[u] \in Seq(Byte)
    BY DEF OwnData
  <2>1. CASE u = t
    BY <1>1, <1>7, <2>1, Left
  <2>2. CASE u # t
    BY <1>1, <1>7, <2>2, Left DEF OwnData
  <2>. QED
    BY <2>1, <2>2
<1>10. FileMatches'
  <2>. SUFFICES ASSUME NEW u \in Writing'
       PROVE  pos'[u] <= Len(data'[u]) /\ ~alone'[u]
    BY <1>1, <1>3 DEF FileMatches
  <2>1. u \in Writing /\ u # t /\ u \in Thread
    BY <1>7
  <2>2. pos'[u] = pos[u] /\ data'[u] = data[u] /\ alone'[u] = alone[u]
    BY <1>1, <2>1, Left
  <2>3. ~alone[u]
    BY <1>1, <2>1 DEF FileMatches
  <2>4. pos[u] <= Len(data[u])
    BY <2>1 DEF FileMatches
  <2>. QED
    BY <2>2, <2>3, <2>4
<1>11. ReadMatches'
  <2>. SUFFICES ASSUME NEW u \in Reading' PROVE expected'[u] = Unknown
    BY DEF ReadMatches
  <2>1. u \in Reading /\ expected'[u] = expected[u]
    BY <1>1, <1>7, Left
  <2>. QED
    BY <1>3, <2>1 DEF ReadMatches
<1>12. NoHoles'
  <2>. SUFFICES ASSUME ~overlapped
       PROVE  /\ \A u \in Thread : data'[u] \in Seq(Byte)
              /\ Writing' = {}
    BY <1>1, <1>6 DEF NoHoles
  <2>1. ASSUME NEW u \in Thread PROVE data'[u] \in Seq(Byte)
    <3>1. data[u] \in Seq(Byte) /\ <<>> \in Seq(Byte)
      BY DEF NoHoles
    <3>2. data'[u] = <<>> \/ data'[u] = data[u]
      BY <1>1, Left
    <3>. QED
      BY <3>1, <3>2
  <2>2. Writing = {t}
    BY <1>1 DEF NoHoles
  <2>. QED
    BY <1>7, <2>1, <2>2
<1>. QED
  BY <1>8, <1>9, <1>10, <1>11, <1>12

LEMMA WriteReturnsKeeps ==
  ASSUME FileInv, NEW t \in Thread, WriteReturns(t)
  PROVE  FileInv'
<1>. USE DEF FileInv
<1>1. /\ t \in Writing /\ pc[t] = "flush" /\ pos[t] = Len(data[t])
      /\ Leave(t) /\ UNCHANGED <<exists, file, overlapped>>
      /\ content' = IF alone[t] THEN data[t] ELSE Unknown
  BY DEF WriteReturns, Writing, disk
<1>2. data[t] \in Seq(Byte) /\ content = Unknown /\ (alone[t] => Writing = {t})
  BY <1>1, OfAWriter
<1>3. alone[t] => file = data[t]
  <2>1. alone[t] => file = SubSeq(data[t], 1, Len(data[t]))
    BY <1>1, OfAWriter
  <2>2. SubSeq(data[t], 1, Len(data[t])) = data[t]
    BY <1>2
  <2>. QED
    BY <2>1, <2>2
<1>4. /\ \A u \in Writing' : u \in Writing /\ u # t /\ pc'[u] = pc[u]
      /\ \A u \in Reading' : u \in Reading /\ u # t /\ pc'[u] = pc[u]
      /\ Reading' \subseteq Thread /\ Writing' \subseteq Thread
      /\ \A u \in Thread : u # t => pc'[u] = pc[u]
  <2>1. Go(t, "idle")
    BY <1>1 DEF Leave
  <2>. QED
    BY <2>1, OneMoves
<1>5. content' \in Seq(Byte) \cup {Unknown}
  BY <1>1, <1>2
<1>6. TypeOK'
  BY <1>1, <1>5, Left DEF TypeOK
<1>7. OwnData'
  <2>. SUFFICES ASSUME NEW u \in Thread
       PROVE  /\ pc'[u] \in {"idle", "size"} => data'[u] = <<>>
              /\ u \in Writing' => data'[u] \in Seq(Byte)
    BY DEF OwnData
  <2>1. CASE u = t
    BY <1>1, <1>4, <2>1, Left
  <2>2. CASE u # t
    BY <1>1, <1>4, <2>2, Left DEF OwnData
  <2>. QED
    BY <2>1, <2>2
<1>8. FileMatches'
  <2>1. content' # Unknown => file' = content' /\ Writing' = {}
    BY <1>1, <1>2, <1>3, <1>4
  <2>2. ASSUME NEW u \in Writing'
        PROVE  pos'[u] <= Len(data'[u]) /\ ~alone'[u]
    <3>1. u \in Writing /\ u # t /\ u \in Thread
      BY <1>4, <2>2
    <3>2. pos'[u] = pos[u] /\ data'[u] = data[u] /\ alone'[u] = alone[u]
      BY <1>1, <3>1, Left
    <3>3. ~alone[u]
      BY <1>1, <3>1 DEF FileMatches
    <3>4. pos[u] <= Len(data[u])
      BY <3>1 DEF FileMatches
    <3>. QED
      BY <3>2, <3>3, <3>4
  <2>. QED
    BY <2>1, <2>2 DEF FileMatches
<1>9. ReadMatches'
  <2>. SUFFICES ASSUME NEW u \in Reading' PROVE expected'[u] = Unknown
    BY DEF ReadMatches
  <2>1. u \in Reading /\ expected'[u] = expected[u]
    BY <1>1, <1>4, Left
  <2>. QED
    BY <1>2, <2>1 DEF ReadMatches
<1>10. NoHoles'
  <2>. SUFFICES ASSUME ~overlapped
       PROVE  /\ file \in Seq(Byte)
              /\ \A u \in Thread : data'[u] \in Seq(Byte)
              /\ Writing' = {}
    BY <1>1 DEF NoHoles
  <2>1. ASSUME NEW u \in Thread PROVE data'[u] \in Seq(Byte)
    <3>1. data[u] \in Seq(Byte) /\ <<>> \in Seq(Byte)
      BY DEF NoHoles
    <3>2. data'[u] = <<>> \/ data'[u] = data[u]
      BY <1>1, Left
    <3>. QED
      BY <3>1, <3>2
  <2>2. Writing = {t} /\ file \in Seq(Byte)
    BY <1>1 DEF NoHoles
  <2>. QED
    BY <1>4, <2>1, <2>2
<1>. QED
  BY <1>6, <1>7, <1>8, <1>9, <1>10

LEMMA NextKeeps ==
  ASSUME FileInv, [Next]_vars
  PROVE  FileInv'
<1>1. CASE UNCHANGED vars
  BY <1>1 DEF vars, disk, locals, history, FileInv, TypeOK, OwnData, FileMatches,
              ReadMatches, NoHoles, Writing, Reading
<1>2. ASSUME NEW t \in Thread, Read(t) \/ Write(t) \/ Dies(t)
      PROVE  FileInv'
  <2>1. CASE ReadOpen(t)
    BY <2>1, ReadOpenKeeps
  <2>2. CASE ReadSize(t)
    BY <2>2, ReadSizeKeeps
  <2>3. CASE ReadSome(t)
    BY <2>3, ReadSomeKeeps
  <2>4. CASE ReadFails(t) \/ ReadReturns(t) \/ WriteFails(t) \/ Dies(t)
    BY <2>4, LeaveKeeps DEF ReadFails, ReadReturns, WriteFails, Dies
  <2>5. ASSUME NEW d \in Content, WriteOpen(t, d)
        PROVE  FileInv'
    BY <2>5, OpenToWriteKeeps
  <2>6. CASE WriteBuffers(t)
    BY <2>6, WriteBuffersKeeps
  <2>7. CASE WriteSome(t)
    BY <2>7, WriteSomeKeeps
  <2>8. CASE FlushFails(t)
    BY <2>8, FlushFailsKeeps
  <2>9. CASE Unwind(t)
    BY <2>9, UnwindKeeps
  <2>10. CASE WriteReturns(t)
    BY <2>10, WriteReturnsKeeps
  <2>. QED
    BY <1>2, <2>1, <2>2, <2>3, <2>4, <2>5, <2>6, <2>7, <2>8, <2>9, <2>10 DEF Read, Write
<1>. QED
  BY <1>1, <1>2 DEF Next

-----------------------------------------------------------------------------
\* The inductive invariant of readFile() and writeFile() on one file, for any
\* number of threads, any contents and any size of the stream's buffer.
THEOREM FileInvariant == Spec => []FileInv
<1>1. Init => FileInv
  BY InitHolds
<1>2. FileInv /\ [Next]_vars => FileInv'
  BY NextKeeps
<1>. QED
  BY <1>1, <1>2, PTL DEF Spec

\* What writeFile() wrote is what the next readFile() returns: nothing that
\* failed in between, and no piecewise write or read, changes a byte of it.
THEOREM WrittenIsRead == Spec => []ReadsBack
<1>1. FileInv => ReadsBack
  <2>. SUFFICES ASSUME FileInv, NEW t \in Thread, pc[t] = "got", expected[t] # Unknown
       PROVE  data[t] = expected[t]
    BY DEF ReadsBack
  <2>1. t \in Reading
    BY DEF Reading
  <2>2. /\ expected[t] = content /\ Len(data[t]) = Len(file)
        /\ data[t] = SubSeq(file, 1, Len(file)) /\ content # Unknown
    BY <2>1 DEF FileInv, ReadMatches
  <2>3. file = content /\ file \in Seq(Byte \cup {Zero})
    BY <2>2 DEF FileInv, FileMatches, TypeOK
  <2>4. SubSeq(file, 1, Len(file)) = file
    BY <2>3
  <2>. QED
    BY <2>2, <2>3, <2>4
<1>. QED
  BY <1>1, FileInvariant, PTL

\* As long as no two writes overlap, readFile() returns only bytes that some
\* writeFile() was given, whatever it overlaps with.
THEOREM NoByteInvented == Spec => []NothingInvented
<1>1. FileInv => NothingInvented
  BY DEF FileInv, NoHoles, NothingInvented
<1>. QED
  BY <1>1, FileInvariant, PTL
=============================================================================
