---------------------------- MODULE RleLoopsProofs ----------------------------
EXTENDS RleFunctional, SequenceTheorems, WellFoundedInduction, TLAPS

\* What an even index below an even length leaves room for.
LEMMA NextPair ==
  ASSUME NEW m \in Nat, NEW n \in Nat, m % 2 = 0, n % 2 = 0, m < n
  PROVE  /\ m + 1 \in 1 .. n /\ m + 2 \in 1 .. n
         /\ (m + 2) % 2 = 0
         /\ m \div 2 \in Nat /\ m = 2 * (m \div 2)
         /\ (m + 2) \div 2 = (m \div 2) + 1
OBVIOUS

\* What an odd index below an even length leaves room for.
LEMMA NextCount ==
  ASSUME NEW m \in Nat, NEW n \in Nat, m % 2 = 1, n % 2 = 0, m < n
  PROVE  /\ m + 1 \in 1 .. n /\ (m + 1) % 2 = 0
         /\ (m + 2) % 2 = 1 /\ m + 2 <= n + 1
OBVIOUS

\* The even positions up to m + 2, for an odd m.
LEMMA EvenUpTo ==
  ASSUME NEW m \in Nat, NEW k \in Nat, m % 2 = 1, k % 2 = 0, k <= m + 2
  PROVE  k <= m \/ k = m + 1
OBVIOUS

LEMMA EvenFromTwo ==
  /\ 0 % 2 = 0 /\ 1 % 2 = 1
  /\ \A k \in Nat \ {0} : k % 2 = 0 => k > 1
OBVIOUS

\* The only odd position whose successor's successor lies past an even length.
LEMMA LastValue ==
  ASSUME NEW m \in Nat, NEW k \in Nat, k % 2 = 1, k + 2 <= 2 * m + 2, k + 2 > 2 * m
  PROVE  k = 2 * m - 1
OBVIOUS

\* The cast to a byte loses nothing of a run that fits one.
LEMMA CountIsExact ==
  ASSUME NEW r \in 0 .. MaxByte
  PROVE  Count(r) = r
BY RleAssumption DEF Count

LEMMA EmitAppends ==
  ASSUME out \in Seq(Byte), current \in Byte, run \in 1 .. MaxByte,
         marks \in Seq(Nat), i \in Nat, Emit
  PROVE  /\ out' \in Seq(Byte)
         /\ Len(out') = Len(out) + 2
         /\ \A k \in 1 .. Len(out) : out'[k] = out[k]
         /\ out'[Len(out) + 1] = current
         /\ out'[Len(out) + 2] = run
         /\ marks' \in Seq(Nat)
         /\ Len(marks') = Len(marks) + 1
         /\ \A k \in 1 .. Len(marks) : marks'[k] = marks[k]
         /\ marks'[Len(marks) + 1] = i
<1>1. Count(run) = run /\ run \in Byte
  BY CountIsExact DEF Byte
<1>. QED
  BY <1>1 DEF Emit

LEMMA FillAppends ==
  ASSUME NEW s \in Seq(Byte), NEW n \in Nat, NEW v \in Byte
  PROVE  /\ Fill(s, n, v) \in Seq(Byte)
         /\ Len(Fill(s, n, v)) = Len(s) + n
         /\ \A j \in 1 .. Len(s) : Fill(s, n, v)[j] = s[j]
         /\ \A j \in Len(s) + 1 .. Len(s) + n : Fill(s, n, v)[j] = v
<1>. DEFINE t == [j \in 1 .. n |-> v]
<1>1. t \in Seq(Byte) /\ Len(t) = n
  OBVIOUS
<1>2. Fill(s, n, v) = s \o t
  BY DEF Fill
<1>3. \A j \in 1 .. n : t[j] = v
  OBVIOUS
<1>. HIDE DEF t
<1>4. /\ s \o t \in Seq(Byte)
      /\ Len(s \o t) = Len(s) + n
      /\ \A j \in 1 .. Len(s) + n : (s \o t)[j] = IF j <= Len(s) THEN s[j] ELSE t[j - Len(s)]
  BY <1>1, ConcatProperties
<1>5. Len(s) \in Nat
  OBVIOUS
<1>. QED
  BY <1>2, <1>3, <1>4, <1>5

LEMMA RleInit == Init => RleInv
<1>. SUFFICES ASSUME Init PROVE RleInv
  OBVIOUS
<1>. USE RleAssumption
<1>1. TypeOK
  <2>1. data \in Seq(Byte) /\ out \in Seq(Byte) /\ back \in Seq(Byte)
    BY EmptySeq DEF Init
  <2>3. marks \in Seq(Nat)
    BY DEF Init
  <2>2. current \in Byte
    BY DEF Init, Byte
  <2>. QED
    BY <2>1, <2>2, <2>3 DEF Init, TypeOK
<1>2. stream = "own" => Tiling
  BY DEF Init, Tiling, Covered
<1>3. Scanning /\ Prefix /\ Validated /\ Maximal
  BY DEF Init, Scanning, Prefix, Validated, Maximal
<1>4. stream = "own" => MaximalRuns
  BY DEF Init, MaximalRuns
<1>5. AcceptsOwnStreams /\ RejectsExactlyMalformed
  BY DEF Init, AcceptsOwnStreams, RejectsExactlyMalformed
<1>. QED
  BY <1>1, <1>2, <1>3, <1>4, <1>5 DEF RleInv, Init

LEMMA TypeKept == RleInv /\ [Next]_vars => TypeOK'
<1>. SUFFICES ASSUME RleInv, [Next]_vars PROVE TypeOK'
  OBVIOUS
<1>. USE RleAssumption DEF RleInv, TypeOK
<1>1. CASE CompressEmpty
  BY <1>1 DEF CompressEmpty, work
<1>2. CASE CompressBegin
  BY <1>2 DEF CompressBegin
<1>3. CASE Extend
  BY <1>3 DEF Extend, SameRun
<1>4. CASE Flush
  <2>1. run \in 1 .. MaxByte
    BY <1>4 DEF Flush, Scanning
  <2>2. out' \in Seq(Byte) /\ marks' \in Seq(Nat)
    BY <1>4, <2>1, EmitAppends DEF Flush
  <2>. QED
    BY <1>4, <2>2 DEF Flush
<1>5. CASE FlushLast
  <2>1. run \in 1 .. MaxByte
    BY <1>5 DEF FlushLast, Scanning
  <2>2. out' \in Seq(Byte) /\ marks' \in Seq(Nat)
    BY <1>5, <2>1, EmitAppends DEF FlushLast
  <2>. QED
    BY <1>5, <2>2 DEF FlushLast, work
<1>6. CASE DecompressEmpty
  BY <1>6 DEF DecompressEmpty, work
<1>7. CASE DecompressOdd
  BY <1>7 DEF DecompressOdd, work
<1>8. CASE DecompressBegin
  BY <1>8 DEF DecompressBegin
<1>9. CASE CountPair
  BY <1>9 DEF CountPair
<1>10. CASE CountDone
  BY <1>10 DEF CountDone
<1>11. CASE ExpandPair
  <2>0. i % 2 = 0 /\ Len(out) % 2 = 0 /\ i < Len(out)
    BY <1>11 DEF ExpandPair, Validated
  <2>1. i + 1 \in 1 .. Len(out) /\ i + 2 \in 1 .. Len(out)
    <3>1. i \in Nat /\ Len(out) \in Nat
      OBVIOUS
    <3>. HIDE DEF RleInv, TypeOK
    <3>. QED
      BY <2>0, <3>1, NextPair
  <2>2. out[i + 1] \in Byte /\ out[i + 2] \in Byte
    <3>1. out \in Seq(Byte)
      OBVIOUS
    <3>. HIDE DEF RleInv, TypeOK
    <3>. QED
      BY <2>1, <3>1, ElementOfSeq
  <2>3. out[i + 2] \in Nat
    BY <2>2 DEF Byte
  <2>4. Fill(back, out[i + 2], out[i + 1]) \in Seq(Byte)
    BY <2>2, <2>3, FillAppends, ZenonT(30)
  <2>. QED
    BY <1>11, <2>4 DEF ExpandPair
<1>12. CASE ExpandDone
  BY <1>12 DEF ExpandDone, work
<1>13. CASE UNCHANGED vars
  BY <1>13 DEF vars, work
<1>. QED
  BY <1>1, <1>2, <1>3, <1>4, <1>5, <1>6, <1>7, <1>8, <1>9, <1>10, <1>11, <1>12, <1>13
     DEF Next, Compress, Decompress

\* The compression half of the invariant.  Only the two flushes touch the
\* emitted pairs.
LEMMA FlushTiles ==
  ASSUME RleInv, pc = "scan", Emit, UNCHANGED <<data, stream>>, Covered' = i
  PROVE  Tiling' /\ MaximalRuns' /\ out'[Len(out') - 1] = current /\ out'[Len(out')] = run
<1>0. /\ out \in Seq(Byte) /\ current \in Byte /\ marks \in Seq(Nat)
      /\ data \in Seq(Byte) /\ i \in Nat /\ run \in 0 .. MaxByte
  BY DEF RleInv, TypeOK
<1>1. stream = "own" /\ Tiling /\ Scanning /\ Maximal /\ MaximalRuns
  BY DEF RleInv
<1>2. /\ i \in 1 .. Len(data) /\ run \in 1 .. i /\ run \in 1 .. MaxByte
      /\ \A j \in i - run + 1 .. i : data[j] = current
  BY <1>0, <1>1, RleAssumption DEF Scanning
<1>3. /\ out' \in Seq(Byte) /\ Len(out') = Len(out) + 2
      /\ \A k \in 1 .. Len(out) : out'[k] = out[k]
      /\ out'[Len(out) + 1] = current /\ out'[Len(out) + 2] = run
      /\ marks' \in Seq(Nat) /\ Len(marks') = Len(marks) + 1
      /\ \A k \in 1 .. Len(marks) : marks'[k] = marks[k]
      /\ marks'[Len(marks) + 1] = i
  BY <1>0, <1>2, EmitAppends
<1>4. /\ Len(out) \in Nat /\ Len(marks) \in Nat /\ Len(marks) >= 1 /\ Len(out) = 2 * (Len(marks) - 1)
      /\ marks[1] = 0 /\ marks[Len(marks)] = i - run
  BY <1>0, <1>1 DEF Tiling, Covered
<1>5. Tiling'
  <2>1. Len(out') = 2 * (Len(marks') - 1) /\ marks'[1] = 0 /\ marks'[Len(marks')] = Covered'
    BY <1>3, <1>4
  <2>2. ASSUME NEW k \in 1 .. Len(marks') - 1
        PROVE  /\ out'[2 * k] > 0
               /\ marks'[k + 1] = marks'[k] + out'[2 * k]
               /\ marks'[k + 1] <= Len(data')
               /\ \A j \in marks'[k] + 1 .. marks'[k + 1] : data'[j] = out'[2 * k - 1]
    <3>1. CASE k = Len(marks)
      <4>1. 2 * k = Len(out) + 2 /\ 2 * k - 1 = Len(out) + 1
        BY <1>4, <3>1
      <4>2. /\ out'[2 * k] = run /\ out'[2 * k - 1] = current
            /\ marks'[k] = i - run /\ marks'[k + 1] = i
        BY <1>3, <1>4, <3>1, <4>1
      <4>. QED
        BY <1>2, <4>2
    <3>2. CASE k \in 1 .. Len(marks) - 1
      <4>1. /\ 2 * k \in 1 .. Len(out) /\ 2 * k - 1 \in 1 .. Len(out)
            /\ k \in 1 .. Len(marks) /\ k + 1 \in 1 .. Len(marks)
        BY <1>4, <3>2
      <4>2. /\ out'[2 * k] = out[2 * k] /\ out'[2 * k - 1] = out[2 * k - 1]
            /\ marks'[k] = marks[k] /\ marks'[k + 1] = marks[k + 1]
        BY <1>3, <4>1
      <4>. QED
        BY <1>1, <3>2, <4>2 DEF Tiling
    <3>. QED
      BY <1>3, <1>4, <3>1, <3>2
  <2>. QED
    BY <2>1, <2>2 DEF Tiling
<1>6. MaximalRuns'
  <2>1. ASSUME NEW k \in 1 .. Len(out'), k % 2 = 1, k + 2 <= Len(out'), out'[k] = out'[k + 2]
        PROVE  out'[k + 1] = MaxByte
    <3>1. CASE k + 2 <= Len(out)
      <4>1. k \in 1 .. Len(out) /\ k + 1 \in 1 .. Len(out) /\ k + 2 \in 1 .. Len(out)
        BY <1>4, <2>1, <3>1
      <4>2. out'[k] = out[k] /\ out'[k + 1] = out[k + 1] /\ out'[k + 2] = out[k + 2]
        BY <1>3, <4>1
      <4>. QED
        BY <1>1, <2>1, <3>1, <4>1, <4>2 DEF MaximalRuns
    <3>2. CASE k + 2 > Len(out)
      <4>1. k = Len(out) - 1 /\ Len(out) > 0
        <5>. DEFINE m == Len(marks) - 1
        <5>1. m \in Nat /\ Len(out) = 2 * m /\ Len(out') = 2 * m + 2 /\ k \in Nat
          BY <1>3, <1>4, <2>1
        <5>. HIDE DEF m
        <5>2. k = 2 * m - 1
          BY <2>1, <3>2, <5>1, LastValue
        <5>. QED
          BY <2>1, <5>1, <5>2
      <4>2. out[Len(out) - 1] = current
        BY <1>3, <2>1, <4>1
      <4>. QED
        BY <1>1, <1>3, <4>1, <4>2 DEF Maximal
    <3>. QED
      BY <1>3, <3>1, <3>2
  <2>. QED
    BY <2>1 DEF MaximalRuns
<1>. QED
  BY <1>3, <1>5, <1>6

\* Steps that leave streams alone keep what is said of them.
LEMMA StreamsKept ==
  ASSUME RleInv, UNCHANGED <<stream, data, out, marks>>,
         pc \notin {"compress", "scan"}, pc' \notin {"compress", "scan"}
  PROVE  /\ stream' = "own" => Tiling' /\ Scanning' /\ Maximal' /\ MaximalRuns'
         /\ pc' \in {"compress", "scan"} => stream' = "own"
         /\ pc' = "compress" => out' = <<>>
<1>1. Covered' = Covered
  BY DEF Covered
<1>2. Scanning' /\ Maximal'
  BY DEF Scanning, Maximal
<1>3. stream = "own" => Tiling' /\ MaximalRuns'
  BY <1>1 DEF RleInv, Tiling, MaximalRuns
<1>. QED
  BY <1>2, <1>3

\* Before decompress() began its second loop nothing is said of back.
LEMMA CompressKept ==
  ASSUME RleInv, TypeOK', Compress, stream = "own",
         Tiling', Scanning', Maximal', MaximalRuns'
  PROVE  RleInv'
<1>1. /\ pc \in {"compress", "scan"} /\ pc' \in {"scan", "decompress"}
      /\ stream' = "own" /\ back = <<>> /\ back' = back
  BY DEF Compress, CompressEmpty, CompressBegin, Extend, Flush, FlushLast, RleInv
<1>2. Prefix' /\ Validated' /\ AcceptsOwnStreams' /\ RejectsExactlyMalformed'
  BY <1>1 DEF Prefix, Validated, AcceptsOwnStreams, RejectsExactlyMalformed
<1>. QED
  BY <1>1, <1>2 DEF RleInv

LEMMA CompressStep == ASSUME RleInv, TypeOK', Compress PROVE RleInv'
<1>0. stream = "own" /\ pc \in {"compress", "scan"}
  BY DEF Compress, CompressEmpty, CompressBegin, Extend, Flush, FlushLast, RleInv
<1>1. /\ Tiling /\ Scanning /\ Maximal /\ MaximalRuns
      /\ data \in Seq(Byte) /\ i \in Nat /\ run \in 0 .. MaxByte /\ marks \in Seq(Nat)
  BY <1>0 DEF RleInv, TypeOK
<1>2. CASE CompressEmpty
  <2>1. Tiling'
    BY <1>1, <1>2 DEF CompressEmpty, Tiling, Covered
  <2>2. Scanning' /\ Maximal' /\ MaximalRuns'
    BY <1>0, <1>1, <1>2 DEF CompressEmpty, Scanning, Maximal, MaximalRuns
  <2>. QED
    BY <1>0, <2>1, <2>2, CompressKept
<1>3. CASE CompressBegin
  <2>1. out = <<>> /\ out' = <<>> /\ pc = "compress" /\ pc' = "scan"
    BY <1>3 DEF CompressBegin, RleInv
  <2>2. Tiling'
    <3>1. Covered = 0 /\ Covered' = 0
      BY <1>3 DEF CompressBegin, Covered
    <3>. QED
      BY <1>1, <1>3, <3>1 DEF CompressBegin, Tiling
  <2>3. Scanning'
    <3>1. i' = 1 /\ run' = 1 /\ data' = data /\ current' = data[1] /\ Len(data) \in Nat \ {0}
      BY <1>1, <1>3 DEF CompressBegin
    <3>. QED
      BY <3>1 DEF Scanning
  <2>4. Maximal' /\ MaximalRuns'
    BY <2>1 DEF Maximal, MaximalRuns
  <2>. QED
    BY <1>0, <2>2, <2>3, <2>4, CompressKept
<1>4. CASE Extend
  <2>1. /\ pc = "scan" /\ pc' = "scan" /\ i' = i + 1 /\ run' = run + 1 /\ i < Len(data)
        /\ data[i + 1] = current /\ current' = current /\ data' = data
        /\ out' = out /\ marks' = marks
    BY <1>4 DEF Extend, SameRun
  <2>2. Covered' = Covered
    BY <1>1, <2>1 DEF Covered
  <2>3. Tiling' /\ Maximal' /\ MaximalRuns'
    BY <1>0, <1>1, <1>4, <2>1, <2>2 DEF Extend, Tiling, Maximal, MaximalRuns
  <2>4. Scanning'
    BY <1>1, <2>1 DEF Scanning
  <2>. QED
    BY <1>0, <2>3, <2>4, CompressKept
<1>5. CASE Flush
  <2>1. /\ pc = "scan" /\ pc' = "scan" /\ i' = i + 1 /\ run' = 1 /\ i < Len(data)
        /\ current' = data[i + 1] /\ data' = data /\ stream' = stream /\ Emit
    BY <1>5 DEF Flush
  <2>2. Covered' = i
    BY <1>1, <2>1 DEF Covered
  <2>3. Tiling' /\ MaximalRuns' /\ out'[Len(out') - 1] = current /\ out'[Len(out')] = run
    BY <2>1, <2>2, FlushTiles
  <2>4. Scanning'
    BY <1>1, <2>1 DEF Scanning
  <2>5. Maximal'
    BY <1>1, <1>5, <2>1, <2>3, RleAssumption DEF Flush, SameRun, Maximal
  <2>. QED
    BY <1>0, <2>3, <2>4, <2>5, CompressKept
<1>6. CASE FlushLast
  <2>1. /\ pc = "scan" /\ pc' = "decompress" /\ i = Len(data)
        /\ data' = data /\ stream' = stream /\ Emit
    BY <1>6 DEF FlushLast
  <2>2. Covered' = i
    BY <2>1 DEF Covered
  <2>3. Tiling' /\ MaximalRuns'
    BY <2>1, <2>2, FlushTiles
  <2>4. Scanning' /\ Maximal'
    BY <2>1 DEF Scanning, Maximal
  <2>. QED
    BY <1>0, <2>3, <2>4, CompressKept
<1>. QED
  BY <1>2, <1>3, <1>4, <1>5, <1>6 DEF Compress

\* A stream of compress() is well formed.
LEMMA OwnIsWellFormed ==
  ASSUME out \in Seq(Byte), marks \in Seq(Nat), Tiling
  PROVE  ~Malformed(out)
<1>. DEFINE m == Len(marks) - 1
<1>1. m \in Nat /\ Len(out) = 2 * m /\ Len(out) \in Nat
  BY DEF Tiling
<1>2. \A k \in 1 .. m : out[2 * k] > 0
  BY DEF Tiling
<1>. HIDE DEF m
<1>3. Len(out) % 2 = 0
  BY <1>1
<1>4. ASSUME NEW k \in 1 .. Len(out), k % 2 = 0 PROVE out[k] # 0
  <2>. DEFINE h == k \div 2
  <2>1. k = 2 * h /\ h \in 1 .. m
    BY <1>1, <1>4
  <2>. HIDE DEF h
  <2>. QED
    BY <1>2, <2>1
<1>. QED
  BY <1>3, <1>4 DEF Malformed

LEMMA DecompressStep == ASSUME RleInv, TypeOK', Decompress PROVE RleInv'
<1>1. /\ UNCHANGED <<stream, data, out, marks>>
      /\ pc \in {"decompress", "count", "expand"}
      /\ pc' \in {"count", "expand", "done", "threw"}
  BY DEF Decompress, DecompressEmpty, DecompressOdd, DecompressBegin, CountPair, CountDone,
         ExpandPair, ExpandDone
<1>2. /\ out \in Seq(Byte) /\ marks \in Seq(Nat) /\ data \in Seq(Byte) /\ i \in Nat
      /\ back \in Seq(Byte) /\ Len(out) \in Nat
  BY DEF RleInv, TypeOK
<1>3. stream = "own" => /\ Tiling /\ Covered = Len(data) /\ ~Malformed(out)
                        /\ Len(out) = 2 * (Len(marks) - 1) /\ Len(marks) \in Nat \ {0}
  BY <1>1, <1>2, OwnIsWellFormed DEF RleInv, Covered, Tiling
<1>. SUFFICES /\ stream = "own" => Prefix'
              /\ Validated'
              /\ pc' \notin {"expand", "done"} => back' = <<>>
              /\ AcceptsOwnStreams'
              /\ RejectsExactlyMalformed'
  <2>1. pc \notin {"compress", "scan"} /\ pc' \notin {"compress", "scan"}
    BY <1>1
  <2>2. /\ stream' = "own" => Tiling' /\ Scanning' /\ Maximal' /\ MaximalRuns'
        /\ pc' \in {"compress", "scan"} => stream' = "own"
        /\ pc' = "compress" => out' = <<>>
    BY <1>1, <2>1, StreamsKept
  <2>. QED
    BY <1>1, <2>2 DEF RleInv
<1>4. CASE DecompressEmpty
  <2>1. /\ pc' = "done" /\ out = <<>> /\ out' = <<>> /\ Len(out) = 0
        /\ back' = <<>> /\ Len(back') = 0 /\ data' = data
    BY <1>4 DEF DecompressEmpty, RleInv
  <2>2. stream = "own" => Len(data) = 0
    BY <1>2, <1>3, <2>1 DEF Tiling
  <2>3. stream = "own" => Prefix'
    BY <2>1, <2>2 DEF Prefix
  <2>4. ~Malformed(out')
    BY <2>1 DEF Malformed
  <2>. QED
    BY <2>1, <2>3, <2>4 DEF Validated, AcceptsOwnStreams, RejectsExactlyMalformed
<1>5. CASE DecompressOdd
  <2>1. pc' = "threw" /\ Malformed(out) /\ back' = <<>>
    BY <1>5 DEF DecompressOdd, Malformed, RleInv
  <2>. QED
    BY <1>1, <1>3, <2>1 DEF Prefix, Validated, AcceptsOwnStreams, RejectsExactlyMalformed
<1>6. CASE DecompressBegin
  <2>1. /\ pc' = "count" /\ i' = 1 /\ Len(out) % 2 = 0 /\ Len(out) > 0 /\ back' = <<>>
    BY <1>2, <1>6 DEF DecompressBegin, RleInv
  <2>2. \A k \in 1 .. Len(out) : k % 2 = 0 => ~(k <= 1)
    BY <1>2, EvenFromTwo
  <2>3. Validated'
    BY <1>1, <2>1, <2>2, EvenFromTwo, <1>2 DEF Validated
  <2>. QED
    BY <2>1, <2>3 DEF Prefix, AcceptsOwnStreams, RejectsExactlyMalformed
<1>7. CASE CountPair
  <2>1. /\ pc = "count" /\ i < Len(out) /\ Len(out) % 2 = 0 /\ i % 2 = 1 /\ back' = <<>>
        /\ \A k \in 1 .. Len(out) : k % 2 = 0 /\ k <= i => out[k] # 0
    BY <1>7 DEF CountPair, RleInv, Validated
  <2>2. CASE out[i + 1] = 0 /\ pc' = "threw"
    <3>1. i + 1 \in 1 .. Len(out) /\ (i + 1) % 2 = 0
      BY <1>2, <2>1, NextCount
    <3>2. Malformed(out)
      BY <2>2, <3>1 DEF Malformed
    <3>. QED
      BY <1>1, <1>3, <2>1, <2>2, <3>2
      DEF Prefix, Validated, AcceptsOwnStreams, RejectsExactlyMalformed
  <2>3. CASE out[i + 1] # 0 /\ i' = i + 2 /\ pc' = "count"
    <3>1. i' % 2 = 1 /\ i' <= Len(out) + 1
      BY <1>2, <2>1, <2>3, NextCount
    <3>2. ASSUME NEW k \in 1 .. Len(out), k % 2 = 0, k <= i' PROVE out[k] # 0
      <4>1. k <= i \/ k = i + 1
        <5>1. k \in Nat /\ i % 2 = 1 /\ k <= i + 2
          BY <1>2, <2>1, <2>3, <3>2
        <5>. QED
          BY <1>2, <3>2, <5>1, EvenUpTo, Zenon
      <4>. QED
        BY <2>1, <2>3, <3>2, <4>1
    <3>3. Validated'
      BY <1>1, <2>1, <2>3, <3>1, <3>2 DEF Validated
    <3>. QED
      BY <2>1, <2>3, <3>3 DEF Prefix, AcceptsOwnStreams, RejectsExactlyMalformed
  <2>. QED
    BY <1>7, <2>1, <2>2, <2>3 DEF CountPair
<1>8. CASE CountDone
  <2>1. /\ pc' = "expand" /\ i' = 0 /\ i >= Len(out) /\ Len(out) % 2 = 0
        /\ back' = <<>> /\ Len(back') = 0
        /\ \A k \in 1 .. Len(out) : k % 2 = 0 /\ k <= i => out[k] # 0
    BY <1>8 DEF CountDone, RleInv, Validated
  <2>2. Validated'
    <3>1. ASSUME NEW k \in 1 .. Len(out), k % 2 = 0 PROVE out[k] # 0
      <4>1. k <= i
        <5>1. i >= Len(out)
          BY <2>1
        <5>. QED
          BY <1>2, <5>1
      <4>. QED
        BY <2>1, <3>1, <4>1
    <3>. QED
      BY <1>1, <1>2, <2>1, <3>1, EvenFromTwo DEF Validated
  <2>3. stream = "own" => Prefix'
    <3>1. (i' \div 2) + 1 = 1
      BY <2>1
    <3>2. stream = "own" => marks'[1] = 0
      BY <1>1, <1>3 DEF Tiling
    <3>. QED
      BY <2>1, <3>1, <3>2 DEF Prefix
  <2>. QED
    BY <2>1, <2>2, <2>3 DEF AcceptsOwnStreams, RejectsExactlyMalformed
<1>9. CASE ExpandPair
  <2>1. /\ pc = "expand" /\ i < Len(out) /\ Len(out) % 2 = 0 /\ i % 2 = 0
        /\ \A k \in 1 .. Len(out) : k % 2 = 0 => out[k] # 0
    BY <1>9 DEF ExpandPair, RleInv, Validated
  <2>. DEFINE h == i \div 2
  <2>2. /\ i + 1 \in 1 .. Len(out) /\ i + 2 \in 1 .. Len(out) /\ (i + 2) % 2 = 0
        /\ h \in Nat /\ i = 2 * h /\ (i + 2) \div 2 = h + 1
    BY <1>2, <2>1, NextPair
  <2>3. out[i + 1] \in Byte /\ out[i + 2] \in Byte
    BY <1>2, <2>2, ElementOfSeq
  <2>4. out[i + 2] # 0 /\ out[i + 2] \in Nat
    BY <2>1, <2>2, <2>3 DEF Byte
  <2>5. /\ pc' = "expand" /\ i' = i + 2 /\ back' = Fill(back, out[i + 2], out[i + 1])
    BY <1>9, <2>1, <2>4 DEF ExpandPair
  <2>6. /\ Len(back') = Len(back) + out[i + 2] /\ Len(back) \in Nat
        /\ \A j \in 1 .. Len(back) : back'[j] = back[j]
        /\ \A j \in Len(back) + 1 .. Len(back) + out[i + 2] : back'[j] = out[i + 1]
    <3>. DEFINE n == out[i + 2]
                v == out[i + 1]
    <3>1. Len(back) \in Nat /\ n \in Nat /\ v \in Byte /\ back \in Seq(Byte)
      BY <1>2, <2>3, <2>4
    <3>2. /\ Len(Fill(back, n, v)) = Len(back) + n
          /\ \A j \in 1 .. Len(back) : Fill(back, n, v)[j] = back[j]
          /\ \A j \in Len(back) + 1 .. Len(back) + n : Fill(back, n, v)[j] = v
      <4>. HIDE DEF n, v
      <4>. QED
        BY <3>1, FillAppends
    <3>. QED
      BY <2>5, <3>1, <3>2
  <2>7. Validated'
    BY <1>1, <2>1, <2>2, <2>5 DEF Validated
  <2>8. ASSUME stream = "own" PROVE Prefix'
    <3>1. /\ Len(back) = marks[h + 1]
          /\ \A j \in 1 .. Len(back) : back[j] = data[j]
      BY <2>1, <2>8 DEF RleInv, Prefix
    <3>. HIDE DEF h
    <3>2. h + 1 \in 1 .. Len(marks) - 1 /\ 2 * (h + 1) = i + 2 /\ 2 * (h + 1) - 1 = i + 1
      BY <1>2, <1>3, <2>2, <2>8
    <3>3. /\ marks[h + 2] = marks[h + 1] + out[i + 2]
          /\ \A j \in marks[h + 1] + 1 .. marks[h + 2] : data[j] = out[i + 1]
      <4>1. /\ marks[(h + 1) + 1] = marks[h + 1] + out[2 * (h + 1)]
            /\ \A j \in marks[h + 1] + 1 .. marks[(h + 1) + 1] : data[j] = out[2 * (h + 1) - 1]
        BY <1>3, <2>8, <3>2 DEF Tiling
      <4>2. (h + 1) + 1 = h + 2
        BY <2>2
      <4>. QED
        BY <3>2, <4>1, <4>2
    <3>4. \A j \in 1 .. Len(back') : back'[j] = data[j]
      BY <2>4, <2>6, <3>1, <3>3
    <3>5. (i' \div 2) + 1 = h + 2
      BY <2>2, <2>5
    <3>6. Len(back') = marks'[(i' \div 2) + 1]
      BY <1>1, <2>6, <3>1, <3>3, <3>5
    <3>. QED
      BY <1>1, <2>5, <3>4, <3>6 DEF Prefix
  <2>. QED
    BY <2>5, <2>7, <2>8 DEF AcceptsOwnStreams, RejectsExactlyMalformed
<1>10. CASE ExpandDone
  <2>1. /\ pc = "expand" /\ pc' = "done" /\ back' = back /\ i >= Len(out)
        /\ i <= Len(out) /\ Len(out) % 2 = 0
        /\ \A k \in 1 .. Len(out) : k % 2 = 0 => out[k] # 0
    BY <1>10 DEF ExpandDone, RleInv, Validated
  <2>2. ~Malformed(out)
    BY <2>1 DEF Malformed
  <2>3. ASSUME stream = "own" PROVE Prefix'
    <3>1. i = 2 * (Len(marks) - 1)
      <4>1. i = Len(out)
        <5>1. i >= Len(out) /\ i <= Len(out)
          BY <2>1
        <5>. QED
          BY <1>2, <5>1
      <4>. QED
        BY <1>3, <2>3, <4>1
    <3>2. (i \div 2) + 1 = Len(marks)
      BY <1>3, <2>3, <3>1
    <3>3. /\ Len(back) = marks[Len(marks)]
          /\ \A j \in 1 .. Len(back) : back[j] = data[j]
      BY <2>1, <2>3, <3>2 DEF RleInv, Prefix
    <3>4. marks[Len(marks)] = Len(data)
      BY <1>3, <2>3 DEF Tiling
    <3>. QED
      BY <1>1, <2>1, <3>3, <3>4 DEF Prefix
  <2>. QED
    BY <1>1, <2>1, <2>2, <2>3 DEF Validated, AcceptsOwnStreams, RejectsExactlyMalformed
<1>. QED
  BY <1>4, <1>5, <1>6, <1>7, <1>8, <1>9, <1>10 DEF Decompress

LEMMA RleKept == RleInv /\ [Next]_vars => RleInv'
<1>. SUFFICES ASSUME RleInv, [Next]_vars PROVE RleInv'
  OBVIOUS
<1>1. TypeOK'
  BY TypeKept
<1>2. CASE UNCHANGED vars
  BY <1>2 DEF vars, work, RleInv, TypeOK, Tiling, Covered, Scanning, Prefix, Validated, Maximal,
              MaximalRuns, AcceptsOwnStreams, RejectsExactlyMalformed, Malformed
<1>. QED
  BY <1>1, <1>2, CompressStep, DecompressStep DEF Next

THEOREM RleInvariant == Spec => []RleInv
BY RleInit, RleKept, PTL DEF Spec

-----------------------------------------------------------------------------
(* What follows from it, for every byte width and every input.             *)

\* Every variable of the two loops stays in its set; no index leaves its
\* sequence and no count leaves the byte it is stored in.
THEOREM TypeCorrect == Spec => []TypeOK
<1>1. RleInv => TypeOK
  BY DEF RleInv
<1>. QED
  BY <1>1, RleInvariant, PTL

\* Whatever the bytes, decompress(compress(data)) is data.
THEOREM Lossless == Spec => []RoundTrip
<1>1. ASSUME RleInv, pc = "done", stream = "own" PROVE back = data
  <2>1. Len(back) = Len(data) /\ \A j \in 1 .. Len(back) : back[j] = data[j]
    BY <1>1 DEF RleInv, Prefix
  <2>2. back \in Seq(Byte) /\ data \in Seq(Byte)
    BY <1>1 DEF RleInv, TypeOK
  <2>. QED
    BY <2>1, <2>2, SeqEqual
<1>2. RleInv => RoundTrip
  BY <1>1 DEF RoundTrip
<1>. QED
  BY <1>2, RleInvariant, PTL

\* decompress() never throws on what compress() returned.
THEOREM OwnStreamsAccepted == Spec => []AcceptsOwnStreams
<1>1. RleInv => AcceptsOwnStreams
  BY DEF RleInv
<1>. QED
  BY <1>1, RleInvariant, PTL

\* decompress() throws on the malformed streams and accepts all others.
THEOREM ExactValidation == Spec => []RejectsExactlyMalformed
<1>1. RleInv => RejectsExactlyMalformed
  BY DEF RleInv
<1>. QED
  BY <1>1, RleInvariant, PTL

\* The second loop of decompress() never meets a zero count.
THEOREM RejectsBeforeExpanding == Spec => []NothingExpandedOnReject
<1>1. RleInv => NothingExpandedOnReject
  BY DEF RleInv, NothingExpandedOnReject
<1>. QED
  BY <1>1, RleInvariant, PTL

\* compress() never cuts a run that one pair could have held.
THEOREM NoWastedPair == Spec => []MaximalRuns
<1>1. RleInv => MaximalRuns
  BY DEF RleInv, MaximalRuns
<1>. QED
  BY <1>1, RleInvariant, PTL

-----------------------------------------------------------------------------
(* The loops compute the functions of Codec.                               *)

\* Induction over an interval, for a set instead of a predicate: what a
\* least element of the complement would be.
LEMMA IntervalInduction ==
  ASSUME NEW N \in Nat, NEW S, 0 \in S,
         \A n \in 0 .. N : n < N /\ n \in S => n + 1 \in S
  PROVE  \A n \in 0 .. N : n \in S
<1>. DEFINE R == {ss \in Nat \X Nat : ss[1] < ss[2]}
            T == {n \in 0 .. N : n \notin S}
<1>. SUFFICES ASSUME T # {} PROVE FALSE
  OBVIOUS
<1>1. IsWellFoundedOn(R, Nat)
  BY NatLessThanWellFounded DEF OpToRel
<1>2. \A m, n \in Nat : m < n => <<m, n>> \in R
  OBVIOUS
<1>3. T \subseteq Nat
  OBVIOUS
<1>. HIDE DEF R
<1>4. PICK x \in T : \A y \in T : ~(<<y, x>> \in R)
  BY <1>1, <1>3, WFMin
<1>5. x - 1 \in 0 .. N /\ x - 1 < N /\ x - 1 \in Nat /\ x \in Nat /\ (x - 1) + 1 = x
  BY <1>4
<1>6. <<x - 1, x>> \in R
  BY <1>2, <1>5
<1>7. x - 1 \notin T
  <2>. HIDE DEF T
  <2>. QED
    BY <1>4, <1>6
<1>. QED
  BY <1>4, <1>5, <1>7

Start == [out |-> <<>>, current |-> 0, run |-> 0]

LEMMA ScansUnfold ==
  ASSUME NEW input \in Seq(Byte)
  PROVE  /\ K!Scans(input)[0] = Start
         /\ \A n \in 1 .. Len(input) : K!Scans(input)[n] = K!Scan(K!Scans(input)[n - 1], input[n])
<1>. DEFINE Def(g, n) == IF n = 0 THEN Start ELSE K!Scan(g[n - 1], input[n])
            Ok(n) == \E g : g = [m \in 0 .. n |-> Def(g, m)]
            T == {n \in 0 .. Len(input) : Ok(n)}
<1>1. Ok(0)
  <2>. DEFINE g == [m \in 0 .. 0 |-> Start]
  <2>1. g = [m \in 0 .. 0 |-> Def(g, m)]
    OBVIOUS
  <2>. QED
    BY <2>1
<1>2. ASSUME NEW n \in 0 .. Len(input), n < Len(input), Ok(n) PROVE Ok(n + 1)
  <2>1. PICK g : g = [m \in 0 .. n |-> Def(g, m)]
    BY <1>2
  <2>. DEFINE h == [m \in 0 .. n + 1 |-> IF m = n + 1 THEN K!Scan(g[n], input[n + 1]) ELSE g[m]]
  <2>2. ASSUME NEW m \in 0 .. n + 1 PROVE h[m] = Def(h, m)
    BY <2>1
  <2>3. h = [m \in 0 .. n + 1 |-> Def(h, m)]
    BY <2>2
  <2>. HIDE DEF h, Def
  <2>. QED
    BY <2>3
<1>3. Ok(Len(input))
  <2>. HIDE DEF Ok
  <2>1. 0 \in T /\ \A n \in 0 .. Len(input) : n < Len(input) /\ n \in T => n + 1 \in T
    BY <1>1, <1>2
  <2>2. \A n \in 0 .. Len(input) : n \in T
    <3>1. Len(input) \in Nat
      OBVIOUS
    <3>. HIDE DEF T
    <3>. QED
      BY <2>1, <3>1, IntervalInduction
  <2>. QED
    BY <2>2
<1>4. K!Scans(input) = CHOOSE g : g = [n \in 0 .. Len(input) |-> Def(g, n)]
  BY DEF K!Scans, Start
<1>5. K!Scans(input) = [n \in 0 .. Len(input) |-> Def(K!Scans(input), n)]
  BY <1>3, <1>4
<1>. QED
  BY <1>5

LEMMA ExpansionsUnfold ==
  ASSUME NEW s \in Seq(Byte)
  PROVE  /\ K!Expansions(s)[0] = <<>>
         /\ \A k \in 1 .. Len(s) \div 2 :
              K!Expansions(s)[k] = K!Fill(K!Expansions(s)[k - 1], s[2 * k], s[2 * k - 1])
<1>. DEFINE N == Len(s) \div 2
            Def(g, k) == IF k = 0 THEN <<>> ELSE K!Fill(g[k - 1], s[2 * k], s[2 * k - 1])
            Ok(k) == \E g : g = [m \in 0 .. k |-> Def(g, m)]
            T == {k \in 0 .. N : Ok(k)}
<1>1. N \in Nat
  OBVIOUS
<1>2. K!Expansions(s) = CHOOSE g : g = [k \in 0 .. N |-> Def(g, k)]
  BY DEF K!Expansions
<1>. HIDE DEF N
<1>3. Ok(0)
  <2>. DEFINE g == [m \in 0 .. 0 |-> <<>>]
  <2>1. g = [m \in 0 .. 0 |-> Def(g, m)]
    OBVIOUS
  <2>. QED
    BY <2>1
<1>4. ASSUME NEW k \in 0 .. N, k < N, Ok(k) PROVE Ok(k + 1)
  <2>1. PICK g : g = [m \in 0 .. k |-> Def(g, m)]
    BY <1>4
  <2>. DEFINE h == [m \in 0 .. k + 1 |-> IF m = k + 1 THEN Def(g, k + 1) ELSE g[m]]
  <2>2. ASSUME NEW m \in 0 .. k + 1 PROVE h[m] = Def(h, m)
    <3>1. CASE m = k + 1
      BY <1>1, <3>1
    <3>2. CASE m # k + 1
      <4>1. m \in 0 .. k /\ (m # 0 => m - 1 \in 0 .. k /\ m - 1 # k + 1)
        BY <1>1, <3>2
      <4>2. h[m] = g[m] /\ (m # 0 => h[m - 1] = g[m - 1])
        BY <3>2, <4>1
      <4>3. g[m] = Def(g, m)
        BY <2>1, <4>1
      <4>. HIDE DEF h
      <4>. QED
        BY <4>1, <4>2, <4>3
    <3>. QED
      BY <3>1, <3>2
  <2>3. h = [m \in 0 .. k + 1 |-> Def(h, m)]
    BY <2>2
  <2>. HIDE DEF h, Def
  <2>. QED
    BY <2>3
<1>5. Ok(N)
  <2>. HIDE DEF Ok
  <2>1. 0 \in T /\ \A k \in 0 .. N : k < N /\ k \in T => k + 1 \in T
    BY <1>1, <1>3, <1>4
  <2>2. \A k \in 0 .. N : k \in T
    <3>. HIDE DEF T
    <3>. QED
      BY <1>1, <2>1, IntervalInduction
  <2>. QED
    BY <1>1, <2>2
<1>6. K!Expansions(s) = [k \in 0 .. N |-> Def(K!Expansions(s), k)]
  BY <1>2, <1>5
<1>7. \A k \in 0 .. N : K!Expansions(s)[k] = Def(K!Expansions(s), k)
  <2>. HIDE DEF Def
  <2>. QED
    BY <1>6
<1>8. 0 \in 0 .. N /\ \A k \in 1 .. N : k \in 0 .. N /\ k # 0
  BY <1>1
<1>9. K!Expansions(s)[0] = <<>>
  BY <1>7, <1>8
<1>10. ASSUME NEW k \in 1 .. N
       PROVE  K!Expansions(s)[k] = K!Fill(K!Expansions(s)[k - 1], s[2 * k], s[2 * k - 1])
  BY <1>7, <1>8
<1>. QED
  BY <1>9, <1>10 DEF N


\* The two descriptions of a fault in a stream are one.
LEMMA SameMalformed ==
  ASSUME NEW s \in Seq(Byte)
  PROVE  K!RleMalformed(s) <=> Malformed(s)
<1>1. Len(s) \in Nat
  OBVIOUS
<1>2. \A k \in 1 .. Len(s) \div 2 : 2 * k \in 1 .. Len(s) /\ (2 * k) % 2 = 0
  BY <1>1
<1>3. \A k \in 1 .. Len(s) : k % 2 = 0 => k \div 2 \in 1 .. Len(s) \div 2 /\ k = 2 * (k \div 2)
  BY <1>1
<1>. QED
  BY <1>2, <1>3 DEF K!RleMalformed, Malformed

\* The two push_back() are the pair put behind the output.
LEMMA PairPushed ==
  ASSUME NEW s \in Seq(Byte), NEW v \in Byte, NEW c \in Byte
  PROVE  Append(Append(s, v), c) = s \o <<v, c>>
OBVIOUS

\* What the two calls know between two steps.
Computing == RleInv /\ LoopsComputeCodec

LEMMA ComputingInit == Init => LoopsComputeCodec
BY DEF Init, LoopsComputeCodec

LEMMA ScanComputes ==
  ASSUME RleInv, TypeOK', LoopsComputeCodec, Compress
  PROVE  LoopsComputeCodec'
<1>1. /\ pc \in {"compress", "scan"} /\ pc' \in {"scan", "decompress"} /\ data' = data
      /\ stream = "own" /\ stream' = "own"
  BY DEF Compress, CompressEmpty, CompressBegin, Extend, Flush, FlushLast, RleInv
<1>2. /\ data \in Seq(Byte) /\ out \in Seq(Byte) /\ i \in Nat /\ run \in 0 .. MaxByte
      /\ current \in Byte /\ Len(data) \in Nat
  BY DEF RleInv, TypeOK
<1>3. /\ K!Scans(data)[0] = Start
      /\ \A n \in 1 .. Len(data) : K!Scans(data)[n] = K!Scan(K!Scans(data)[n - 1], data[n])
  BY <1>2, ScansUnfold
<1>4. pc = "scan" => /\ i \in 1 .. Len(data) /\ run \in 1 .. MaxByte
                     /\ K!Scans(data)[i] = [out |-> out, current |-> current, run |-> run]
  BY <1>1, <1>2 DEF RleInv, Scanning, LoopsComputeCodec
<1>5. Count(run) \in Byte /\ Count(run) = run
  BY <1>2, CountIsExact DEF Byte
<1>6. CASE CompressEmpty
  <2>1. pc' = "decompress" /\ out' = <<>> /\ data = <<>> /\ Len(data) = 0
    BY <1>6 DEF CompressEmpty, RleInv
  <2>2. K!RleCompress(data) = <<>>
    BY <1>3, <2>1 DEF K!RleCompress, K!Flushed, Start
  <2>. QED
    BY <1>1, <2>1, <2>2 DEF LoopsComputeCodec
<1>7. CASE CompressBegin
  <2>1. /\ pc' = "scan" /\ out' = <<>> /\ i' = 1 /\ current' = data[1] /\ run' = 1
        /\ 1 \in 1 .. Len(data) /\ 1 - 1 = 0
    BY <1>2, <1>7 DEF CompressBegin, RleInv
  <2>2. K!Scans(data)[1] = K!Scan(Start, data[1])
    BY <1>3, <2>1
  <2>3. K!Scan(Start, data[1]) = [out |-> <<>>, current |-> data[1], run |-> 1]
    BY DEF K!Scan, K!Flushed, Start
  <2>. QED
    BY <1>1, <2>1, <2>2, <2>3 DEF LoopsComputeCodec
<1>8. CASE Extend \/ Flush
  <2>1. /\ pc = "scan" /\ pc' = "scan" /\ i < Len(data) /\ i' = i + 1
        /\ i + 1 \in 1 .. Len(data) /\ (i + 1) - 1 = i
    BY <1>2, <1>8 DEF Extend, Flush
  <2>. DEFINE acc == [out |-> out, current |-> current, run |-> run]
  <2>2. K!Scans(data)[i + 1] = K!Scan(acc, data[i + 1])
    BY <1>3, <1>4, <2>1
  <2>3. run > 0 /\ run \in Nat
    BY <1>4, <2>1
  <2>4. CASE Extend
    <3>1. /\ data[i + 1] = current /\ run < MaxByte
          /\ out' = out /\ current' = current /\ run' = run + 1
      BY <2>4 DEF Extend, SameRun
    <3>2. K!Scan(acc, data[i + 1]) = [out |-> out, current |-> current, run |-> run + 1]
      BY <2>3, <3>1 DEF K!Scan
    <3>. QED
      BY <1>1, <2>1, <2>2, <3>1, <3>2 DEF LoopsComputeCodec
  <2>5. CASE Flush
    <3>1. /\ ~(data[i + 1] = current /\ run < MaxByte)
          /\ out' = Append(Append(out, current), Count(run))
          /\ current' = data[i + 1] /\ run' = 1
      BY <2>5 DEF Flush, SameRun, Emit
    <3>2. K!Flushed(acc) = out'
      BY <1>2, <1>5, <2>3, <3>1, PairPushed DEF K!Flushed, Count
    <3>3. K!Scan(acc, data[i + 1]) = [out |-> out', current |-> data[i + 1], run |-> 1]
      BY <3>1, <3>2 DEF K!Scan
    <3>. QED
      BY <1>1, <2>1, <2>2, <3>1, <3>3 DEF LoopsComputeCodec
  <2>. QED
    BY <1>8, <2>4, <2>5
<1>9. CASE FlushLast
  <2>1. /\ pc = "scan" /\ pc' = "decompress" /\ i = Len(data)
        /\ out' = Append(Append(out, current), Count(run))
    BY <1>9 DEF FlushLast, Emit
  <2>. DEFINE acc == [out |-> out, current |-> current, run |-> run]
  <2>2. K!Flushed(acc) = out'
    BY <1>2, <1>4, <1>5, <2>1, PairPushed DEF K!Flushed, Count
  <2>3. K!RleCompress(data) = out'
    BY <1>4, <2>1, <2>2 DEF K!RleCompress
  <2>. QED
    BY <1>1, <2>1, <2>3 DEF LoopsComputeCodec
<1>. QED
  BY <1>6, <1>7, <1>8, <1>9 DEF Compress

LEMMA ExpandComputes ==
  ASSUME RleInv, RleInv', LoopsComputeCodec, Decompress
  PROVE  LoopsComputeCodec'
<1>1. /\ UNCHANGED <<stream, data, out>>
      /\ pc \in {"decompress", "count", "expand"}
      /\ pc' \in {"count", "expand", "done", "threw"}
  BY DEF Decompress, DecompressEmpty, DecompressOdd, DecompressBegin, CountPair, CountDone,
         ExpandPair, ExpandDone
<1>2. out \in Seq(Byte) /\ i \in Nat /\ Len(out) \in Nat
  BY DEF RleInv, TypeOK
<1>3. stream' = "own" => out' = K!RleCompress(data')
  BY <1>1 DEF LoopsComputeCodec
<1>4. pc' = "threw" => K!RleDecompress(out') = Rejected
  BY <1>1, <1>2, SameMalformed DEF RleInv, RejectsExactlyMalformed, K!RleDecompress
<1>5. pc' = "done" => ~K!RleMalformed(out)
  BY <1>1, <1>2, SameMalformed DEF RleInv, RejectsExactlyMalformed
<1>6. /\ K!Expansions(out)[0] = <<>>
      /\ \A k \in 1 .. Len(out) \div 2 :
           K!Expansions(out)[k] = K!Fill(K!Expansions(out)[k - 1], out[2 * k], out[2 * k - 1])
  BY <1>2, ExpansionsUnfold
<1>. SUFFICES /\ pc' = "expand" => back' = K!Expansions(out)[i' \div 2]
              /\ pc' = "done" => back' = K!Expansions(out)[Len(out) \div 2]
  BY <1>1, <1>3, <1>4, <1>5 DEF LoopsComputeCodec, K!RleDecompress
<1>7. CASE DecompressEmpty
  <2>1. pc' = "done" /\ back' = <<>> /\ Len(out) \div 2 = 0
    BY <1>7 DEF DecompressEmpty, RleInv
  <2>. QED
    BY <1>6, <2>1
<1>8. CASE DecompressOdd \/ DecompressBegin \/ CountPair
  BY <1>8 DEF DecompressOdd, DecompressBegin, CountPair
<1>9. CASE CountDone
  <2>1. pc' = "expand" /\ back' = <<>> /\ i' \div 2 = 0
    BY <1>9 DEF CountDone, RleInv
  <2>. QED
    BY <1>6, <2>1
<1>10. CASE ExpandPair
  <2>1. /\ pc = "expand" /\ i < Len(out) /\ Len(out) % 2 = 0 /\ i % 2 = 0
        /\ \A k \in 1 .. Len(out) : k % 2 = 0 => out[k] # 0
    BY <1>10 DEF ExpandPair, RleInv, Validated
  <2>. DEFINE h == i \div 2
  <2>2. /\ i + 2 \in 1 .. Len(out) /\ (i + 2) % 2 = 0
        /\ h \in Nat /\ i = 2 * h /\ (i + 2) \div 2 = h + 1
    BY <1>2, <2>1, NextPair
  <2>3. /\ pc' = "expand" /\ i' = i + 2 /\ back' = Fill(back, out[i + 2], out[i + 1])
    BY <1>10, <2>1, <2>2 DEF ExpandPair
  <2>4. back = K!Expansions(out)[h]
    BY <2>1 DEF LoopsComputeCodec
  <2>5. i' \div 2 = h + 1
    BY <2>2, <2>3
  <2>. HIDE DEF h
  <2>6. /\ h + 1 \in 1 .. Len(out) \div 2 /\ (h + 1) - 1 = h
        /\ 2 * (h + 1) = i + 2 /\ 2 * (h + 1) - 1 = i + 1
    BY <1>2, <2>2
  <2>7. K!Expansions(out)[h + 1] = K!Fill(K!Expansions(out)[h], out[i + 2], out[i + 1])
    BY <1>6, <2>6
  <2>. QED
    BY <2>3, <2>4, <2>5, <2>7 DEF K!Fill, Fill
<1>11. CASE ExpandDone
  <2>1. pc = "expand" /\ pc' = "done" /\ back' = back /\ i >= Len(out) /\ i <= Len(out)
    BY <1>11 DEF ExpandDone, RleInv, Validated
  <2>2. i = Len(out)
    BY <1>2, <2>1
  <2>. QED
    BY <2>1, <2>2 DEF LoopsComputeCodec
<1>. QED
  BY <1>7, <1>8, <1>9, <1>10, <1>11 DEF Decompress

LEMMA ComputingKept == Computing /\ [Next]_vars => Computing'
<1>. SUFFICES ASSUME RleInv, LoopsComputeCodec, [Next]_vars PROVE Computing'
  BY DEF Computing
<1>1. RleInv' /\ TypeOK'
  BY RleKept, TypeKept
<1>2. CASE UNCHANGED vars
  <2>1. LoopsComputeCodec'
    BY <1>2 DEF vars, work, LoopsComputeCodec
  <2>. QED
    BY <1>1, <2>1 DEF Computing
<1>. QED
  BY <1>1, <1>2, ScanComputes, ExpandComputes DEF Next, Computing

\* Whatever the input and whatever the foreign stream, the loops hold in every
\* pass what the recursive functions of Codec say, and return what they return.
THEOREM LoopsAreTheFunctions == Spec => []LoopsComputeCodec
<1>1. Init => Computing
  BY RleInit, ComputingInit DEF Computing
<1>2. Computing => LoopsComputeCodec
  BY DEF Computing
<1>. QED
  BY <1>1, <1>2, ComputingKept, PTL DEF Spec
=============================================================================
