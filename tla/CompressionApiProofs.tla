------------------------ MODULE CompressionApiProofs ------------------------
(***************************************************************************)
(* The codec, for byte sequences of every length: it is lossless and its   *)
(* streams are shortest; then CompressionApi, which answers with it, and   *)
(* FrontendCodec, which computes the same functions in other loops.        *)
(* Induction over an index is the existence of a least element in the set  *)
(* of indices where the claim fails (IntervalInduction).                   *)
(***************************************************************************)
EXTENDS FrontendCodec, SequenceTheorems, WellFoundedInduction, TLAPS

\* Induction over an interval, for a set instead of a predicate: what a
\* least element of the complement would be.
LEMMA IntervalInduction ==
  ASSUME NEW N \in Nat, NEW S, 0 \in S,
         \A n \in 0 .. N : n < N /\ n \in S => n + 1 \in S
  PROVE  \A n \in 0 .. N : n \in S
<1>. DEFINE R == {ss \in Nat \X Nat : ss[1] < ss[2]}
            T == {n \in 0 .. N : n \notin S}
<1>. SUFFICES ASSUME T # {} PROVE FALSE
  OBVIOUS
<1>1. IsWellFoundedOn(R, Nat)
  BY NatLessThanWellFounded DEF OpToRel
<1>2. \A m, n \in Nat : m < n => <<m, n>> \in R
  OBVIOUS
<1>3. T \subseteq Nat
  OBVIOUS
<1>. HIDE DEF R
<1>4. PICK x \in T : \A y \in T : ~(<<y, x>> \in R)
  BY <1>1, <1>3, WFMin
<1>5. x - 1 \in 0 .. N /\ x - 1 < N /\ x - 1 \in Nat /\ x \in Nat /\ (x - 1) + 1 = x
  BY <1>4
<1>6. <<x - 1, x>> \in R
  BY <1>2, <1>5
<1>7. x - 1 \notin T
  <2>. HIDE DEF T
  <2>. QED
    BY <1>4, <1>6
<1>. QED
  BY <1>4, <1>5, <1>7

Start == [out |-> <<>>, current |-> 0, run |-> 0]

LEMMA ScansUnfold ==
  ASSUME NEW data \in Seq(Byte)
  PROVE  /\ Scans(data)[0] = Start
         /\ \A n \in 1 .. Len(data) : Scans(data)[n] = Scan(Scans(data)[n - 1], data[n])
<1>. DEFINE Def(g, n) == IF n = 0 THEN Start ELSE Scan(g[n - 1], data[n])
            Ok(n) == \E g : g = [m \in 0 .. n |-> Def(g, m)]
            T == {n \in 0 .. Len(data) : Ok(n)}
<1>1. Ok(0)
  <2>. DEFINE g == [m \in 0 .. 0 |-> Start]
  <2>1. g = [m \in 0 .. 0 |-> Def(g, m)]
    OBVIOUS
  <2>. QED
    BY <2>1
<1>2. ASSUME NEW n \in 0 .. Len(data), n < Len(data), Ok(n) PROVE Ok(n + 1)
  <2>1. PICK g : g = [m \in 0 .. n |-> Def(g, m)]
    BY <1>2
  <2>. DEFINE h == [m \in 0 .. n + 1 |-> IF m = n + 1 THEN Scan(g[n], data[n + 1]) ELSE g[m]]
  <2>2. ASSUME NEW m \in 0 .. n + 1 PROVE h[m] = Def(h, m)
    BY <2>1
  <2>3. h = [m \in 0 .. n + 1 |-> Def(h, m)]
    BY <2>2
  <2>. HIDE DEF h, Def
  <2>. QED
    BY <2>3
<1>3. Ok(Len(data))
  <2>. HIDE DEF Ok
  <2>1. 0 \in T /\ \A n \in 0 .. Len(data) : n < Len(data) /\ n \in T => n + 1 \in T
    BY <1>1, <1>2
  <2>2. \A n \in 0 .. Len(data) : n \in T
    <3>1. Len(data) \in Nat
      OBVIOUS
    <3>. HIDE DEF T
    <3>. QED
      BY <2>1, <3>1, IntervalInduction
  <2>. QED
    BY <2>2
<1>4. Scans(data) = CHOOSE g : g = [n \in 0 .. Len(data) |-> Def(g, n)]
  BY DEF Scans, Start
<1>5. Scans(data) = [n \in 0 .. Len(data) |-> Def(Scans(data), n)]
  BY <1>3, <1>4
<1>. QED
  BY <1>5

LEMMA ExpansionsUnfold ==
  ASSUME NEW s \in Seq(Byte)
  PROVE  /\ Expansions(s)[0] = <<>>
         /\ \A k \in 1 .. Len(s) \div 2 :
              Expansions(s)[k] = Fill(Expansions(s)[k - 1], s[2 * k], s[2 * k - 1])
<1>. DEFINE N == Len(s) \div 2
            Def(g, k) == IF k = 0 THEN <<>> ELSE Fill(g[k - 1], s[2 * k], s[2 * k - 1])
            Ok(k) == \E g : g = [m \in 0 .. k |-> Def(g, m)]
            T == {k \in 0 .. N : Ok(k)}
<1>1. N \in Nat
  OBVIOUS
<1>2. Expansions(s) = CHOOSE g : g = [k \in 0 .. N |-> Def(g, k)]
  BY DEF Expansions
<1>. HIDE DEF N
<1>3. Ok(0)
  <2>. DEFINE g == [m \in 0 .. 0 |-> <<>>]
  <2>1. g = [m \in 0 .. 0 |-> Def(g, m)]
    OBVIOUS
  <2>. QED
    BY <2>1
<1>4. ASSUME NEW k \in 0 .. N, k < N, Ok(k) PROVE Ok(k + 1)
  <2>1. PICK g : g = [m \in 0 .. k |-> Def(g, m)]
    BY <1>4
  <2>. DEFINE h == [m \in 0 .. k + 1 |-> IF m = k + 1 THEN Def(g, k + 1) ELSE g[m]]
  <2>2. ASSUME NEW m \in 0 .. k + 1 PROVE h[m] = Def(h, m)
    <3>1. CASE m = k + 1
      BY <1>1, <3>1
    <3>2. CASE m # k + 1
      <4>1. m \in 0 .. k /\ (m # 0 => m - 1 \in 0 .. k /\ m - 1 # k + 1)
        BY <1>1, <3>2
      <4>2. h[m] = g[m] /\ (m # 0 => h[m - 1] = g[m - 1])
        BY <3>2, <4>1
      <4>3. g[m] = Def(g, m)
        BY <2>1, <4>1
      <4>. HIDE DEF h
      <4>. QED
        BY <4>1, <4>2, <4>3
    <3>. QED
      BY <3>1, <3>2
  <2>3. h = [m \in 0 .. k + 1 |-> Def(h, m)]
    BY <2>2
  <2>. HIDE DEF h, Def
  <2>. QED
    BY <2>3
<1>5. Ok(N)
  <2>. HIDE DEF Ok
  <2>1. 0 \in T /\ \A k \in 0 .. N : k < N /\ k \in T => k + 1 \in T
    BY <1>1, <1>3, <1>4
  <2>2. \A k \in 0 .. N : k \in T
    <3>. HIDE DEF T
    <3>. QED
      BY <1>1, <2>1, IntervalInduction
  <2>. QED
    BY <1>1, <2>2
<1>6. Expansions(s) = [k \in 0 .. N |-> Def(Expansions(s), k)]
  BY <1>2, <1>5
<1>7. \A k \in 0 .. N : Expansions(s)[k] = Def(Expansions(s), k)
  <2>. HIDE DEF Def
  <2>. QED
    BY <1>6
<1>8. 0 \in 0 .. N /\ \A k \in 1 .. N : k \in 0 .. N /\ k # 0
  BY <1>1
<1>9. Expansions(s)[0] = <<>>
  BY <1>7, <1>8
<1>10. ASSUME NEW k \in 1 .. N
       PROVE  Expansions(s)[k] = Fill(Expansions(s)[k - 1], s[2 * k], s[2 * k - 1])
  BY <1>7, <1>8
<1>. QED
  BY <1>9, <1>10 DEF N

-----------------------------------------------------------------------------
(* Sequences.                                                              *)

LEMMA FillAppends ==
  ASSUME NEW s \in Seq(Byte), NEW n \in Nat, NEW v \in Byte
  PROVE  /\ Fill(s, n, v) \in Seq(Byte)
         /\ Len(Fill(s, n, v)) = Len(s) + n
         /\ \A j \in 1 .. Len(s) : Fill(s, n, v)[j] = s[j]
         /\ \A j \in Len(s) + 1 .. Len(s) + n : Fill(s, n, v)[j] = v
<1>. DEFINE t == [j \in 1 .. n |-> v]
<1>1. t \in Seq(Byte) /\ Len(t) = n
  OBVIOUS
<1>2. Fill(s, n, v) = s \o t
  BY DEF Fill
<1>3. \A j \in 1 .. n : t[j] = v
  OBVIOUS
<1>. HIDE DEF t
<1>4. /\ s \o t \in Seq(Byte)
      /\ Len(s \o t) = Len(s) + n
      /\ \A j \in 1 .. Len(s) + n : (s \o t)[j] = IF j <= Len(s) THEN s[j] ELSE t[j - Len(s)]
  BY <1>1, ConcatProperties
<1>5. Len(s) \in Nat
  OBVIOUS
<1>. QED
  BY <1>2, <1>3, <1>4, <1>5

LEMMA FillOneMore ==
  ASSUME NEW s \in Seq(Byte), NEW n \in Nat, NEW v \in Byte
  PROVE  Fill(s, n + 1, v) = Append(Fill(s, n, v), v)
<1>. DEFINE t == Fill(s, n, v)
            u == Fill(s, n + 1, v)
<1>1. /\ t \in Seq(Byte) /\ Len(t) = Len(s) + n
      /\ \A j \in 1 .. Len(s) : t[j] = s[j]
      /\ \A j \in Len(s) + 1 .. Len(s) + n : t[j] = v
  BY FillAppends
<1>3. Len(s) \in Nat /\ n + 1 \in Nat
  OBVIOUS
<1>2. /\ u \in Seq(Byte) /\ Len(u) = Len(s) + (n + 1)
      /\ \A j \in 1 .. Len(s) : u[j] = s[j]
      /\ \A j \in Len(s) + 1 .. Len(s) + (n + 1) : u[j] = v
  <2>. DEFINE m == n + 1
  <2>1. m \in Nat
    OBVIOUS
  <2>. HIDE DEF m
  <2>2. /\ Fill(s, m, v) \in Seq(Byte) /\ Len(Fill(s, m, v)) = Len(s) + m
        /\ \A j \in 1 .. Len(s) : Fill(s, m, v)[j] = s[j]
        /\ \A j \in Len(s) + 1 .. Len(s) + m : Fill(s, m, v)[j] = v
    BY <2>1, FillAppends
  <2>. QED
    BY <2>2 DEF m
<1>. HIDE DEF t, u
<1>4. /\ Append(t, v) \in Seq(Byte)
      /\ Len(Append(t, v)) = Len(t) + 1
      /\ \A j \in 1 .. Len(t) : Append(t, v)[j] = t[j]
      /\ Append(t, v)[Len(t) + 1] = v
  BY <1>1, AppendProperties
<1>5. \A j \in 1 .. Len(u) : u[j] = Append(t, v)[j]
  BY <1>1, <1>2, <1>3, <1>4
<1>6. u = Append(t, v)
  BY <1>1, <1>2, <1>4, <1>5, SeqEqual
<1>. QED
  BY <1>6 DEF t, u

LEMMA FillNone ==
  ASSUME NEW s \in Seq(Byte), NEW v \in Byte
  PROVE  Fill(s, 0, v) = s
<1>0. 0 \in Nat /\ Len(s) \in Nat
  OBVIOUS
<1>1. /\ Fill(s, 0, v) \in Seq(Byte) /\ Len(Fill(s, 0, v)) = Len(s) + 0
      /\ \A j \in 1 .. Len(s) : Fill(s, 0, v)[j] = s[j]
  BY <1>0, FillAppends
<1>2. Len(Fill(s, 0, v)) = Len(s)
  BY <1>0, <1>1
<1>. QED
  BY <1>1, <1>2, SeqEqual

LEMMA PairAppended ==
  ASSUME NEW s \in Seq(Byte), NEW v \in Byte, NEW c \in Byte
  PROVE  /\ s \o <<v, c>> \in Seq(Byte)
         /\ Len(s \o <<v, c>>) = Len(s) + 2
         /\ \A k \in 1 .. Len(s) : (s \o <<v, c>>)[k] = s[k]
         /\ (s \o <<v, c>>)[Len(s) + 1] = v
         /\ (s \o <<v, c>>)[Len(s) + 2] = c
OBVIOUS

LEMMA PrefixGrows ==
  ASSUME NEW s \in Seq(Byte), NEW n \in 0 .. Len(s), n < Len(s)
  PROVE  SubSeq(s, 1, n + 1) = Append(SubSeq(s, 1, n), s[n + 1])
<1>1. \A i \in 1 .. n + 1 : s[i] \in Byte
  BY ElementOfSeq
<1>. DEFINE t == SubSeq(s, 1, n)
            u == SubSeq(s, 1, n + 1)
<1>2. /\ t \in Seq(Byte) /\ Len(t) = n /\ \A i \in 1 .. n : t[i] = s[i]
      /\ u \in Seq(Byte) /\ Len(u) = n + 1 /\ \A i \in 1 .. n + 1 : u[i] = s[i]
  BY <1>1, SubSeqProperties
<1>. HIDE DEF t, u
<1>3. /\ Append(t, s[n + 1]) \in Seq(Byte)
      /\ Len(Append(t, s[n + 1])) = n + 1
      /\ \A i \in 1 .. n : Append(t, s[n + 1])[i] = t[i]
      /\ Append(t, s[n + 1])[n + 1] = s[n + 1]
  BY <1>1, <1>2, AppendProperties
<1>4. \A i \in 1 .. n + 1 : u[i] = Append(t, s[n + 1])[i]
  BY <1>2, <1>3
<1>5. u = Append(t, s[n + 1])
  BY <1>2, <1>3, <1>4, SeqEqual
<1>. QED
  BY <1>5 DEF t, u

\* Halves of even numbers.
LEMMA Half ==
  /\ \A m \in Nat : m \div 2 \in Nat /\ (m + 2) \div 2 = (m \div 2) + 1
  /\ \A m \in Nat : m % 2 = 0 => m = 2 * (m \div 2) /\ (m + 2) % 2 = 0
  /\ \A m, k \in Nat : k \in 1 .. m \div 2 =>
       2 * k \in 1 .. m /\ 2 * k - 1 \in 1 .. m /\ k - 1 \in 0 .. m \div 2
OBVIOUS

-----------------------------------------------------------------------------
(* RLECompression: decompress() after compress().                          *)

\* What decompress() makes of a stream that is not malformed.
Expansion(s) == Expansions(s)[Len(s) \div 2]

LEMMA ByteAt ==
  ASSUME NEW s \in Seq(Byte), NEW i \in 1 .. Len(s)
  PROVE  s[i] \in Byte /\ s[i] \in Nat
BY ElementOfSeq, CodecAssumption DEF Byte

LEMMA ExpansionsType ==
  ASSUME NEW s \in Seq(Byte)
  PROVE  \A k \in 0 .. Len(s) \div 2 : Expansions(s)[k] \in Seq(Byte)
<1>. DEFINE N == Len(s) \div 2
            T == {k \in 0 .. N : Expansions(s)[k] \in Seq(Byte)}
<1>1. N \in Nat /\ Len(s) \in Nat
  BY Half
<1>2. 0 \in T
  <2>1. Expansions(s)[0] \in Seq(Byte)
    BY ExpansionsUnfold, EmptySeq
  <2>. HIDE DEF N
  <2>. QED
    BY <1>1, <2>1
<1>3. ASSUME NEW k \in 0 .. N, k < N, k \in T PROVE k + 1 \in T
  <2>1. k + 1 \in 1 .. N /\ (k + 1) - 1 = k /\ k + 1 \in 0 .. N
    BY <1>1, <1>3
  <2>2. 2 * (k + 1) \in 1 .. Len(s) /\ 2 * (k + 1) - 1 \in 1 .. Len(s)
    BY <1>1, <2>1, Half
  <2>3. s[2 * (k + 1)] \in Nat /\ s[2 * (k + 1) - 1] \in Byte
    BY <2>2, ByteAt
  <2>4. Expansions(s)[k + 1] = Fill(Expansions(s)[k], s[2 * (k + 1)], s[2 * (k + 1) - 1])
    BY <2>1, ExpansionsUnfold
  <2>5. Expansions(s)[k] \in Seq(Byte)
    BY <1>3
  <2>6. Expansions(s)[k + 1] \in Seq(Byte)
    <3>1. \A t \in Seq(Byte), n \in Nat, v \in Byte : Fill(t, n, v) \in Seq(Byte)
      BY FillAppends
    <3>. QED
      BY <2>3, <2>4, <2>5, <3>1
  <2>. QED
    BY <2>1, <2>6
<1>4. \A k \in 0 .. N : k \in T
  <2>. HIDE DEF T, N
  <2>. QED
    BY <1>1, <1>2, <1>3, IntervalInduction
<1>. QED
  BY <1>4

LEMMA ExpansionType ==
  ASSUME NEW s \in Seq(Byte)
  PROVE  Expansion(s) \in Seq(Byte)
<1>1. Len(s) \in Nat
  OBVIOUS
<1>2. Len(s) \div 2 \in Nat
  BY <1>1, Half
<1>3. Len(s) \div 2 \in 0 .. Len(s) \div 2
  BY <1>2
<1>. QED
  BY <1>3, ExpansionsType DEF Expansion

\* One pair more.
PairExpanded(s, k) ==
  LET E == Expansions(s)[k]
      F == Expansions(s)[k + 1]
      c == s[2 * (k + 1)]
      v == s[2 * (k + 1) - 1]
  IN  /\ E \in Seq(Byte) /\ F \in Seq(Byte) /\ c \in Nat /\ v \in Byte
      /\ Len(F) = Len(E) + c
      /\ \A i \in 1 .. Len(E) : F[i] = E[i]
      /\ \A i \in Len(E) + 1 .. Len(E) + c : F[i] = v

LEMMA ExpandOne ==
  ASSUME NEW s \in Seq(Byte), NEW k \in 0 .. Len(s) \div 2, k < Len(s) \div 2
  PROVE  PairExpanded(s, k)
<1>. DEFINE N == Len(s) \div 2
            c == s[2 * (k + 1)]
            v == s[2 * (k + 1) - 1]
            E == Expansions(s)[k]
            F == Expansions(s)[k + 1]
<1>1. N \in Nat /\ Len(s) \in Nat
  BY Half
<1>2. k + 1 \in 1 .. N /\ (k + 1) - 1 = k /\ k + 1 \in 0 .. N
  BY <1>1
<1>3. 2 * (k + 1) \in 1 .. Len(s) /\ 2 * (k + 1) - 1 \in 1 .. Len(s)
  BY <1>1, <1>2, Half
<1>4. c \in Nat /\ v \in Byte
  BY <1>3, ByteAt
<1>5. F = Fill(E, c, v)
  BY <1>2, ExpansionsUnfold
<1>6. E \in Seq(Byte)
  BY ExpansionsType
<1>. HIDE DEF E, F, c, v
<1>7. /\ Fill(E, c, v) \in Seq(Byte) /\ Len(Fill(E, c, v)) = Len(E) + c
      /\ \A i \in 1 .. Len(E) : Fill(E, c, v)[i] = E[i]
      /\ \A i \in Len(E) + 1 .. Len(E) + c : Fill(E, c, v)[i] = v
  <2>1. \A t \in Seq(Byte), n \in Nat, w \in Byte :
          /\ Fill(t, n, w) \in Seq(Byte) /\ Len(Fill(t, n, w)) = Len(t) + n
          /\ \A i \in 1 .. Len(t) : Fill(t, n, w)[i] = t[i]
          /\ \A i \in Len(t) + 1 .. Len(t) + n : Fill(t, n, w)[i] = w
    BY FillAppends, Zenon
  <2>. QED
    BY <1>4, <1>6, <2>1
<1>. QED
  BY <1>4, <1>5, <1>6, <1>7 DEF PairExpanded, E, F, c, v

LEMMA ExpansionOfPair ==
  ASSUME NEW s \in Seq(Byte), Len(s) % 2 = 0, NEW v \in Byte, NEW c \in Byte
  PROVE  Expansion(s \o <<v, c>>) = Fill(Expansion(s), c, v)
<1>. DEFINE N == Len(s) \div 2
            u == s \o <<v, c>>
            T == {k \in 0 .. N : Expansions(u)[k] = Expansions(s)[k]}
<1>1. /\ N \in Nat /\ Len(s) \in Nat /\ Len(s) = 2 * N
      /\ u \in Seq(Byte) /\ Len(u) = Len(s) + 2
      /\ Len(u) \div 2 = N + 1
      /\ \A k \in 1 .. Len(s) : u[k] = s[k]
      /\ u[2 * (N + 1) - 1] = v /\ u[2 * (N + 1)] = c
  BY PairAppended, Half
<1>. HIDE DEF u
<1>2. 0 \in T
  BY <1>1, ExpansionsUnfold
<1>3. ASSUME NEW k \in 0 .. N, k < N, k \in T PROVE k + 1 \in T
  <2>1. k + 1 \in 1 .. N /\ (k + 1) - 1 = k /\ k + 1 \in 0 .. N /\ k + 1 \in 1 .. N + 1
    BY <1>1, <1>3
  <2>2. 2 * (k + 1) \in 1 .. Len(s) /\ 2 * (k + 1) - 1 \in 1 .. Len(s)
    <3>1. N \in Nat /\ Len(s) = 2 * N
      BY <1>1
    <3>. HIDE DEF N
    <3>. QED
      BY <2>1, <3>1
  <2>3. Expansions(s)[k + 1] = Fill(Expansions(s)[k], s[2 * (k + 1)], s[2 * (k + 1) - 1])
    BY <2>1, ExpansionsUnfold
  <2>4. Expansions(u)[k + 1] = Fill(Expansions(u)[k], u[2 * (k + 1)], u[2 * (k + 1) - 1])
    BY <1>1, <2>1, ExpansionsUnfold
  <2>5. Expansions(u)[k + 1] = Expansions(s)[k + 1]
    BY <1>1, <1>3, <2>2, <2>3, <2>4
  <2>. QED
    BY <2>1, <2>5
<1>4. \A k \in 0 .. N : k \in T
  <2>. HIDE DEF T, N
  <2>. QED
    BY <1>1, <1>2, <1>3, IntervalInduction
<1>5. Expansions(u)[N] = Expansions(s)[N]
  BY <1>1, <1>4
<1>6. Expansions(u)[N + 1] = Fill(Expansions(u)[N], c, v)
  <2>1. N + 1 \in 1 .. N + 1 /\ (N + 1) - 1 = N
    BY <1>1
  <2>. HIDE DEF N
  <2>. QED
    BY <1>1, <2>1, ExpansionsUnfold
<1>. QED
  BY <1>1, <1>5, <1>6 DEF Expansion, u

LEMMA EmptyExpansion == Expansion(<<>>) = <<>>
<1>1. <<>> \in Seq(Byte) /\ Len(<<>>) \div 2 = 0
  BY EmptySeq
<1>. QED
  BY <1>1, ExpansionsUnfold DEF Expansion

\* A stream whose pairs are whole and count at least one byte each.
Sound(s) ==
  /\ s \in Seq(Byte)
  /\ Len(s) % 2 = 0
  /\ \A k \in 1 .. Len(s) \div 2 : s[2 * k] # 0

LEMMA SoundIsAccepted ==
  ASSUME NEW s \in Seq(Byte)
  PROVE  /\ Sound(s) <=> ~RleMalformed(s)
         /\ Sound(s) => RleDecompress(s) = Expansion(s)
BY DEF Sound, RleMalformed, RleDecompress, Expansion

LEMMA SoundPair ==
  ASSUME NEW s, Sound(s), NEW v \in Byte, NEW c \in Byte, c # 0
  PROVE  Sound(s \o <<v, c>>)
<1>. DEFINE u == s \o <<v, c>>
            N == Len(s) \div 2
<1>0. /\ s \in Seq(Byte) /\ Len(s) \in Nat /\ Len(s) % 2 = 0
      /\ \A k \in 1 .. N : s[2 * k] # 0
  BY DEF Sound
<1>3. /\ u \in Seq(Byte) /\ Len(u) = Len(s) + 2
      /\ \A k \in 1 .. Len(s) : u[k] = s[k]
      /\ u[Len(s) + 2] = c
  BY <1>0, PairAppended
<1>4. N \in Nat /\ Len(s) = 2 * N /\ (Len(s) + 2) % 2 = 0 /\ (Len(s) + 2) \div 2 = N + 1
  BY <1>0, Half
<1>. HIDE DEF u, N
<1>1. /\ Len(u) % 2 = 0 /\ Len(u) \div 2 = N + 1
      /\ u[2 * (N + 1)] = c
  BY <1>3, <1>4
<1>2. ASSUME NEW k \in 1 .. N + 1 PROVE u[2 * k] # 0
  <2>1. CASE k = N + 1
    BY <1>1, <2>1
  <2>2. CASE k # N + 1
    <3>1. k \in 1 .. N /\ 2 * k \in 1 .. Len(s)
      BY <1>4, <2>2
    <3>. QED
      BY <1>0, <1>3, <3>1
  <2>. QED
    BY <2>1, <2>2
<1>. QED
  BY <1>1, <1>2, <1>3 DEF Sound, u

\* What the loop of compress() holds behind n bytes of data.
Acc == [out : Seq(Byte), current : Byte, run : 0 .. MaxByte]

ScanInv(data, n, acc) ==
  /\ acc \in Acc
  /\ Sound(acc.out)
  /\ n = 0 => acc = Start
  /\ n > 0 => acc.run > 0
  /\ Expansion(Flushed(acc)) = SubSeq(data, 1, n)

\* The flush of a run that there is.
LEMMA FlushedRun ==
  ASSUME NEW acc \in Acc, acc.run > 0
  PROVE  Flushed(acc) = acc.out \o <<acc.current, acc.run>> /\ acc.run \in Byte \ {0}
<1>1. acc.run \in 1 .. MaxByte /\ MaxByte \in Nat
  BY CodecAssumption DEF Acc
<1>2. acc.run % (MaxByte + 1) = acc.run
  BY <1>1
<1>3. acc.run # 0 /\ acc.run \in Byte \ {0}
  BY <1>1 DEF Byte
<1>. QED
  BY <1>2, <1>3 DEF Flushed

LEMMA FlushedLen ==
  ASSUME NEW acc \in Acc, acc.run > 0
  PROVE  Flushed(acc) \in Seq(Byte) /\ Len(Flushed(acc)) = Len(acc.out) + 2
<1>1. acc.out \in Seq(Byte) /\ acc.current \in Byte
  BY DEF Acc
<1>2. Flushed(acc) = acc.out \o <<acc.current, acc.run>> /\ acc.run \in Byte
  BY FlushedRun
<1>. QED
  BY <1>1, <1>2, PairAppended

LEMMA FlushedSound ==
  ASSUME NEW acc \in Acc, Sound(acc.out)
  PROVE  Sound(Flushed(acc))
<1>1. CASE acc.run = 0
  BY <1>1 DEF Flushed
<1>2. CASE acc.run # 0
  <2>1. acc.run > 0 /\ acc.current \in Byte
    BY <1>2, CodecAssumption DEF Acc
  <2>. QED
    BY <2>1, FlushedRun, SoundPair
<1>. QED
  BY <1>1, <1>2

LEMMA ScanKeeps ==
  ASSUME NEW data \in Seq(Byte), NEW n \in 0 .. Len(data), n < Len(data),
         NEW acc, ScanInv(data, n, acc)
  PROVE  ScanInv(data, n + 1, Scan(acc, data[n + 1]))
<1>. DEFINE b == data[n + 1]
            new == Scan(acc, b)
<1>1. b \in Byte /\ n \in Nat /\ MaxByte \in Nat \ {0}
  BY ElementOfSeq, CodecAssumption
<1>2. /\ acc \in Acc /\ acc.out \in Seq(Byte) /\ acc.current \in Byte /\ acc.run \in 0 .. MaxByte
      /\ Sound(acc.out) /\ Len(acc.out) % 2 = 0
      /\ Expansion(Flushed(acc)) = SubSeq(data, 1, n)
  BY DEF ScanInv, Acc, Sound
<1>3. SubSeq(data, 1, n + 1) = Append(SubSeq(data, 1, n), b)
  BY PrefixGrows
<1>. HIDE DEF b
<1>4. CASE acc.run > 0 /\ b = acc.current /\ acc.run < MaxByte
  <2>1. new = [out |-> acc.out, current |-> acc.current, run |-> acc.run + 1]
    BY <1>2, <1>4 DEF Scan, Acc
  <2>2. new \in Acc /\ new.run > 0
    BY <1>1, <1>2, <1>4, <2>1 DEF Acc
  <2>. DEFINE r == acc.run
              x == Expansion(acc.out)
  <2>3. Expansion(Flushed(acc)) = Fill(x, r, b)
    BY <1>2, <1>4, FlushedRun, ExpansionOfPair
  <2>7. new.out = acc.out /\ new.current = b /\ new.run = r + 1
    BY <1>4, <2>1
  <2>. HIDE DEF new, x
  <2>4. Expansion(Flushed(new)) = Fill(x, r + 1, b)
    <3>1. Flushed(new) = acc.out \o <<b, r + 1>> /\ r + 1 \in Byte
      BY <2>2, <2>7, FlushedRun
    <3>. QED
      BY <1>1, <1>2, <3>1, ExpansionOfPair DEF x
  <2>5. x \in Seq(Byte) /\ r \in Nat
    BY <1>1, <1>2, ExpansionType DEF x
  <2>6. Fill(x, r + 1, b) = Append(Fill(x, r, b), b)
    BY <1>1, <2>5, FillOneMore
  <2>8. Expansion(Flushed(new)) = SubSeq(data, 1, n + 1)
    BY <1>2, <1>3, <2>3, <2>4, <2>6
  <2>. QED
    BY <1>1, <1>2, <2>2, <2>7, <2>8 DEF ScanInv, b, new
<1>5. CASE ~(acc.run > 0 /\ b = acc.current /\ acc.run < MaxByte)
  <2>. DEFINE f == Flushed(acc)
              x == Expansion(f)
  <2>1. new = [out |-> f, current |-> b, run |-> 1]
    BY <1>5 DEF Scan
  <2>2. Sound(f) /\ f \in Seq(Byte) /\ Len(f) % 2 = 0
    BY <1>2, FlushedSound DEF Sound
  <2>. HIDE DEF f
  <2>3. new \in Acc /\ new.run > 0 /\ new.out = f /\ new.current = b /\ new.run = 1
    BY <1>1, <2>1, <2>2 DEF Acc
  <2>. HIDE DEF new
  <2>4. Expansion(Flushed(new)) = Fill(x, 1, b)
    <3>1. Flushed(new) = f \o <<b, 1>> /\ 1 \in Byte
      BY <2>3, FlushedRun
    <3>. QED
      BY <1>1, <2>2, <3>1, ExpansionOfPair
  <2>5. x \in Seq(Byte)
    BY <2>2, ExpansionType
  <2>6. Fill(x, 0 + 1, b) = Append(Fill(x, 0, b), b) /\ Fill(x, 0, b) = x
    BY <1>1, <2>5, FillOneMore, FillNone
  <2>. QED
    <3>1. Fill(x, 1, b) = Append(x, b)
      BY <2>6
    <3>2. x = SubSeq(data, 1, n)
      BY <1>2 DEF f
    <3>3. Expansion(Flushed(new)) = SubSeq(data, 1, n + 1)
      BY <1>3, <2>4, <3>1, <3>2
    <3>. QED
      BY <1>1, <2>2, <2>3, <3>3 DEF ScanInv, b, new
<1>. QED
  BY <1>4, <1>5

LEMMA ScansInv ==
  ASSUME NEW data \in Seq(Byte)
  PROVE  \A n \in 0 .. Len(data) : ScanInv(data, n, Scans(data)[n])
<1>. DEFINE T == {n \in 0 .. Len(data) : ScanInv(data, n, Scans(data)[n])}
<1>1. 0 \in T
  <2>1. Start \in Acc /\ Start.out = <<>> /\ Start.run = 0
    BY EmptySeq, CodecAssumption DEF Start, Acc, Byte
  <2>2. Flushed(Start) = <<>> /\ Sound(<<>>)
    BY <2>1, EmptySeq DEF Flushed, Sound
  <2>3. SubSeq(data, 1, 0) = <<>>
    BY SubSeqEmpty
  <2>4. ScanInv(data, 0, Start)
    BY <2>1, <2>2, <2>3, EmptyExpansion DEF ScanInv
  <2>5. Len(data) \in Nat
    OBVIOUS
  <2>. QED
    BY <2>4, <2>5, ScansUnfold
<1>2. ASSUME NEW n \in 0 .. Len(data), n < Len(data), n \in T PROVE n + 1 \in T
  <2>1. n + 1 \in 1 .. Len(data) /\ n + 1 \in 0 .. Len(data) /\ (n + 1) - 1 = n
    BY <1>2
  <2>2. Scans(data)[n + 1] = Scan(Scans(data)[n], data[n + 1])
    BY <2>1, ScansUnfold
  <2>3. ScanInv(data, n + 1, Scans(data)[n + 1])
    BY <1>2, <2>2, ScanKeeps
  <2>. QED
    BY <2>1, <2>3
<1>3. Len(data) \in Nat
  OBVIOUS
<1>4. \A n \in 0 .. Len(data) : n \in T
  <2>. HIDE DEF T
  <2>. QED
    BY <1>1, <1>2, <1>3, IntervalInduction
<1>. QED
  BY <1>4

\* decompress() takes what compress() makes of any file, and gives the file
\* back (RLECompression.cpp).
THEOREM RleLossless ==
  \A data \in Seq(Byte) :
    /\ RleCompress(data) \in Seq(Byte)
    /\ ~RleMalformed(RleCompress(data))
    /\ RleDecompress(RleCompress(data)) = data
<1>. SUFFICES ASSUME NEW data \in Seq(Byte)
     PROVE  /\ RleCompress(data) \in Seq(Byte)
            /\ ~RleMalformed(RleCompress(data))
            /\ RleDecompress(RleCompress(data)) = data
  OBVIOUS
<1>. DEFINE N == Len(data)
            acc == Scans(data)[N]
<1>1. N \in 0 .. N
  OBVIOUS
<1>2. ScanInv(data, N, acc)
  BY <1>1, ScansInv
<1>. HIDE DEF acc
<1>3. acc \in Acc /\ Sound(acc.out) /\ Expansion(Flushed(acc)) = data
  BY <1>2, SubSeqFull DEF ScanInv
<1>4. Sound(Flushed(acc))
  BY <1>3, FlushedSound
<1>5. RleCompress(data) = Flushed(acc)
  BY DEF RleCompress, acc
<1>6. Flushed(acc) \in Seq(Byte)
  BY <1>4 DEF Sound
<1>. QED
  BY <1>3, <1>4, <1>5, <1>6, SoundIsAccepted

-----------------------------------------------------------------------------
(* RLECompression: no stream for a file is shorter than compress()'s.      *)

\* A byte either lengthens the run, or costs a pair and begins a run.
LEMMA ScanCost ==
  ASSUME NEW acc \in Acc, NEW b \in Byte
  PROVE  LET new == Scan(acc, b)
         IN  \/ /\ acc.run > 0 /\ b = acc.current /\ acc.run < MaxByte
                /\ new.current = b /\ new.run = acc.run + 1
                /\ Len(Flushed(new)) = Len(Flushed(acc))
             \/ /\ ~(acc.run > 0 /\ b = acc.current /\ acc.run < MaxByte)
                /\ new.current = b /\ new.run = 1
                /\ Len(Flushed(new)) = Len(Flushed(acc)) + 2
<1>. DEFINE new == Scan(acc, b)
<1>1. acc.out \in Seq(Byte) /\ acc.current \in Byte /\ acc.run \in 0 .. MaxByte /\ MaxByte \in Nat \ {0}
  BY CodecAssumption DEF Acc
<1>2. CASE acc.run > 0 /\ b = acc.current /\ acc.run < MaxByte
  <2>1. new = [out |-> acc.out, current |-> acc.current, run |-> acc.run + 1]
    BY <1>1, <1>2 DEF Scan, Acc
  <2>2. new \in Acc /\ new.run > 0 /\ new.out = acc.out /\ new.current = b /\ new.run = acc.run + 1
    BY <1>1, <1>2, <2>1 DEF Acc
  <2>. HIDE DEF new
  <2>3. Len(Flushed(new)) = Len(acc.out) + 2
    BY <2>2, FlushedLen
  <2>4. Len(Flushed(acc)) = Len(acc.out) + 2
    BY <1>2, FlushedLen
  <2>. QED
    BY <1>2, <2>2, <2>3, <2>4 DEF new
<1>3. CASE ~(acc.run > 0 /\ b = acc.current /\ acc.run < MaxByte)
  <2>. DEFINE f == Flushed(acc)
  <2>1. new = [out |-> f, current |-> b, run |-> 1]
    BY <1>3 DEF Scan
  <2>2. f \in Seq(Byte)
    <3>1. CASE acc.run = 0
      BY <1>1, <3>1 DEF Flushed
    <3>2. CASE acc.run # 0
      <4>1. acc.run > 0
        BY <1>1, <3>2
      <4>. QED
        BY <4>1, FlushedLen
    <3>. QED
      BY <3>1, <3>2
  <2>. HIDE DEF f
  <2>3. new \in Acc /\ new.run > 0 /\ new.out = f /\ new.current = b /\ new.run = 1
    BY <1>1, <2>1, <2>2 DEF Acc
  <2>. HIDE DEF new
  <2>4. Len(Flushed(new)) = Len(f) + 2
    BY <2>3, FlushedLen
  <2>. QED
    BY <1>3, <2>3, <2>4 DEF new, f
<1>. QED
  BY <1>2, <1>3

\* What compress() would return if the data ended after n bytes.
Cost(data, n) == Len(Flushed(Scans(data)[n]))

LEMMA CostType ==
  ASSUME NEW data \in Seq(Byte), NEW n \in 0 .. Len(data)
  PROVE  Cost(data, n) \in Nat
<1>1. Scans(data)[n] \in Acc /\ Sound(Scans(data)[n].out)
  BY ScansInv DEF ScanInv
<1>2. Flushed(Scans(data)[n]) \in Seq(Byte)
  BY <1>1, FlushedSound DEF Sound
<1>. QED
  BY <1>2 DEF Cost

\* A run-length stream is at most twice as long as the file, and empty for
\* an empty file only: what SessionAssumption asks of the compress handler of
\* ServerMain.cpp.
THEOREM RleAtMostDoubles ==
  \A data \in Seq(Byte) :
    /\ Len(RleCompress(data)) <= 2 * Len(data)
    /\ RleCompress(data) = <<>> => data = <<>>
<1>. SUFFICES ASSUME NEW data \in Seq(Byte)
     PROVE  /\ Len(RleCompress(data)) <= 2 * Len(data)
            /\ RleCompress(data) = <<>> => data = <<>>
  OBVIOUS
<1>. DEFINE N == Len(data)
            T == {n \in 0 .. N : Cost(data, n) <= 2 * n}
<1>1. N \in Nat /\ N \in 0 .. N
  OBVIOUS
<1>2. 0 \in T
  <2>1. Start \in Acc /\ Start.out = <<>> /\ Start.run = 0
    BY EmptySeq, CodecAssumption DEF Start, Acc, Byte
  <2>2. Scans(data)[0] = Start
    BY ScansUnfold
  <2>3. Cost(data, 0) = 0
    BY <2>1, <2>2, EmptySeq DEF Cost, Flushed
  <2>. QED
    BY <1>1, <2>3
<1>3. ASSUME NEW n \in 0 .. N, n < N, n \in T PROVE n + 1 \in T
  <2>1. n + 1 \in 1 .. N /\ n + 1 \in 0 .. N /\ (n + 1) - 1 = n /\ n \in Nat
    BY <1>1, <1>3
  <2>2. Scans(data)[n + 1] = Scan(Scans(data)[n], data[n + 1])
    BY <2>1, ScansUnfold
  <2>3. Scans(data)[n] \in Acc /\ data[n + 1] \in Byte
    BY <2>1, ScansInv, ElementOfSeq DEF ScanInv
  <2>4. Cost(data, n + 1) \in {Cost(data, n), Cost(data, n) + 2}
    BY <2>2, <2>3, ScanCost DEF Cost
  <2>5. Cost(data, n) \in Nat /\ Cost(data, n) <= 2 * n
    BY <1>3, CostType
  <2>6. Cost(data, n + 1) <= 2 * (n + 1)
    BY <2>1, <2>4, <2>5
  <2>. QED
    BY <2>1, <2>6
<1>4. \A n \in 0 .. N : n \in T
  <2>. HIDE DEF T
  <2>. QED
    BY <1>1, <1>2, <1>3, IntervalInduction
<1>5. RleCompress(data) = Flushed(Scans(data)[N])
  BY DEF RleCompress
<1>6. Len(RleCompress(data)) <= 2 * N
  BY <1>1, <1>4, <1>5 DEF Cost
<1>7. ASSUME RleCompress(data) = <<>> PROVE data = <<>>
  BY <1>7, RleLossless, EmptyExpansion, EmptySeq DEF RleDecompress, Expansion
<1>. QED
  BY <1>6, <1>7

\* As many equal bytes as one pair can count cost one pair at most.
LEMMA OnePairPerBlock ==
  ASSUME NEW data \in Seq(Byte), NEW p \in Nat, NEW c \in 1 .. MaxByte, NEW v \in Byte,
         p + c <= Len(data), \A j \in 1 .. c : data[p + j] = v
  PROVE  Cost(data, p + c) <= Cost(data, p) + 2
<1>. DEFINE A(j) == Scans(data)[p + j]
            Same(j) == Cost(data, p + j) = Cost(data, p)
            More(j) == /\ Cost(data, p + j) = Cost(data, p) + 2
                       /\ A(j).current = v /\ A(j).run \in 1 .. j
            T == {j \in 0 .. c : Same(j) \/ More(j)}
<1>1. c \in Nat /\ MaxByte \in Nat /\ c <= MaxByte /\ Len(data) \in Nat
  BY CodecAssumption
<1>2. 0 \in T
  BY <1>1
<1>3. ASSUME NEW j \in 0 .. c, j < c, j \in T PROVE j + 1 \in T
  <2>1. /\ p + j \in 0 .. Len(data) /\ p + (j + 1) \in 1 .. Len(data)
        /\ (p + (j + 1)) - 1 = p + j /\ j + 1 \in 0 .. c /\ j + 1 \in 1 .. c /\ j \in Nat
    BY <1>1, <1>3
  <2>2. A(j + 1) = Scan(A(j), v)
    BY <2>1, ScansUnfold
  <2>3. A(j) \in Acc
    BY <2>1, ScansInv DEF ScanInv
  <2>4. \/ /\ A(j).run > 0 /\ v = A(j).current /\ A(j).run < MaxByte
           /\ A(j + 1).current = v /\ A(j + 1).run = A(j).run + 1
           /\ Len(Flushed(A(j + 1))) = Len(Flushed(A(j)))
        \/ /\ ~(A(j).run > 0 /\ v = A(j).current /\ A(j).run < MaxByte)
           /\ A(j + 1).current = v /\ A(j + 1).run = 1
           /\ Len(Flushed(A(j + 1))) = Len(Flushed(A(j))) + 2
    BY <2>2, <2>3, ScanCost
  <2>5. Cost(data, p + j) = Len(Flushed(A(j))) /\ Cost(data, p + (j + 1)) = Len(Flushed(A(j + 1)))
    BY DEF Cost
  <2>6. Same(j) \/ More(j)
    BY <1>3
  <2>7. A(j).run \in Nat
    BY <1>1, <2>3 DEF Acc
  <2>. HIDE DEF A
  <2>8. ASSUME Same(j) PROVE Same(j + 1) \/ More(j + 1)
    BY <2>1, <2>4, <2>5, <2>8
  <2>9. ASSUME More(j) PROVE Same(j + 1) \/ More(j + 1)
    <3>2. j < MaxByte
      BY <1>1, <1>3, <2>1
    <3>3. v = A(j).current /\ A(j).run \in 1 .. j
      BY <2>9
    <3>1. A(j).run > 0 /\ v = A(j).current /\ A(j).run < MaxByte
      BY <1>1, <2>1, <3>2, <3>3
    <3>. QED
      BY <2>1, <2>4, <2>5, <2>9, <3>1
  <2>10. Same(j + 1) \/ More(j + 1)
    BY <2>6, <2>8, <2>9
  <2>. QED
    BY <2>1, <2>10
<1>4. \A j \in 0 .. c : j \in T
  <2>. HIDE DEF T
  <2>. QED
    BY <1>1, <1>2, <1>3, IntervalInduction
<1>5. c \in 0 .. c
  BY <1>1
<1>6. Same(c) \/ More(c)
  BY <1>4, <1>5
<1>7. Cost(data, p) \in Nat
  BY <1>1, CostType
<1>. HIDE DEF A
<1>. QED
  BY <1>6, <1>7

IsPrefixOf(s, t) == Len(s) <= Len(t) /\ \A j \in 1 .. Len(s) : t[j] = s[j]

\* What has been expanded stays as it is.
LEMMA ExpansionsGrow ==
  ASSUME NEW s \in Seq(Byte)
  PROVE  \A k \in 0 .. Len(s) \div 2 : IsPrefixOf(Expansions(s)[k], Expansion(s))
<1>. DEFINE N == Len(s) \div 2
            E(k) == Expansions(s)[k]
            Ok(m) == \A k \in 0 .. m : IsPrefixOf(E(k), E(m))
            T == {m \in 0 .. N : Ok(m)}
<1>1. N \in Nat /\ Len(s) \in Nat
  BY Half
<1>2. \A k \in 0 .. N : E(k) \in Seq(Byte) /\ Len(E(k)) \in Nat
  BY ExpansionsType
<1>3. 0 \in T
  BY <1>1, <1>2 DEF IsPrefixOf
<1>4. ASSUME NEW m \in 0 .. N, m < N, m \in T PROVE m + 1 \in T
  <2>1. m + 1 \in 1 .. N /\ (m + 1) - 1 = m /\ m + 1 \in 0 .. N
    BY <1>1, <1>4
  <2>5. IsPrefixOf(E(m), E(m + 1))
    <3>1. PairExpanded(s, m)
      BY <1>4, ExpandOne
    <3>2. Len(E(m)) \in Nat
      BY <1>2
    <3>. QED
      BY <3>1, <3>2 DEF PairExpanded, IsPrefixOf
  <2>. HIDE DEF E
  <2>6. ASSUME NEW k \in 0 .. m + 1 PROVE IsPrefixOf(E(k), E(m + 1))
    <3>1. CASE k = m + 1
      BY <1>2, <2>1, <3>1 DEF IsPrefixOf
    <3>2. CASE k # m + 1
      <4>1. k \in 0 .. m /\ k \in 0 .. N
        BY <1>1, <1>4, <3>2
      <4>2. IsPrefixOf(E(k), E(m))
        BY <1>4, <4>1
      <4>. QED
        BY <1>2, <2>1, <2>5, <4>1, <4>2 DEF IsPrefixOf
    <3>. QED
      BY <3>1, <3>2
  <2>. QED
    BY <2>1, <2>6
<1>5. \A m \in 0 .. N : m \in T
  <2>. HIDE DEF T, N
  <2>. QED
    BY <1>1, <1>3, <1>4, IntervalInduction
<1>6. N \in T
  BY <1>1, <1>5
<1>. QED
  BY <1>6 DEF Expansion

\* Among all the streams that decompress() turns into a file, the one that
\* compress() makes of it is a shortest (RLECompression.cpp).
THEOREM RleShortest ==
  \A s \in Seq(Byte) :
    ~RleMalformed(s) => Len(RleCompress(RleDecompress(s))) <= Len(s)
<1>. SUFFICES ASSUME NEW s \in Seq(Byte), Sound(s)
     PROVE  Len(RleCompress(Expansion(s))) <= Len(s)
  BY SoundIsAccepted
<1>. DEFINE N == Len(s) \div 2
            data == Expansion(s)
            P(k) == Len(Expansions(s)[k])
            T == {k \in 0 .. N : Cost(data, P(k)) <= 2 * k}
<1>1. N \in Nat /\ Len(s) \in Nat /\ Len(s) = 2 * N
  BY Half DEF Sound
<1>2. data \in Seq(Byte) /\ Len(data) \in Nat
  BY ExpansionType
<1>3. P(N) = Len(data)
  BY DEF Expansion
<1>9. \A k \in 0 .. N : Expansions(s)[k] \in Seq(Byte) /\ P(k) \in Nat
  BY ExpansionsType
<1>10. \A k \in 0 .. N : IsPrefixOf(Expansions(s)[k], data)
  BY ExpansionsGrow
<1>. HIDE DEF data
<1>4. 0 \in T
  <2>1. P(0) = 0
    BY ExpansionsUnfold
  <2>2. Flushed(Start) = <<>>
    BY DEF Flushed, Start
  <2>3. Cost(data, 0) = 0
    BY <1>2, <2>2, ScansUnfold DEF Cost
  <2>. QED
    BY <1>1, <2>1, <2>3
<1>5. ASSUME NEW k \in 0 .. N, k < N, k \in T PROVE k + 1 \in T
  <2>1. k + 1 \in 1 .. N /\ (k + 1) - 1 = k /\ k + 1 \in 0 .. N /\ k \in Nat
    BY <1>1, <1>5
  <2>2. 2 * (k + 1) \in 1 .. Len(s) /\ 2 * (k + 1) - 1 \in 1 .. Len(s)
    BY <1>1, <2>1, Half
  <2>. DEFINE c == s[2 * (k + 1)]
              v == s[2 * (k + 1) - 1]
              E == Expansions(s)[k]
              F == Expansions(s)[k + 1]
  <2>3. c \in 1 .. MaxByte /\ c \in Nat /\ v \in Byte
    <3>1. c \in Byte /\ v \in Byte
      BY <2>2, ElementOfSeq
    <3>2. c # 0
      BY <2>1 DEF Sound
    <3>. QED
      BY <3>1, <3>2, CodecAssumption DEF Byte
  <2>4. PairExpanded(s, k)
    BY <1>5, ExpandOne
  <2>5. /\ Len(E) = P(k) /\ P(k) \in Nat /\ Len(F) = P(k + 1)
        /\ IsPrefixOf(F, data)
    BY <1>9, <1>10, <2>1
  <2>6. /\ Len(F) = P(k) + c
        /\ \A j \in P(k) + 1 .. P(k) + c : F[j] = v
    BY <2>4, <2>5 DEF PairExpanded
  <2>. HIDE DEF c, v, E, F, P
  <2>7. P(k + 1) = P(k) + c /\ P(k) + c <= Len(data)
    BY <2>5, <2>6 DEF IsPrefixOf
  <2>8. ASSUME NEW j \in 1 .. c PROVE data[P(k) + j] = v
    <3>1. P(k) + j \in P(k) + 1 .. P(k) + c /\ P(k) + j \in 1 .. P(k) + c
      BY <2>3, <2>5
    <3>. QED
      BY <2>5, <2>6, <3>1 DEF IsPrefixOf
  <2>9. Cost(data, P(k) + c) <= Cost(data, P(k)) + 2
    BY <1>2, <2>3, <2>5, <2>7, <2>8, OnePairPerBlock
  <2>10. Cost(data, P(k)) <= 2 * k
    BY <1>5
  <2>11. Cost(data, P(k + 1)) \in Int /\ Cost(data, P(k)) \in Int
    BY <1>2, <2>3, <2>5, <2>7, CostType
  <2>. QED
    BY <2>1, <2>7, <2>9, <2>10, <2>11
<1>6. \A k \in 0 .. N : k \in T
  <2>. HIDE DEF T, N
  <2>. QED
    BY <1>1, <1>4, <1>5, IntervalInduction
<1>7. Cost(data, P(N)) <= 2 * N
  BY <1>1, <1>6
<1>8. Len(RleCompress(data)) = Cost(data, Len(data))
  BY DEF RleCompress, Cost
<1>. QED
  BY <1>1, <1>3, <1>7, <1>8 DEF data

-----------------------------------------------------------------------------
(* AdaptiveCompression.                                                    *)

Tagged(tag, t) ==
  /\ <<tag>> \o t \in Seq(Byte)
  /\ <<tag>> \o t # <<>>
  /\ Len(<<tag>> \o t) = Len(t) + 1
  /\ Head(<<tag>> \o t) = tag
  /\ Tail(<<tag>> \o t) = t

LEMMA TagInFront ==
  ASSUME NEW tag \in Byte, NEW t \in Seq(Byte)
  PROVE  Tagged(tag, t)
<1>. DEFINE u == <<tag>> \o t
<1>1. <<tag>> \in Seq(Byte) /\ Len(<<tag>>) = 1 /\ <<tag>>[1] = tag /\ Len(t) \in Nat
  OBVIOUS
<1>2. /\ u \in Seq(Byte) /\ Len(u) = 1 + Len(t)
      /\ \A i \in 1 .. 1 + Len(t) : u[i] = IF i <= 1 THEN <<tag>>[i] ELSE t[i - 1]
  BY <1>1, ConcatProperties
<1>. HIDE DEF u
<1>3. u # <<>> /\ u[1] = tag
  BY <1>1, <1>2, EmptySeq
<1>4. Head(u) = tag
  BY <1>2, <1>3
<1>5. Tail(u) = t
  <2>1. Tail(u) \in Seq(Byte) /\ Len(Tail(u)) = Len(t) /\ \A i \in 1 .. Len(Tail(u)) : Tail(u)[i] = u[i + 1]
    BY <1>1, <1>2, <1>3, HeadTailProperties
  <2>2. \A i \in 1 .. Len(Tail(u)) : Tail(u)[i] = t[i]
    BY <1>1, <1>2, <2>1
  <2>. QED
    BY <2>1, <2>2, SeqEqual
<1>. QED
  BY <1>1, <1>2, <1>3, <1>4, <1>5 DEF Tagged, u

\* decompress() of AdaptiveCompression gives back what compress() was given,
\* whichever algorithm it chose.
THEOREM AdaptiveLossless ==
  \A data \in Seq(Byte) :
    /\ AdaptiveCompress(data) \in Seq(Byte)
    /\ AdaptiveDecompress(AdaptiveCompress(data)) = data
<1>. SUFFICES ASSUME NEW data \in Seq(Byte)
     PROVE  /\ AdaptiveCompress(data) \in Seq(Byte)
            /\ AdaptiveDecompress(AdaptiveCompress(data)) = data
  OBVIOUS
<1>1. CASE data = <<>>
  BY <1>1, EmptySeq DEF AdaptiveCompress, AdaptiveDecompress
<1>2. ASSUME data # <<>>, NEW tag \in {TagR, TagI}, NEW t \in Seq(Byte),
             AdaptiveCompress(data) = <<tag>> \o t,
             tag = TagR => RleDecompress(t) = data,
             tag = TagI => t = data
      PROVE  /\ AdaptiveCompress(data) \in Seq(Byte)
             /\ AdaptiveDecompress(AdaptiveCompress(data)) = data
  <2>1. tag \in Byte /\ TagR # TagI
    BY CodecAssumption
  <2>2. Tagged(tag, t)
    BY <2>1, TagInFront
  <2>. QED
    BY <1>2, <2>1, <2>2 DEF Tagged, AdaptiveDecompress, IdentityDecompress
<1>3. RleCompress(data) \in Seq(Byte) /\ RleDecompress(RleCompress(data)) = data
  BY RleLossless
<1>4. CASE data # <<>> /\ AdaptiveCompress(data) = <<TagR>> \o RleCompress(data)
  BY <1>2, <1>3, <1>4, CodecAssumption
<1>5. CASE data # <<>> /\ AdaptiveCompress(data) = <<TagI>> \o data
  BY <1>2, <1>5, CodecAssumption
<1>. QED
  BY <1>1, <1>4, <1>5 DEF AdaptiveCompress

\* The stream of AdaptiveCompression is a shortest one of its format, and one
\* byte longer than the file at most.
THEOREM AdaptiveShortest ==
  /\ \A data \in Seq(Byte) : Len(AdaptiveCompress(data)) <= Len(data) + 1
  /\ \A s \in Seq(Byte) :
       AdaptiveDecompress(s) # Rejected =>
         /\ AdaptiveDecompress(s) \in Seq(Byte)
         /\ Len(AdaptiveCompress(AdaptiveDecompress(s))) <= Len(s)
<1>1. ASSUME NEW data \in Seq(Byte)
      PROVE  /\ Len(AdaptiveCompress(data)) <= Len(data) + 1
             /\ Len(AdaptiveCompress(data)) <= Len(RleCompress(data)) + 1
  <2>1. /\ RleCompress(data) \in Seq(Byte) /\ Len(data) \in Nat
        /\ Len(RleCompress(data)) \in Nat /\ Len(<<>>) = 0
    BY RleLossless, EmptySeq
  <2>2. /\ Len(<<TagR>> \o RleCompress(data)) = Len(RleCompress(data)) + 1
        /\ Len(<<TagI>> \o data) = Len(data) + 1
    BY <2>1, CodecAssumption, TagInFront DEF Tagged
  <2>3. CASE data = <<>>
    BY <2>1, <2>3 DEF AdaptiveCompress
  <2>4. CASE data # <<>>
    BY <2>1, <2>2, <2>4 DEF AdaptiveCompress
  <2>. QED
    BY <2>3, <2>4
<1>2. ASSUME NEW s \in Seq(Byte), AdaptiveDecompress(s) # Rejected
      PROVE  /\ AdaptiveDecompress(s) \in Seq(Byte)
             /\ Len(AdaptiveCompress(AdaptiveDecompress(s))) <= Len(s)
  <2>1. CASE s = <<>>
    BY <2>1 DEF AdaptiveDecompress, AdaptiveCompress
  <2>2. CASE s # <<>> /\ Head(s) = TagR
    <3>1. Tail(s) \in Seq(Byte) /\ Len(Tail(s)) = Len(s) - 1 /\ Len(s) \in Nat
      BY <2>2, HeadTailProperties
    <3>2. AdaptiveDecompress(s) = RleDecompress(Tail(s))
      BY <2>2, CodecAssumption DEF AdaptiveDecompress
    <3>3. ~RleMalformed(Tail(s))
      BY <1>2, <3>2 DEF RleDecompress
    <3>4. RleDecompress(Tail(s)) \in Seq(Byte)
      BY <3>1, <3>3, SoundIsAccepted, ExpansionType
    <3>5. Len(RleCompress(RleDecompress(Tail(s)))) <= Len(Tail(s))
      BY <3>1, <3>3, RleShortest
    <3>6. RleCompress(RleDecompress(Tail(s))) \in Seq(Byte)
      BY <3>4, RleLossless
    <3>7. AdaptiveCompress(RleDecompress(Tail(s))) \in Seq(Byte)
      BY <3>4, AdaptiveLossless
    <3>8. Len(AdaptiveCompress(RleDecompress(Tail(s)))) <= Len(RleCompress(RleDecompress(Tail(s)))) + 1
      BY <1>1, <3>4
    <3>9. /\ Len(RleCompress(RleDecompress(Tail(s)))) \in Nat
          /\ Len(AdaptiveCompress(RleDecompress(Tail(s)))) \in Nat
      BY <3>6, <3>7
    <3>. QED
      BY <3>1, <3>2, <3>4, <3>5, <3>8, <3>9
  <2>3. CASE s # <<>> /\ Head(s) = TagI
    <3>1. Tail(s) \in Seq(Byte) /\ Len(Tail(s)) = Len(s) - 1 /\ Len(s) \in Nat
      BY <2>3, HeadTailProperties
    <3>2. AdaptiveDecompress(s) = Tail(s)
      BY <2>3, CodecAssumption DEF AdaptiveDecompress, IdentityDecompress
    <3>3. Len(AdaptiveCompress(Tail(s))) <= Len(Tail(s)) + 1
      BY <1>1, <3>1
    <3>. QED
      BY <3>1, <3>2, <3>3
  <2>. QED
    BY <1>2, <2>1, <2>2, <2>3 DEF AdaptiveDecompress
<1>. QED
  BY <1>1, <1>2

-----------------------------------------------------------------------------
(* CompressionApi.                                                         *)

LEMMA ApiInit == Init => ApiInv
<1>. SUFFICES ASSUME Init PROVE ApiInv
  OBVIOUS
<1>1. request = [method |-> "GET", path |-> "/other", body |-> <<>>]
      /\ response = None /\ uploaded = Rejected
  BY DEF Init
<1>2. <<>> \in Seq(Byte)
  BY EmptySeq
<1>3. Text # Rejected
  BY ApiAssumption
<1>4. TypeOK
  BY <1>1, <1>2, <1>3 DEF TypeOK, Method, Path, None
<1>. QED
  BY <1>1, <1>4 DEF ApiInv

\* Whatever is asked, the answer is a message, empty, or the bytes of a file.
LEMMA HandleType ==
  ASSUME NEW r \in [method : Method, path : Path, body : Seq(Byte)]
  PROVE  /\ Handle(r).status \in {200, 204, 400, 404, 405}
         /\ Handle(r).body # Rejected
<1>1. AdaptiveCompress(r.body) \in Seq(Byte)
  BY AdaptiveLossless
<1>2. AdaptiveCompress(r.body) # Rejected /\ <<>> # Rejected /\ Text # Rejected
  BY <1>1, EmptySeq, CodecAssumption, ApiAssumption
<1>3. /\ Post(r.path, r.body).status \in {200, 400, 404}
      /\ Post(r.path, r.body).body # Rejected
  BY <1>2 DEF Post, Success, TextError
<1>. QED
  BY <1>2, <1>3 DEF Handle, TextError

LEMMA ApiNext == ApiInv /\ [Next]_vars => ApiInv'
<1>. SUFFICES ASSUME ApiInv, [Next]_vars PROVE ApiInv'
  OBVIOUS
<1>1. CASE Send
  <2>1. PICK m \in Method, p \in Path, b \in Body :
          Exchange([method |-> m, path |-> p, body |-> b])
    BY <1>1 DEF Send
  <2>2. request' \in [method : Method, path : Path, body : Seq(Byte)]
    BY <2>1, ApiAssumption DEF Exchange
  <2>3. response' = Handle(request') /\ uploaded' = Rejected
    BY <1>1, <2>1 DEF Send, Exchange
  <2>. QED
    BY <2>2, <2>3, HandleType DEF ApiInv, TypeOK
<1>2. CASE SendBack
  <2>1. /\ request \in [method : Method, path : Path, body : Seq(Byte)]
        /\ request.method = "POST" /\ request.path = "/compress"
        /\ response = Handle(request)
    BY <1>2 DEF SendBack, ApiInv, TypeOK
  <2>2. response.body = AdaptiveCompress(request.body)
    BY <2>1 DEF Handle, Post, Success
  <2>3. response.body \in Seq(Byte)
    BY <2>1, <2>2, AdaptiveLossless
  <2>4. /\ request' = [method |-> "POST", path |-> "/decompress", body |-> response.body]
        /\ response' = Handle(request')
        /\ uploaded' = request.body
    BY <1>2 DEF SendBack, Exchange
  <2>5. request' \in [method : Method, path : Path, body : Seq(Byte)]
    BY <2>3, <2>4 DEF Method, Path
  <2>6. uploaded' \in Seq(Byte)
    BY <2>1, <2>4
  <2>. QED
    BY <2>2, <2>4, <2>5, <2>6, HandleType DEF ApiInv, TypeOK
<1>3. CASE UNCHANGED vars
  BY <1>3 DEF vars, ApiInv, TypeOK
<1>. QED
  BY <1>1, <1>2, <1>3 DEF Next

\* The invariant of CompressionApi: every answer is handle()'s, no answer
\* carries an exception.
THEOREM ApiInvariant == Spec => []ApiInv
BY ApiInit, ApiNext, PTL DEF Spec

LEMMA PostAnswers ==
  ASSUME ApiInv, request.method = "POST"
  PROVE  /\ request.body \in Seq(Byte)
         /\ response = Post(request.path, request.body)
BY DEF ApiInv, TypeOK, Handle

\* A file sent to /compress comes back from /decompress as it was
\* (CompressionApi::handle).
THEOREM RoundTripThroughTheApi == Spec => []RoundTripThroughApi
<1>1. ApiInv => RoundTripThroughApi
  <2>. SUFFICES ASSUME ApiInv, uploaded # Rejected PROVE response = Success(uploaded)
    BY DEF RoundTripThroughApi
  <2>1. /\ uploaded \in Seq(Byte)
        /\ request.method = "POST" /\ request.path = "/decompress"
        /\ request.body = AdaptiveCompress(uploaded)
    BY DEF ApiInv, TypeOK
  <2>2. AdaptiveDecompress(request.body) = uploaded
    BY <2>1, AdaptiveLossless
  <2>3. response = Post("/decompress", request.body)
    BY <2>1, PostAnswers
  <2>. QED
    BY <2>2, <2>3 DEF Post
<1>. QED
  BY <1>1, ApiInvariant, PTL

\* /compress never answers with a longer stream than /decompress would have
\* taken for the same file.
THEOREM ShortestThroughTheApi == Spec => []NoShorterStream
<1>1. ApiInv => NoShorterStream
  <2>. SUFFICES ASSUME ApiInv, request.method = "POST", request.path = "/decompress",
                       response.status = 200
       PROVE  Len(AdaptiveCompress(response.body)) <= Len(request.body)
    BY DEF NoShorterStream
  <2>1. request.body \in Seq(Byte) /\ response = Post("/decompress", request.body)
    BY PostAnswers
  <2>2. AdaptiveDecompress(request.body) # Rejected /\ response.body = AdaptiveDecompress(request.body)
    BY <2>1 DEF Post, Success, TextError
  <2>. QED
    BY <2>1, <2>2, AdaptiveShortest
<1>. QED
  BY <1>1, ApiInvariant, PTL

\* A compressed file is one byte longer than the file at most, and only what
\* is empty becomes empty.
THEOREM SizeThroughTheApi == Spec => []OneByteOverhead
<1>1. ApiInv => OneByteOverhead
  <2>. SUFFICES ASSUME ApiInv, request.method = "POST", request.path = "/compress"
       PROVE  /\ Len(response.body) <= Len(request.body) + 1
              /\ response.body = <<>> <=> request.body = <<>>
    BY DEF OneByteOverhead
  <2>1. request.body \in Seq(Byte) /\ response = Post("/compress", request.body)
    BY PostAnswers
  <2>2. response.body = AdaptiveCompress(request.body)
    BY <2>1 DEF Post, Success
  <2>3. AdaptiveDecompress(response.body) = request.body
    BY <2>1, <2>2, AdaptiveLossless
  <2>4. response.body = <<>> => request.body = <<>>
    BY <2>3 DEF AdaptiveDecompress
  <2>5. request.body = <<>> => response.body = <<>>
    BY <2>2 DEF AdaptiveCompress
  <2>. QED
    BY <2>1, <2>2, <2>4, <2>5, AdaptiveShortest
<1>. QED
  BY <1>1, ApiInvariant, PTL

-----------------------------------------------------------------------------
(* rle.ts and adaptive.ts.                                                 *)

First(input) == [out |-> <<>>, current |-> input[1], run |-> 1]

LEMMA FrontendScansUnfold ==
  ASSUME NEW input \in Seq(Byte), input # <<>>
  PROVE  /\ scans(input)[1] = First(input)
         /\ \A n \in 2 .. Len(input) : scans(input)[n] = scan(scans(input)[n - 1], input[n])
<1>. DEFINE N == Len(input) - 1
            Def(g, n) == IF n = 1 THEN First(input) ELSE scan(g[n - 1], input[n])
            Ok(n) == \E g : g = [m \in 1 .. n + 1 |-> Def(g, m)]
            T == {n \in 0 .. N : Ok(n)}
<1>1. N \in Nat /\ N + 1 = Len(input)
  BY EmptySeq
<1>2. scans(input) = CHOOSE g : g = [n \in 1 .. Len(input) |-> Def(g, n)]
  BY DEF scans, First
<1>. HIDE DEF N
<1>3. Ok(0)
  <2>. DEFINE g == [m \in 1 .. 1 |-> First(input)]
  <2>1. g = [m \in 1 .. 0 + 1 |-> Def(g, m)]
    OBVIOUS
  <2>. HIDE DEF g, Def
  <2>. QED
    BY <2>1
<1>4. ASSUME NEW n \in 0 .. N, n < N, Ok(n) PROVE Ok(n + 1)
  <2>1. PICK g : g = [m \in 1 .. n + 1 |-> Def(g, m)]
    BY <1>4
  <2>. DEFINE h == [m \in 1 .. (n + 1) + 1 |-> IF m = n + 2 THEN Def(g, n + 2) ELSE g[m]]
  <2>2. ASSUME NEW m \in 1 .. (n + 1) + 1 PROVE h[m] = Def(h, m)
    <3>1. CASE m = n + 2
      BY <1>1, <3>1
    <3>2. CASE m # n + 2
      <4>1. m \in 1 .. n + 1 /\ (m # 1 => m - 1 \in 1 .. n + 1 /\ m - 1 # n + 2)
        BY <1>1, <3>2
      <4>2. h[m] = g[m] /\ (m # 1 => h[m - 1] = g[m - 1])
        BY <1>1, <3>2, <4>1
      <4>3. g[m] = Def(g, m)
        BY <2>1, <4>1
      <4>. HIDE DEF h
      <4>. QED
        BY <4>1, <4>2, <4>3
    <3>. QED
      BY <3>1, <3>2
  <2>3. h = [m \in 1 .. (n + 1) + 1 |-> Def(h, m)]
    BY <2>2
  <2>. HIDE DEF h, Def
  <2>. QED
    BY <2>3
<1>5. Ok(N)
  <2>. HIDE DEF Ok
  <2>1. 0 \in T /\ \A n \in 0 .. N : n < N /\ n \in T => n + 1 \in T
    BY <1>1, <1>3, <1>4
  <2>2. \A n \in 0 .. N : n \in T
    <3>. HIDE DEF T
    <3>. QED
      BY <1>1, <2>1, IntervalInduction
  <2>. QED
    BY <1>1, <2>2
<1>6. \E g : g = [m \in 1 .. Len(input) |-> Def(g, m)]
  <2>. HIDE DEF Def
  <2>. QED
    BY <1>1, <1>5
<1>7. scans(input) = [n \in 1 .. Len(input) |-> Def(scans(input), n)]
  BY <1>2, <1>6
<1>. QED
  BY <1>1, <1>7

LEMMA TotalsUnfold ==
  ASSUME NEW input \in Seq(Byte)
  PROVE  /\ totals(input)[0] = 0
         /\ \A k \in 1 .. Len(input) \div 2 : totals(input)[k] = totals(input)[k - 1] + count(input, k)
<1>. DEFINE N == Len(input) \div 2
            Def(g, k) == IF k = 0 THEN 0 ELSE g[k - 1] + count(input, k)
            Ok(k) == \E g : g = [m \in 0 .. k |-> Def(g, m)]
            T == {k \in 0 .. N : Ok(k)}
<1>1. N \in Nat
  OBVIOUS
<1>2. totals(input) = CHOOSE g : g = [k \in 0 .. N |-> Def(g, k)]
  BY DEF totals
<1>. HIDE DEF N
<1>3. Ok(0)
  <2>. DEFINE g == [m \in 0 .. 0 |-> 0]
  <2>1. g = [m \in 0 .. 0 |-> Def(g, m)]
    OBVIOUS
  <2>. HIDE DEF g, Def
  <2>. QED
    BY <2>1
<1>4. ASSUME NEW k \in 0 .. N, k < N, Ok(k) PROVE Ok(k + 1)
  <2>1. PICK g : g = [m \in 0 .. k |-> Def(g, m)]
    BY <1>4
  <2>. DEFINE h == [m \in 0 .. k + 1 |-> IF m = k + 1 THEN Def(g, k + 1) ELSE g[m]]
  <2>2. ASSUME NEW m \in 0 .. k + 1 PROVE h[m] = Def(h, m)
    <3>1. CASE m = k + 1
      BY <1>1, <3>1
    <3>2. CASE m # k + 1
      <4>1. m \in 0 .. k /\ (m # 0 => m - 1 \in 0 .. k /\ m - 1 # k + 1)
        BY <1>1, <3>2
      <4>2. h[m] = g[m] /\ (m # 0 => h[m - 1] = g[m - 1])
        BY <3>2, <4>1
      <4>3. g[m] = Def(g, m)
        BY <2>1, <4>1
      <4>. HIDE DEF h
      <4>. QED
        BY <4>1, <4>2, <4>3
    <3>. QED
      BY <3>1, <3>2
  <2>3. h = [m \in 0 .. k + 1 |-> Def(h, m)]
    BY <2>2
  <2>. HIDE DEF h, Def
  <2>. QED
    BY <2>3
<1>5. Ok(N)
  <2>. HIDE DEF Ok
  <2>1. 0 \in T /\ \A k \in 0 .. N : k < N /\ k \in T => k + 1 \in T
    BY <1>1, <1>3, <1>4
  <2>2. \A k \in 0 .. N : k \in T
    <3>. HIDE DEF T
    <3>. QED
      BY <1>1, <2>1, IntervalInduction
  <2>. QED
    BY <1>1, <2>2
<1>6. totals(input) = [k \in 0 .. N |-> Def(totals(input), k)]
  BY <1>2, <1>5
<1>. QED
  BY <1>1, <1>6 DEF N

Zeros(input) == [out |-> [i \in 1 .. totals(input)[Len(input) \div 2] |-> 0], off |-> 0]

LEMMA FillsUnfold ==
  ASSUME NEW input \in Seq(Byte)
  PROVE  /\ fills(input)[0] = Zeros(input)
         /\ \A k \in 1 .. Len(input) \div 2 : fills(input)[k] = fill(input, fills(input)[k - 1], k)
<1>. DEFINE N == Len(input) \div 2
            Def(g, k) == IF k = 0 THEN Zeros(input) ELSE fill(input, g[k - 1], k)
            Ok(k) == \E g : g = [m \in 0 .. k |-> Def(g, m)]
            T == {k \in 0 .. N : Ok(k)}
<1>1. N \in Nat
  OBVIOUS
<1>2. fills(input) = CHOOSE g : g = [k \in 0 .. N |-> Def(g, k)]
  BY DEF fills, Zeros
<1>. HIDE DEF N
<1>3. Ok(0)
  <2>. DEFINE g == [m \in 0 .. 0 |-> Zeros(input)]
  <2>1. g = [m \in 0 .. 0 |-> Def(g, m)]
    OBVIOUS
  <2>. HIDE DEF g, Def
  <2>. QED
    BY <2>1
<1>4. ASSUME NEW k \in 0 .. N, k < N, Ok(k) PROVE Ok(k + 1)
  <2>1. PICK g : g = [m \in 0 .. k |-> Def(g, m)]
    BY <1>4
  <2>. DEFINE h == [m \in 0 .. k + 1 |-> IF m = k + 1 THEN Def(g, k + 1) ELSE g[m]]
  <2>2. ASSUME NEW m \in 0 .. k + 1 PROVE h[m] = Def(h, m)
    <3>1. CASE m = k + 1
      BY <1>1, <3>1
    <3>2. CASE m # k + 1
      <4>1. m \in 0 .. k /\ (m # 0 => m - 1 \in 0 .. k /\ m - 1 # k + 1)
        BY <1>1, <3>2
      <4>2. h[m] = g[m] /\ (m # 0 => h[m - 1] = g[m - 1])
        BY <3>2, <4>1
      <4>3. g[m] = Def(g, m)
        BY <2>1, <4>1
      <4>. HIDE DEF h
      <4>. QED
        BY <4>1, <4>2, <4>3
    <3>. QED
      BY <3>1, <3>2
  <2>3. h = [m \in 0 .. k + 1 |-> Def(h, m)]
    BY <2>2
  <2>. HIDE DEF h, Def
  <2>. QED
    BY <2>3
<1>5. Ok(N)
  <2>. HIDE DEF Ok
  <2>1. 0 \in T /\ \A k \in 0 .. N : k < N /\ k \in T => k + 1 \in T
    BY <1>1, <1>3, <1>4
  <2>2. \A k \in 0 .. N : k \in T
    <3>. HIDE DEF T
    <3>. QED
      BY <1>1, <2>1, IntervalInduction
  <2>. QED
    BY <1>1, <2>2
<1>6. fills(input) = [k \in 0 .. N |-> Def(fills(input), k)]
  BY <1>2, <1>5
<1>. QED
  BY <1>1, <1>6 DEF N

\* From the first byte on, both loops of compress() hold the same.
LEMMA SameScans ==
  ASSUME NEW input \in Seq(Byte), input # <<>>
  PROVE  \A n \in 1 .. Len(input) : scans(input)[n] = Scans(input)[n]
<1>. DEFINE N == Len(input) - 1
            T == {n \in 0 .. N : scans(input)[n + 1] = Scans(input)[n + 1]}
<1>1. N \in Nat /\ N + 1 = Len(input)
  BY EmptySeq
<1>. HIDE DEF N
<1>2. 0 \in T
  <2>1. 1 \in 1 .. Len(input)
    BY <1>1
  <2>2. Scans(input)[1] = Scan(Start, input[1])
    BY <2>1, ScansUnfold
  <2>3. Scan(Start, input[1]) = First(input)
    BY DEF Scan, Start, First, Flushed
  <2>. QED
    BY <1>1, <2>2, <2>3, FrontendScansUnfold
<1>3. ASSUME NEW n \in 0 .. N, n < N, n \in T PROVE n + 1 \in T
  <2>. DEFINE m == n + 2
              acc == Scans(input)[m - 1]
  <2>1. m \in 2 .. Len(input) /\ m \in 1 .. Len(input) /\ m - 1 = n + 1 /\ m = (n + 1) + 1
        /\ m - 1 \in 0 .. Len(input) /\ m - 1 > 0 /\ n + 1 \in 0 .. N
    BY <1>1, <1>3
  <2>. HIDE DEF m
  <2>2. Scans(input)[m] = Scan(acc, input[m]) /\ scans(input)[m] = scan(scans(input)[m - 1], input[m])
    BY <2>1, ScansUnfold, FrontendScansUnfold
  <2>3. scans(input)[m - 1] = acc
    BY <1>3, <2>1
  <2>4. acc.run > 0 /\ acc \in Acc
    BY <2>1, ScansInv DEF ScanInv
  <2>. HIDE DEF acc
  <2>5. Flushed(acc) = push(acc)
    <3>1. acc.run # 0
      BY <2>4, CodecAssumption DEF Acc
    <3>. QED
      BY <3>1 DEF Flushed, push
  <2>6. scan(acc, input[m]) = Scan(acc, input[m])
    BY <2>4, <2>5 DEF scan, Scan
  <2>. QED
    BY <2>1, <2>2, <2>3, <2>6
<1>4. \A n \in 0 .. N : n \in T
  <2>. HIDE DEF T
  <2>. QED
    BY <1>1, <1>2, <1>3, IntervalInduction
<1>5. ASSUME NEW n \in 1 .. Len(input) PROVE scans(input)[n] = Scans(input)[n]
  <2>1. n - 1 \in 0 .. N /\ (n - 1) + 1 = n
    BY <1>1
  <2>2. n - 1 \in T
    BY <1>4, <2>1
  <2>. QED
    BY <2>1, <2>2
<1>. QED
  BY <1>5

LEMMA SameCompress ==
  ASSUME NEW input \in Seq(Byte)
  PROVE  rleCompress(input) = RleCompress(input)
<1>1. CASE input = <<>>
  <2>1. Flushed(Start) = <<>>
    BY DEF Flushed, Start
  <2>. QED
    BY <1>1, <2>1, ScansUnfold DEF rleCompress, RleCompress
<1>2. CASE input # <<>>
  <2>. DEFINE acc == Scans(input)[Len(input)]
  <2>1. Len(input) \in 1 .. Len(input) /\ Len(input) \in 0 .. Len(input) /\ Len(input) > 0
    BY <1>2, EmptySeq
  <2>2. acc.run > 0 /\ acc \in Acc
    BY <2>1, ScansInv DEF ScanInv
  <2>3. scans(input)[Len(input)] = acc
    BY <1>2, <2>1, SameScans
  <2>. HIDE DEF acc
  <2>4. Flushed(acc) = push(acc)
    <3>1. acc.run # 0
      BY <2>2, CodecAssumption DEF Acc
    <3>. QED
      BY <3>1 DEF Flushed, push
  <2>. QED
    BY <1>2, <2>3, <2>4 DEF rleCompress, RleCompress, acc
<1>. QED
  BY <1>1, <1>2

\* The array and the offset behind pair k.
FilledTo(s, k) ==
  /\ fills(s)[k].out \in [1 .. Len(Expansion(s)) -> Byte]
  /\ fills(s)[k].off = Len(Expansions(s)[k])
  /\ \A i \in 1 .. Len(Expansions(s)[k]) : fills(s)[k].out[i] = Expansions(s)[k][i]

\* The first pass computes the length of what the second one writes.
LEMMA TotalsAreLengths ==
  ASSUME NEW s \in Seq(Byte)
  PROVE  \A k \in 0 .. Len(s) \div 2 : totals(s)[k] = Len(Expansions(s)[k])
<1>. DEFINE N == Len(s) \div 2
            T == {k \in 0 .. N : totals(s)[k] = Len(Expansions(s)[k])}
<1>1. N \in Nat /\ Len(s) \in Nat
  BY Half
<1>2. 0 \in T
  <2>1. totals(s)[0] = Len(Expansions(s)[0])
    BY TotalsUnfold, ExpansionsUnfold, EmptySeq
  <2>. HIDE DEF N
  <2>. QED
    BY <1>1, <2>1
<1>3. ASSUME NEW k \in 0 .. N, k < N, k \in T PROVE k + 1 \in T
  <2>1. k + 1 \in 1 .. N /\ (k + 1) - 1 = k /\ k + 1 \in 0 .. N
    BY <1>1, <1>3
  <2>2. PairExpanded(s, k)
    BY <1>3, ExpandOne
  <2>3. totals(s)[k + 1] = totals(s)[k] + s[2 * (k + 1)]
    BY <2>1, TotalsUnfold DEF count
  <2>4. totals(s)[k] = Len(Expansions(s)[k])
    BY <1>3
  <2>. QED
    BY <2>1, <2>2, <2>3, <2>4 DEF PairExpanded
<1>4. \A k \in 0 .. N : k \in T
  <2>. HIDE DEF T, N
  <2>. QED
    BY <1>1, <1>2, <1>3, IntervalInduction
<1>. QED
  BY <1>4

\* What has been filled is what has been expanded.
LEMMA FillsAreExpansions ==
  ASSUME NEW s \in Seq(Byte)
  PROVE  \A k \in 0 .. Len(s) \div 2 : FilledTo(s, k)
<1>. DEFINE N == Len(s) \div 2
            L == Len(Expansion(s))
            T == {k \in 0 .. N : FilledTo(s, k)}
<1>1. N \in Nat /\ Len(s) \in Nat /\ L \in Nat
  BY Half, ExpansionType
<1>2. 0 \in T
  <2>1. totals(s)[N] = L
    <3>1. N \in 0 .. N
      BY <1>1
    <3>. QED
      BY <3>1, TotalsAreLengths DEF Expansion
  <2>2. fills(s)[0] = [out |-> [i \in 1 .. L |-> 0], off |-> 0]
    BY <2>1, FillsUnfold DEF Zeros
  <2>3. 0 \in Byte /\ Expansions(s)[0] = <<>> /\ Len(<<>>) = 0
    BY CodecAssumption, ExpansionsUnfold, EmptySeq DEF Byte
  <2>. HIDE DEF N, L
  <2>4. [i \in 1 .. L |-> 0] \in [1 .. L -> Byte]
    BY <2>3
  <2>5. FilledTo(s, 0)
    BY <1>1, <2>2, <2>3, <2>4 DEF FilledTo, L
  <2>. QED
    BY <1>1, <2>5
<1>3. ASSUME NEW k \in 0 .. N, k < N, k \in T PROVE k + 1 \in T
  <2>. DEFINE f == fills(s)[k]
              E == Expansions(s)[k]
              F == Expansions(s)[k + 1]
              c == s[2 * (k + 1)]
              v == s[2 * (k + 1) - 1]
              new == [i \in 1 .. L |-> IF i \in f.off + 1 .. f.off + c THEN v ELSE f.out[i]]
  <2>1. k + 1 \in 1 .. N /\ (k + 1) - 1 = k /\ k + 1 \in 0 .. N
    BY <1>1, <1>3
  <2>2. PairExpanded(s, k)
    BY <1>3, ExpandOne
  <2>3. /\ f.out \in [1 .. L -> Byte] /\ f.off = Len(E)
        /\ \A i \in 1 .. Len(E) : f.out[i] = E[i]
    BY <1>3 DEF FilledTo
  <2>4. /\ E \in Seq(Byte) /\ F \in Seq(Byte) /\ c \in Nat /\ v \in Byte
        /\ Len(F) = Len(E) + c
        /\ \A i \in 1 .. Len(E) : F[i] = E[i]
        /\ \A i \in Len(E) + 1 .. Len(E) + c : F[i] = v
    BY <2>2 DEF PairExpanded
  <2>5. Len(F) <= L
    BY <2>1, ExpansionsGrow DEF IsPrefixOf
  <2>6. Len(f.out) = L
    BY <1>1, <2>3
  <2>7. fills(s)[k + 1] = [out |-> new, off |-> f.off + c]
    BY <2>1, <2>6, FillsUnfold DEF fill, value, count
  <2>8. new \in [1 .. L -> Byte]
    BY <2>3, <2>4
  <2>. HIDE DEF f, E, F, c, v
  <2>9. ASSUME NEW i \in 1 .. Len(F) PROVE new[i] = F[i]
    <3>1. i \in 1 .. L /\ Len(E) \in Nat
      BY <1>1, <2>4, <2>5
    <3>2. new[i] = IF i \in f.off + 1 .. f.off + c THEN v ELSE f.out[i]
      BY <3>1
    <3>3. CASE i \in Len(E) + 1 .. Len(E) + c
      BY <2>3, <2>4, <3>2, <3>3
    <3>4. CASE i \notin Len(E) + 1 .. Len(E) + c
      <4>1. i \in 1 .. Len(E)
        BY <2>4, <3>1, <3>4
      <4>. HIDE DEF new
      <4>. QED
        BY <2>3, <2>4, <3>2, <3>4, <4>1
    <3>. QED
      BY <3>3, <3>4
  <2>. HIDE DEF new
  <2>10. FilledTo(s, k + 1)
    BY <2>3, <2>4, <2>7, <2>8, <2>9 DEF FilledTo, F
  <2>. QED
    BY <2>1, <2>10
<1>4. \A k \in 0 .. N : k \in T
  <2>. HIDE DEF T, N
  <2>. QED
    BY <1>1, <1>2, <1>3, IntervalInduction
<1>. QED
  BY <1>4

LEMMA SameDecompress ==
  ASSUME NEW s \in Seq(Byte)
  PROVE  rleDecompress(s) = RleDecompress(s)
<1>. DEFINE N == Len(s) \div 2
<1>1. N \in 0 .. N
  BY Half
<1>2. CASE s = <<>>
  <2>1. ~RleMalformed(<<>>) /\ Len(<<>>) \div 2 = 0
    BY EmptySeq DEF RleMalformed
  <2>. QED
    BY <1>2, <2>1, ExpansionsUnfold DEF rleDecompress, RleDecompress
<1>3. CASE s # <<>> /\ RleMalformed(s)
  BY <1>3 DEF rleDecompress, RleDecompress, RleMalformed, count
<1>4. CASE s # <<>> /\ ~RleMalformed(s)
  <2>1. FilledTo(s, N)
    BY <1>1, FillsAreExpansions
  <2>. DEFINE E == Expansions(s)[N]
              t == fills(s)[N].out
  <2>2. /\ t \in [1 .. Len(E) -> Byte]
        /\ \A i \in 1 .. Len(E) : t[i] = E[i]
    BY <2>1 DEF FilledTo, Expansion
  <2>3. E \in Seq(Byte) /\ Len(E) \in Nat
    BY <1>1, ExpansionsType
  <2>. HIDE DEF t, E
  <2>4. t \in Seq(Byte) /\ Len(t) = Len(E)
    BY <2>2, <2>3
  <2>5. t = E
    BY <2>2, <2>3, <2>4, SeqEqual
  <2>. QED
    BY <1>4, <2>5 DEF rleDecompress, RleDecompress, RleMalformed, count, t, E
<1>. QED
  BY <1>2, <1>3, <1>4

\* The page's codec and the server's are the same two functions (rle.ts and
\* adaptive.ts against RLECompression.cpp and AdaptiveCompression.cpp).
THEOREM SameFormat ==
  \A s \in Seq(Byte) :
    /\ adaptiveCompress(s) = AdaptiveCompress(s)
    /\ adaptiveDecompress(s) = AdaptiveDecompress(s)
<1>. SUFFICES ASSUME NEW s \in Seq(Byte)
     PROVE  /\ adaptiveCompress(s) = AdaptiveCompress(s)
            /\ adaptiveDecompress(s) = AdaptiveDecompress(s)
  OBVIOUS
<1>1. adaptiveCompress(s) = AdaptiveCompress(s)
  BY SameCompress DEF adaptiveCompress, AdaptiveCompress
<1>2. s # <<>> => rleDecompress(Tail(s)) = RleDecompress(Tail(s))
  BY SameDecompress, HeadTailProperties
<1>3. adaptiveDecompress(s) = AdaptiveDecompress(s)
  BY <1>2, CodecAssumption DEF adaptiveDecompress, AdaptiveDecompress, IdentityDecompress
<1>. QED
  BY <1>1, <1>3

\* Every answer of the API is what the page's codec would have computed.
THEOREM PageAgrees == Spec => []FrontendAgrees
<1>1. ApiInv => FrontendAgrees
  <2>. SUFFICES ASSUME ApiInv, request.method = "POST"
       PROVE  /\ request.path = "/compress"   => response.body = adaptiveCompress(request.body)
              /\ request.path = "/decompress" =>
                   adaptiveDecompress(request.body) =
                     IF response.status = 200 THEN response.body ELSE Rejected
    BY DEF FrontendAgrees
  <2>1. request.body \in Seq(Byte) /\ response = Post(request.path, request.body)
    BY PostAnswers
  <2>. QED
    BY <2>1, SameFormat DEF Post, Success, TextError
<1>. QED
  BY <1>1, ApiInvariant, PTL
=============================================================================
