------------------------------- MODULE RleLoops -------------------------------
(***************************************************************************)
(* The loops of RLECompression (src/src/RLECompression.cpp), step by step: *)
(* compress() of some data followed by decompress() of what it returned,   *)
(* or decompress() of a foreign stream, which may be anything.             *)
(*                                                                         *)
(* A stream is flat: bytes 1, 3, 5, ... are values, bytes 2, 4, 6, ... are *)
(* counts.  i is the index the code uses, so its data[i] is data[i + 1].   *)
(* A byte is a number of 0 .. MaxByte; the code's MaxByte is 255.          *)
(***************************************************************************)
EXTENDS Integers, Sequences

CONSTANTS
  MaxByte,  \* the greatest byte, and the run limit: both are 255
  Input     \* the byte sequences considered

Byte == 0 .. MaxByte

ASSUME RleAssumption ==
  /\ MaxByte \in Nat \ {0}
  /\ Input \subseteq Seq(Byte)

VARIABLES
  pc,       \* where the two calls are
  stream,   \* whose stream is decompressed: compress()'s own or a foreign one
  data,     \* the input of compress()
  out,      \* what compress() returns, or the foreign stream
  i,        \* the loop index
  current,  \* the byte of the run being counted
  run,      \* its length so far
  back,     \* what decompress() returns
  marks     \* history: 0, then where in data each emitted run ended

work == <<i, current, run>>
vars == <<pc, stream, data, out, work, back, marks>>

\* static_cast<unsigned char>(run)
Count(r) == r % (MaxByte + 1)

\* out.insert(out.end(), n, v)
Fill(s, n, v) == s \o [j \in 1 .. n |-> v]

TypeOK ==
  /\ pc \in {"compress", "scan", "decompress", "count", "expand", "done", "threw"}
  /\ stream \in {"own", "foreign"}
  /\ data \in Seq(Byte)
  /\ out \in Seq(Byte)
  /\ i \in Nat
  /\ current \in Byte
  /\ run \in 0 .. MaxByte
  /\ back \in Seq(Byte)
  /\ marks \in Seq(Nat)

Init ==
  /\ \/ pc = "compress" /\ stream = "own" /\ data \in Input /\ out = <<>>
     \/ pc = "decompress" /\ stream = "foreign" /\ data = <<>> /\ out \in Input
  /\ i = 0
  /\ current = 0
  /\ run = 0
  /\ back = <<>>
  /\ marks = <<0>>

-----------------------------------------------------------------------------
(***************************************************************************)
(* Faulty variants, each the slip its comment names.  No specification     *)
(* uses them: put in the place of the definition they are named after,     *)
(* they show that the properties can fail.                                 *)
(***************************************************************************)

\* run <= 255: the count of a run of 256 is cast to 0.
SameRunOneTooLong == data[i + 1] = current /\ run <= MaxByte

\* The last run is never written.
FlushLastForgotten ==
  /\ pc = "scan"
  /\ i = Len(data)
  /\ pc' = "decompress"
  /\ UNCHANGED <<stream, data, out, work, back, marks>>

\* The pre-pass looks at the values, not at the counts.
CountPairOfValues ==
  /\ pc = "count"
  /\ i < Len(out)
  /\ \/ out[i] = 0 /\ pc' = "threw" /\ UNCHANGED i
     \/ out[i] # 0 /\ i' = i + 2 /\ UNCHANGED pc
  /\ UNCHANGED <<stream, data, out, current, run, back, marks>>

-----------------------------------------------------------------------------
(* compress()                                                              *)

CompressEmpty ==
  /\ pc = "compress"
  /\ data = <<>>
  /\ pc' = "decompress"
  /\ UNCHANGED <<stream, data, out, work, back, marks>>

CompressBegin ==
  /\ pc = "compress"
  /\ data # <<>>
  /\ current' = data[1]
  /\ run' = 1
  /\ i' = 1
  /\ pc' = "scan"
  /\ UNCHANGED <<stream, data, out, back, marks>>

\* The two push_back() of a flush: the run ends before index i.
Emit ==
  /\ out' = Append(Append(out, current), Count(run))
  /\ marks' = Append(marks, i)

SameRun == data[i + 1] = current /\ run < MaxByte

Extend ==
  /\ pc = "scan"
  /\ i < Len(data)
  /\ SameRun
  /\ run' = run + 1
  /\ i' = i + 1
  /\ UNCHANGED <<pc, stream, data, out, current, back, marks>>

Flush ==
  /\ pc = "scan"
  /\ i < Len(data)
  /\ ~SameRun
  /\ Emit
  /\ current' = data[i + 1]
  /\ run' = 1
  /\ i' = i + 1
  /\ UNCHANGED <<pc, stream, data, back>>

FlushLast ==
  /\ pc = "scan"
  /\ i = Len(data)
  /\ Emit
  /\ pc' = "decompress"
  /\ UNCHANGED <<stream, data, work, back>>

-----------------------------------------------------------------------------
(* decompress(out)                                                         *)

DecompressEmpty ==
  /\ pc = "decompress"
  /\ out = <<>>
  /\ pc' = "done"
  /\ UNCHANGED <<stream, data, out, work, back, marks>>

DecompressOdd ==
  /\ pc = "decompress"
  /\ Len(out) % 2 # 0
  /\ pc' = "threw"
  /\ UNCHANGED <<stream, data, out, work, back, marks>>

DecompressBegin ==
  /\ pc = "decompress"
  /\ out # <<>>
  /\ Len(out) % 2 = 0
  /\ i' = 1
  /\ pc' = "count"
  /\ UNCHANGED <<stream, data, out, current, run, back, marks>>

\* The pre-pass over the counts; the total it adds up only sizes a buffer.
CountPair ==
  /\ pc = "count"
  /\ i < Len(out)
  /\ \/ out[i + 1] = 0 /\ pc' = "threw" /\ UNCHANGED i
     \/ out[i + 1] # 0 /\ i' = i + 2 /\ UNCHANGED pc
  /\ UNCHANGED <<stream, data, out, current, run, back, marks>>

CountDone ==
  /\ pc = "count"
  /\ i >= Len(out)
  /\ i' = 0
  /\ pc' = "expand"
  /\ UNCHANGED <<stream, data, out, current, run, back, marks>>

ExpandPair ==
  /\ pc = "expand"
  /\ i < Len(out)
  /\ \/ /\ out[i + 2] = 0
        /\ pc' = "threw"
        /\ UNCHANGED <<i, back>>
     \/ /\ out[i + 2] # 0
        /\ back' = Fill(back, out[i + 2], out[i + 1])
        /\ i' = i + 2
        /\ UNCHANGED pc
  /\ UNCHANGED <<stream, data, out, current, run, marks>>

ExpandDone ==
  /\ pc = "expand"
  /\ i >= Len(out)
  /\ pc' = "done"
  /\ UNCHANGED <<stream, data, out, work, back, marks>>

-----------------------------------------------------------------------------
Compress   == CompressEmpty \/ CompressBegin \/ Extend \/ Flush \/ FlushLast
Decompress == \/ DecompressEmpty \/ DecompressOdd \/ DecompressBegin
              \/ CountPair \/ CountDone \/ ExpandPair \/ ExpandDone

Next == Compress \/ Decompress

Spec == Init /\ [][Next]_vars

-----------------------------------------------------------------------------
(* Properties.                                                             *)

\* decompress() gives back, byte for byte, what compress() was given.
RoundTrip == pc = "done" /\ stream = "own" => back = data

\* decompress() accepts every stream of compress(): it has even length and
\* no zero count, a run of MaxByte bytes included.
AcceptsOwnStreams == stream = "own" => pc # "threw"

Malformed(s) == Len(s) % 2 # 0 \/ \E k \in 1 .. Len(s) : k % 2 = 0 /\ s[k] = 0

\* decompress() throws on the malformed streams and on no other.
RejectsExactlyMalformed ==
  /\ pc = "threw" => Malformed(out)
  /\ pc = "done" => ~Malformed(out)

\* A malformed stream is rejected before a byte of it is expanded, however
\* far in its first zero count lies: the check inside the second loop of
\* decompress() never fires.
NothingExpandedOnReject == pc = "threw" => back = <<>>

\* compress() wastes no pair: a run is cut only where the byte changes or
\* where the count can hold no more.
MaximalRuns ==
  stream = "own" => \A k \in 1 .. Len(out) :
    k % 2 = 1 /\ k + 2 <= Len(out) /\ out[k] = out[k + 2] => out[k + 1] = MaxByte

-----------------------------------------------------------------------------
(* The inductive invariant.                                                *)

\* How much of data the emitted pairs stand for.
Covered ==
  CASE pc = "compress" -> 0
    [] pc = "scan"     -> i - run
    [] OTHER           -> Len(data)

\* The emitted pairs tile the covered prefix of data: pair k stands for the
\* bytes from marks[k] + 1 to marks[k + 1], all equal to its value.
Tiling ==
  /\ Len(out) = 2 * (Len(marks) - 1)
  /\ marks[1] = 0
  /\ marks[Len(marks)] = Covered
  /\ \A k \in 1 .. Len(marks) - 1 :
       /\ out[2 * k] > 0
       /\ marks[k + 1] = marks[k] + out[2 * k]
       /\ marks[k + 1] <= Len(data)
       /\ \A j \in marks[k] + 1 .. marks[k + 1] : data[j] = out[2 * k - 1]

\* The run being counted lies just before index i.
Scanning ==
  pc = "scan" =>
    /\ i \in 1 .. Len(data)
    /\ run \in 1 .. i
    /\ \A j \in i - run + 1 .. i : data[j] = current

\* The decompressed bytes are the prefix of data that pairs 1 .. i / 2 tile.
Prefix ==
  /\ pc = "expand" => Len(back) = marks[(i \div 2) + 1]
  /\ pc \in {"expand", "done"} => \A j \in 1 .. Len(back) : back[j] = data[j]
  /\ pc = "done" => Len(back) = Len(data)

\* The counts before index i of the pre-pass are not zero, and after it none.
Validated ==
  /\ pc \in {"count", "expand"} => Len(out) % 2 = 0
  /\ pc = "count" => /\ i % 2 = 1 /\ i <= Len(out) + 1
                     /\ \A k \in 1 .. Len(out) : k % 2 = 0 /\ k <= i => out[k] # 0
  /\ pc = "expand" => /\ i % 2 = 0 /\ i <= Len(out)
                      /\ \A k \in 1 .. Len(out) : k % 2 = 0 => out[k] # 0

\* The pair before the run being counted could not have taken its first byte.
Maximal ==
  pc = "scan" /\ Len(out) > 0 /\ out[Len(out) - 1] = current => out[Len(out)] = MaxByte

\* The conjunction that every step of the loops preserves.
RleInv ==
  /\ TypeOK
  /\ pc \in {"compress", "scan"} => stream = "own"
  /\ pc = "compress" => out = <<>>
  /\ stream = "own" => Tiling /\ Scanning /\ Prefix /\ Maximal /\ MaximalRuns
  /\ Validated
  /\ pc \notin {"expand", "done"} => back = <<>>
  /\ AcceptsOwnStreams
  /\ RejectsExactlyMalformed
=============================================================================
