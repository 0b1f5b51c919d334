-------------------------------- MODULE Codec ---------------------------------
(***************************************************************************)
(* The three compression algorithms as functions of a byte sequence:       *)
(* RLECompression, IdentityCompression and AdaptiveCompression, which      *)
(* keeps whichever of the other two gives the shorter stream and says      *)
(* which one in a leading tag byte.  RleLoops models the loops behind the  *)
(* first.  An exception is the result Rejected.                            *)
(***************************************************************************)
EXTENDS Integers, Sequences

CONSTANTS
  MaxByte,   \* the greatest byte, and the run limit: both are 255
  TagR,      \* 'R'
  TagI,      \* 'I'
  Rejected   \* the exception of a decompress()

Byte == 0 .. MaxByte

ASSUME CodecAssumption ==
  /\ MaxByte \in Nat \ {0}
  /\ TagR \in Byte /\ TagI \in Byte /\ TagR # TagI
  /\ Rejected \notin Seq(Byte)

-----------------------------------------------------------------------------
(* RLECompression                                                          *)

Flushed(acc) ==
  IF acc.run = 0 THEN acc.out
  ELSE acc.out \o <<acc.current, acc.run % (MaxByte + 1)>>

Scan(acc, b) ==
  IF acc.run > 0 /\ b = acc.current /\ acc.run < MaxByte
  THEN [acc EXCEPT !.run = @ + 1]
  ELSE [out |-> Flushed(acc), current |-> b, run |-> 1]

\* The state of compress() behind each byte; entry 0 is before the first.
Scans(data) ==
  LET scans[n \in 0 .. Len(data)] ==
        IF n = 0 THEN [out |-> <<>>, current |-> 0, run |-> 0]
        ELSE Scan(scans[n - 1], data[n])
  IN  scans

\* Faulty variant: without the flush of the last run.
RleCompressCut(data) == Scans(data)[Len(data)].out

RleCompress(data) == Flushed(Scans(data)[Len(data)])

RleMalformed(s) ==
  Len(s) % 2 # 0 \/ \E k \in 1 .. Len(s) \div 2 : s[2 * k] = 0

\* out.insert(out.end(), n, v)
Fill(out, n, v) == out \o [j \in 1 .. n |-> v]

\* The output of decompress() behind each pair.
Expansions(s) ==
  LET expansions[k \in 0 .. Len(s) \div 2] ==
        IF k = 0 THEN <<>>
        ELSE Fill(expansions[k - 1], s[2 * k], s[2 * k - 1])
  IN  expansions

RleDecompress(s) ==
  IF RleMalformed(s) THEN Rejected ELSE Expansions(s)[Len(s) \div 2]

-----------------------------------------------------------------------------
(* IdentityCompression                                                     *)

IdentityCompress(data) == data

IdentityDecompress(s) == s

-----------------------------------------------------------------------------
(* AdaptiveCompression                                                     *)

\* Faulty variant: always the run-length stream.
AdaptiveCompressRleOnly(data) ==
  IF data = <<>> THEN <<>> ELSE <<TagR>> \o RleCompress(data)

\* A tie is kept raw.
AdaptiveCompress(data) ==
  IF data = <<>> THEN <<>>
  ELSE IF 1 + Len(RleCompress(data)) < 1 + Len(data)
       THEN <<TagR>> \o RleCompress(data)
       ELSE <<TagI>> \o data

AdaptiveDecompress(s) ==
  CASE s = <<>>                    -> <<>>
    [] s # <<>> /\ Head(s) = TagR  -> RleDecompress(Tail(s))
    [] s # <<>> /\ Head(s) = TagI  -> IdentityDecompress(Tail(s))
    [] OTHER                       -> Rejected
=============================================================================
