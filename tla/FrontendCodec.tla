---------------------------- MODULE FrontendCodec -----------------------------
(***************************************************************************)
(* The second implementation of the compressed format: rle.ts and          *)
(* adaptive.ts of the page (src/frontend/src/lib), against what the API    *)
(* answers.  Codec has the C++ ones.  The loops of rle.ts begin with the   *)
(* first byte instead of an empty run, and decompress into an array whose  *)
(* length a first pass has computed, with fill() at an offset.  A throw is *)
(* the result Rejected.                                                    *)
(***************************************************************************)
EXTENDS CompressionApi

-----------------------------------------------------------------------------
(* rle.ts                                                                  *)

\* out.push(current, run) and, at the end, Uint8Array.from().
push(acc) == acc.out \o <<acc.current, acc.run % (MaxByte + 1)>>

\* Faulty variant: run <= 255.
scanTooFar(acc, b) ==
  IF b = acc.current /\ acc.run <= MaxByte
  THEN [acc EXCEPT !.run = @ + 1]
  ELSE [out |-> push(acc), current |-> b, run |-> 1]

scan(acc, b) ==
  IF b = acc.current /\ acc.run < MaxByte
  THEN [acc EXCEPT !.run = @ + 1]
  ELSE [out |-> push(acc), current |-> b, run |-> 1]

\* The first byte opens the first run.
scans(input) ==
  LET step[n \in 1 .. Len(input)] ==
        IF n = 1 THEN [out |-> <<>>, current |-> input[1], run |-> 1]
        ELSE scan(step[n - 1], input[n])
  IN  step

rleCompress(input) == IF input = <<>> THEN <<>> ELSE push(scans(input)[Len(input)])

value(input, k) == input[2 * k - 1]
count(input, k) == input[2 * k]

\* total behind each pair.
totals(input) ==
  LET step[k \in 0 .. Len(input) \div 2] == IF k = 0 THEN 0 ELSE step[k - 1] + count(input, k)
  IN  step

\* One turn of the second loop; fill() writes nothing beyond the array.
fill(input, acc, k) ==
  [out |-> [i \in 1 .. Len(acc.out) |->
              IF i \in acc.off + 1 .. acc.off + count(input, k)
              THEN value(input, k) ELSE acc.out[i]],
   off |-> acc.off + count(input, k)]

\* The array and the offset behind each pair.
fills(input) ==
  LET step[k \in 0 .. Len(input) \div 2] ==
        IF k = 0
        THEN [out |-> [i \in 1 .. totals(input)[Len(input) \div 2] |-> 0], off |-> 0]
        ELSE fill(input, step[k - 1], k)
  IN  step

rleDecompress(input) ==
  IF input = <<>> THEN <<>>
  ELSE IF Len(input) % 2 # 0 \/ \E k \in 1 .. Len(input) \div 2 : count(input, k) = 0
       THEN Rejected
       ELSE fills(input)[Len(input) \div 2].out

-----------------------------------------------------------------------------
(* adaptive.ts                                                             *)

adaptiveCompress(input) ==
  LET rle     == rleCompress(input)
      rleSize == 1 + Len(rle)
      idSize  == 1 + Len(input)
  IN  IF input = <<>> THEN <<>>
      ELSE IF rleSize < idSize THEN <<TagR>> \o rle ELSE <<TagI>> \o input

adaptiveDecompress(input) ==
  IF input = <<>> THEN <<>>
  ELSE CASE Head(input) = TagR -> rleDecompress(Tail(input))
         [] Head(input) = TagI -> Tail(input)
         [] OTHER              -> Rejected

-----------------------------------------------------------------------------
\* The page's codec and the API's are one format: for every file the page
\* would make the stream the API makes, and every body sent to /decompress it
\* would turn into the same file, or refuse when the API refuses.
FrontendAgrees ==
  request.method = "POST" =>
    /\ request.path = "/compress"   => response.body = adaptiveCompress(request.body)
    /\ request.path = "/decompress" =>
         adaptiveDecompress(request.body) =
           IF response.status = 200 THEN response.body ELSE Rejected
=============================================================================
