---------------------------- MODULE RleFunctional -----------------------------
(***************************************************************************)
(* The loops of RleLoops compute the functions RleCompress and             *)
(* RleDecompress of Codec, so what is checked of AdaptiveCompression and   *)
(* CompressionApi with the functions is checked of the loops.              *)
(***************************************************************************)
EXTENDS RleLoops

CONSTANTS TagR, TagI, Rejected

K == INSTANCE Codec

\* Pass by pass: compress()'s variables hold, before every byte, what Scans
\* says of the bytes read, and out in the end what RleCompress returns;
\* decompress()'s hold what Expansions says of the pairs read, it returns what
\* RleDecompress returns, on a foreign stream too, and throws where that rejects.
LoopsComputeCodec ==
  /\ pc = "scan" => [out |-> out, current |-> current, run |-> run] = K!Scans(data)[i]
  /\ stream = "own" /\ pc \notin {"compress", "scan"} => out = K!RleCompress(data)
  /\ pc = "expand" => back = K!Expansions(out)[i \div 2]
  /\ pc = "done" => back = K!RleDecompress(out)
  /\ pc = "threw" => K!RleDecompress(out) = Rejected
=============================================================================
