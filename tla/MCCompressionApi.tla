--------------------------- MODULE MCCompressionApi ---------------------------
EXTENDS FrontendCodec, SequencesExt

\* Bound on the length of a request body.
CONSTANT MaxLen

MCBody == BoundedSeq(Byte, MaxLen)
=============================================================================
