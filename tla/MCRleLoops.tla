------------------------------ MODULE MCRleLoops ------------------------------
EXTENDS RleFunctional, SequencesExt

\* Bound on the length of an input, compressed or not.
CONSTANT MaxLen

MCInput == BoundedSeq(Byte, MaxLen)
=============================================================================
