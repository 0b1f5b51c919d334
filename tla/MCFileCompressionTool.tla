------------------------ MODULE MCFileCompressionTool -------------------------
EXTENDS FileCompressionTool, TLC

CONSTANTS f1, f2, f3, r1, r2, r3

MCFile == {f1, f2, f3}
MCRead == {r1, r2, r3}

Symmetry == Permutations(MCFile) \cup Permutations(MCRead)
=============================================================================
