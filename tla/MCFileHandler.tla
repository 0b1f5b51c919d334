---------------------------- MODULE MCFileHandler -----------------------------
EXTENDS FileHandler, TLC

CONSTANTS a, b, c

MCThread   == {a, b, c}
MCContent  == {<<1, 2>>, <<2, 1, 1>>}
MCByte     == {1, 2}
MCSymmetry == Permutations(MCThread)
=============================================================================
