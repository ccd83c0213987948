------------------------------ MODULE MC_Storage ------------------------------
EXTENDS Storage, TLC

CONSTANTS w1, w2

MC_Writers == {w1, w2}
MC_Symmetry == Permutations(MC_Writers)
=============================================================================
