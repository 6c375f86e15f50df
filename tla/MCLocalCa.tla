------------------------------ MODULE MCLocalCa ------------------------------
EXTENDS LocalCa, TLC

CONSTANTS l1, l2, l3, absent, empty

\* The launches differ in nothing.
Alike == Permutations(Launches)
=============================================================================
