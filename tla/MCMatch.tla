------------------------------- MODULE MCMatch -------------------------------
EXTENDS Match, TLC
Symmetry == Permutations(Ids)
=============================================================================
