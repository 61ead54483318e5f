--------------------------- MODULE MCPoolPerNode ---------------------------
EXTENDS PoolPerNode, TLC
Symmetry == Permutations(Requests)
=============================================================================
