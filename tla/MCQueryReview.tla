--------------------------- MODULE MCQueryReview ---------------------------
EXTENDS QueryReview, TLC

CONSTANTS q1, q2, msa, nda

Symmetry == Permutations(Threads) \union Permutations(Documents)
=============================================================================
