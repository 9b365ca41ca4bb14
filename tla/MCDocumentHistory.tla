------------------------- MODULE MCDocumentHistory -------------------------
EXTENDS DocumentHistory, TLC

CONSTANTS w1, w2, lead, terms

MCSymmetry == Permutations({w1, w2}) \union Permutations({lead, terms})
=============================================================================
