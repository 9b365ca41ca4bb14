---------------------------- MODULE MCIngestion ----------------------------
EXTENDS Ingestion, TLC

CONSTANTS lease, msa

\* the first clauses of the two contracts are alike, and so are the two
\* clauses of each contract
MCSimilar ==
    {p \in Clauses \X Clauses : p[1][2] = p[2][2] \/ p[1][1] = p[2][1]}
=============================================================================
