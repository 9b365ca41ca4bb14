\* one question over every route with the default revision cap: raised nodes,
\* retries and restarts of the one process that holds the checkpoints
SPECIFICATION FairSpec
CONSTANTS
    None = None
    q1 = q1
    q2 = q2
    msa = msa
    nda = nda
    Threads = {q1}
    Documents = {msa}
    Workers = 1
    Durable = FALSE
    Routes = {"hybrid", "graph", "whole_document", "direct"}
    MaxRevisions = 3
    MaxTurns = 6
    MaxFailures = 2
CHECK_DEADLOCK FALSE
INVARIANTS
    RevisionsCappedAndAudited
    EndedRunIsOnRecord
PROPERTIES
    ReviewedQuestionCloses
