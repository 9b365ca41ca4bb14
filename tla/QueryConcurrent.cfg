\* two workers with durable checkpoints run two questions at once; a node may raise
SPECIFICATION Spec
CONSTANTS
    None = None
    q1 = q1
    q2 = q2
    msa = msa
    nda = nda
    Threads = {q1, q2}
    Documents = {msa, nda}
    Workers = 2
    Durable = TRUE
    Routes = {"graph"}
    MaxRevisions = 0
    MaxTurns = 1
    MaxFailures = 1
SYMMETRY Symmetry
CHECK_DEADLOCK FALSE
INVARIANTS
    VerdictIsBacked
    AnswersAgree
    RemembersAnswersOnly
PROPERTIES
    VerdictIsFinal
    ImplementsLedger
