\* one contract: is a model output recorded before a person has decided?
SPECIFICATION Spec
CONSTANTS
    None = None
    lease = lease
    msa = msa
    Uploads = {lease}
    Workers = 1
    Durable = FALSE
    ClausesPer = 2
    Similar <- MCSimilar
    MaxFailures = 1
CHECK_DEADLOCK FALSE
INVARIANT
    ModelOutputPassesReview
