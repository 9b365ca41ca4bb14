\* one process with checkpoints in memory ingests two contracts; errors and restarts
SPECIFICATION FairSpec
CONSTANTS
    None = None
    lease = lease
    msa = msa
    Uploads = {lease, msa}
    Workers = 1
    Durable = FALSE
    ClausesPer = 2
    Similar <- MCSimilar
    MaxFailures = 1
CHECK_DEADLOCK FALSE
INVARIANTS
    VerdictIsBacked
    SqlFollowsGraph
    AwaitingReviewIsComplete
PROPERTIES
    VerdictIsFinal
    ShownContractGetsVerdict
