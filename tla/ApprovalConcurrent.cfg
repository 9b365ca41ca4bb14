\* two worker processes on one brief, chains of one and three steps; a request may die
SPECIFICATION FairSpec
CONSTANTS
    None = None
    w1 = w1
    w2 = w2
    b1 = b1
    b2 = b2
    anna = anna
    root = root
    Workers = {w1, w2}
    Users = {anna, root}
    BriefIds = {b1}
    UserRole <- MCUserRole
    Contexts <- MCMixedContexts
    MaxChain = 3
    MaxFailures = 1
CHECK_DEADLOCK FALSE
INVARIANTS
    VerdictIffChainClosed
    DecidedInOrder
    SeniorEnough
    AuditGapsAreFailures
PROPERTIES
    ImplementsGate
    EveryBriefGetsVerdict
