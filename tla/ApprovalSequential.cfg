\* one worker process, as the Dockerfile starts it
SPECIFICATION Spec
CONSTANTS
    None = None
    w1 = w1
    w2 = w2
    b1 = b1
    b2 = b2
    anna = anna
    root = root
    Workers = {w1}
    Users = {anna, root}
    BriefIds = {b1, b2}
    UserRole <- MCUserRole
    Contexts <- MCDefaultContexts
    MaxChain = 4
    MaxFailures = 1
SYMMETRY Symmetry
CHECK_DEADLOCK FALSE
INVARIANTS
    RefusalEndsChain
    VerdictIsLastDecision
    AuditMatchesDecision
    VersionsDistinct
PROPERTIES
    DecidedStepsNeverEdited
