\* two worker processes decide the same step
SPECIFICATION Spec
CONSTANTS
    None = None
    w1 = w1
    w2 = w2
    b1 = b1
    b2 = b2
    anna = anna
    root = root
    Workers = {w1, w2}
    Users = {anna, root}
    BriefIds = {b1}
    UserRole <- MCUserRole
    Contexts <- MCDefaultContexts
    MaxChain = 4
    MaxFailures = 0
SYMMETRY Symmetry
CHECK_DEADLOCK FALSE
PROPERTIES
    DecidedStepsNeverEdited
