CONSTANTS
    Documents <- MCDocuments
    MinChars = 2
    ChunkSize = 4
    Overlap = 2
    None = None
    Workers = {w1, w2}
    ChunkSets <- MCChunkSets
    Meta <- MCMeta
    Queries <- MCQueries
    HitsPerList = 2
    FusionK = 2
    FinalK = 1
    SearchesInFlight = 1
    Processes = {p1, p2}
    Keys = {k1, k2}
    MaxRequests = 2
    Window = 2
    MaxTime = 3

SPECIFICATION Spec

INVARIANTS
    DocumentIsCovered
    ChunksSound
    IndexHoldsOwnDocuments
    FilterIsExact
    BestAreCandidates
    LimitIsExact

PROPERTIES
    RerunAddsNothing
