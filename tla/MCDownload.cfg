CONSTANTS
    Count = 4
    Start = 1
    Worker = {w1, w2}
    MaxAttempts = 2
    PriorityCap = 1
SPECIFICATION FairSpec
INVARIANTS
    NoDuplicateWriters
    DoneCountsChunks
    JoinedBeforeCleanup
PROPERTIES
    ImplementsDelivery
    Returns
CHECK_DEADLOCK FALSE
