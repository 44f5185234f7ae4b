CONSTANTS
    Receivers = {r1, r2}
    Early = {r2}
    MaxTasks = 2
    LateStart = FALSE
SPECIFICATION FairSpec
INVARIANTS
    CancelStops
PROPERTIES
    CompletedMeansSeeding
    RunningNeverReplaced
    OpEnds
CHECK_DEADLOCK FALSE
