CONSTANTS
    Receivers = {r1, r2}
    MaxCommands = 2
    MaxTasks = 1
    Nobody = nobody
SPECIFICATION FairSpec
INVARIANTS
    CancelKills
    ProbesKept
PROPERTIES
    CompletedMeansDone
    CommandOpEnds
CHECK_DEADLOCK FALSE
