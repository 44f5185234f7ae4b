CONSTANTS
    Conn = {c1, c2}
    MaxConns = 2
    SlotCap = 2
    SlowCap = 1
    MaxTasks = 2
    NoFile = none
SPECIFICATION FairSpec
INVARIANTS
    ServedIsOpen
    CacheOutlivesFile
    CloseIsClean
PROPERTIES
    CloseReturns
CHECK_DEADLOCK FALSE
