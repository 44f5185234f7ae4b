CONSTANTS
    Main = main
    Op = op
    Loops = {l1, l2}
    NoLoop = noloop
    Agents = {r1, r2}
    NoAgent = noagent
    Early = FALSE
SPECIFICATION FairSpec
INVARIANTS
    ModesExclusive
    OneReceiver
    StopsAreClean
PROPERTIES
    OpEnds
    Reconnects
CHECK_DEADLOCK FALSE
