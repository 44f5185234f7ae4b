CONSTANTS
    Caller = {a, b, c}
    Conn = {x, y}
    NoConn = noconn
    MaxConn = 1
SPECIFICATION FairSpec
INVARIANTS
    PermitAccounting
    SocketsAccounted
PROPERTIES
    WaitersServed
    CloseDrains
CHECK_DEADLOCK FALSE
