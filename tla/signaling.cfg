SPECIFICATION FairSpec
CONSTANTS
    a = a
    b = b
    c = c
    Node = {a, b, c}
    Pools <- MCPools
    PoolOf <- MCPoolOf
    Limit <- MCLimit
    Satisfied <- MCSatisfied
    Faulty = {a}
    MaxConns = 3
    MaxFaults = 1
INVARIANTS
    TypeOK
    PoolsBounded
    LiveObjectsAreKept
    MarksAreAttempts
    BlockedStayOut
PROPERTIES
    ConnectionsSettle
CHECK_DEADLOCK FALSE
