SPECIFICATION Spec
CONSTANTS
    PoolSize = 2
    Clients = {c1, c2}
    Workers = {w1, w2}
    MaxRequests = 4
    MaxThroughput = 2
    CursorSpan = 3
CHECK_DEADLOCK FALSE
INVARIANTS
    NodeForWork
    RelayFaithful
    SettledAtEnd
PROPERTY CallsReturn
