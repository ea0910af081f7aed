CONSTANTS
    Clients = {c1, c2, c3}
    PoolSize = 2
    MaxConnections = 3
    MaxBreaks = 1
SPECIFICATION PoolSpec
INVARIANTS
    PoolTypeOK
    EachInOnePlace
    NoLostWakeup
