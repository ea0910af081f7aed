CONSTANTS
    Workers = {w1, w2}
    Requests <- MCRequests
    Responses <- MCResponses
    PathsByPrefix <- MCPrefixes
    Capacity = 2
    MaxObject = 3
    Ttl = 1
    Stale = 1
    MaxTime = 2
SYMMETRY WorkerSymmetry
SPECIFICATION Spec
INVARIANTS
    TypeOK
    Accounted
    LatestHeld
PROPERTIES
    EvictsOldest
