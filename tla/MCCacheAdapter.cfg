CONSTANTS
    Workers = {w1}
    Requests <- MCRequests
    Responses <- MCResponses
    PathsByPrefix <- MCPrefixes
    Capacity = 3
    MaxObject = 3
    Ttl = 1
    Stale = 1
    MaxTime = 1
SPECIFICATION AdapterSpec
INVARIANT AfterWritesCache
