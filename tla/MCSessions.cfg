CONSTANTS
    Workers = {w1, w2}
    Clients = {c1, c2}
    MaxAge = 1
    MaxSessions = 3
    MaxRequests = 4
    MaxTime = 2
SYMMETRY SessionSymmetry
SPECIFICATION Spec
INVARIANTS
    TypeOK
    OwnData
    NotRevived
PROPERTIES
    KeptWhileUsed
