CONSTANTS
    Workers = {w1, w2}
    Keys = {k1}
    Urls = {u1, u2}
    NoUrl = NoUrl
    Ttls = {0, 1}
    BackfillTtl = 2
    MaxLag = 1
    MaxTime = 4
    MaxFaults = 2
SYMMETRY StoreSymmetry
SPECIFICATION Spec
INVARIANTS
    TypeOK
    CacheTracksRow
    ExpiryHonoured
    StaleBounded
