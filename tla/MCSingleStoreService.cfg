CONSTANTS
    k1 = k1
    k2 = k2
    Workers = {w1, w2}
    Keys <- MCKeys
    Ids <- MCIds
    Urls = {u1, u2}
    NoUrl = NoUrl
    Ttls = {0, 1}
    Probes <- MCProbes
    WordSize = 2
    MaxTries = 2
    MaxRestarts = 1
SYMMETRY ServiceSymmetry
SPECIFICATION Spec
INVARIANTS
    TypeOK
    AckedStored
    AckedIdRedirects
    RedirectTrue
    FailsForCause
