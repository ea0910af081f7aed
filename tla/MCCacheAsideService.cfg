CONSTANTS
    k1 = k1
    Workers = {w1, w2}
    Keys <- MCKeys
    Urls = {u1, u2}
    NoUrl = NoUrl
    Ttls = {0, 1}
    Probes <- MCProbes
    WordSize = 2
    MaxTries = 2
    BackfillTtl = 1
    MaxLag = 1
    MaxTime = 2
    MaxFaults = 2
    MaxRestarts = 1
SYMMETRY ServiceSymmetry
SPECIFICATION Spec
INVARIANTS
    RedirectTrue
    AckedIdRedirects
PROPERTIES
    KeepsPromise
