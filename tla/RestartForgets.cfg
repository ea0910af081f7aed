CONSTANTS
    k1 = k1
    Workers = {w1}
    Keys <- MCKeys
    Urls = {u1}
    NoUrl = NoUrl
    Ttls = {0}
    Probes <- MCProbes
    WordSize = 2
    MaxTries = 2
    BackfillTtl = 1
    MaxLag = 1
    MaxTime = 2
    MaxFaults = 0
    MaxRestarts = 1
SPECIFICATION Spec
INVARIANT ExistingIdRedirects
