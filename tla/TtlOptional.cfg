CONSTANTS
    k1 = k1
    k2 = k2
    Workers = {w1}
    Keys <- MCKeys
    Ids <- MCRedisOnly
    Urls = {u1}
    NoUrl = NoUrl
    Ttls = {0, 1}
    Probes <- MCProbes
    WordSize = 2
    MaxTries = 2
    MaxRestarts = 0
SPECIFICATION Spec
INVARIANT TtlOptional
