CONSTANTS
    Workers = {w1, w2}
    Keys = {c1, c2}
    Rate = 2
    Burst = 6
    Cost = 3
    MaxClock = 5
    WindowKeys = {c3}
    Rps = 1
    Life = 2
    MaxCalls = 3
    MaxTime = 2
    MaxFaults = 2
SYMMETRY LimiterSymmetry
SPECIFICATION LimiterSpec
INVARIANTS
    TypeOK
    WindowBound
    AdmittedPerSecond
    RefusedOverLimit
    CountersEnd
PROPERTIES
    RefusedOnlyWhenRecent
