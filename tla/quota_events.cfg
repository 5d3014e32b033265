SPECIFICATION FairSpec
CONSTANTS
    Requests = {r1, r2}
    Keys = {k1, k2}
    Schedulers = {s1}
    LastPeriod = 1
    HardLimit = 1
    NoValue = NoValue
    MaxFaults = 1
    MaxDelays = 0
INVARIANTS
    MeteringInv
PROPERTIES
    HoldsEnd
