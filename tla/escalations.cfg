SPECIFICATION FairSpec
CONSTANTS
    u1 = u1
    u2 = u2
    Occurrences = {o1, o2}
    Users = {u1}
    Rules <- NoRules
    OptedOut = {}
    QuietHalves = {}
    QuietMode = "DEFER"
    AllowCritical = TRUE
    Publishers = {p1}
    Schedulers = {s1, s2}
    None = None
    LastHalf = 0
    MaxFaults = 2
INVARIANTS
    RunsSound
PROPERTIES
    ClosedNotEscalated
    RunsEnd
