SPECIFICATION Spec
CONSTANTS
    u1 = u1
    u2 = u2
    Occurrences = {o1, o2, o3}
    Users = {u1, u2}
    Rules <- DigestThenMandatory
    OptedOut = {u2}
    QuietHalves = {0}
    QuietMode = "DEFER"
    AllowCritical = TRUE
    Publishers = {p1, p2}
    Schedulers = {}
    None = None
    LastHalf = 3
    MaxFaults = 2
SYMMETRY Symmetry
INVARIANTS
    PublicationInv
    LossesExplained
