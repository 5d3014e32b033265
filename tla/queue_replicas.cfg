SPECIFICATION Spec
CONSTANTS
    Processes = {p1, p2}
    Deliveries = {1, 2, 3, 4}
    Channel <- EveryChannel
    Admins = {a1}
    NoAdmin = NoAdmin
    Unrenderable = {}
    Carriers = {1}
    MaxAttempts = 2
    BatchSize = 1
    MaxQueued = 1
    MaxFaults = 1
    MaxLostAnswers = 1
    MaxDelays = 1
    MaxManualRetries = 0
SYMMETRY Symmetry
INVARIANTS
    QueueInv
    NoConcurrentSends
