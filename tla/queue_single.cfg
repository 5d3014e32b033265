SPECIFICATION SingleSpec
CONSTANTS
    Processes = {p1}
    Deliveries = {1, 2, 3, 4, 5, 6}
    Channel <- StuckAndEveryChannel
    Admins = {a1}
    NoAdmin = NoAdmin
    Unrenderable = {1, 2}
    Carriers = {3}
    MaxAttempts = 2
    BatchSize = 2
    MaxQueued = 3
    MaxFaults = 2
    MaxLostAnswers = 1
    MaxDelays = 0
    MaxManualRetries = 1
ACTION_CONSTRAINT WithinMishaps
INVARIANTS
    AttemptsAccounted
PROPERTIES
    QueueSteps
    OutboxSpec
    RenderableRowsDrain
