SPECIFICATION FrontOfficeSpec
CONSTANTS
    Keys <- InventoryKeys
    LastPeriod = 1
    HardLimit = 1
    NoValue = NoValue
    Opportunities = {o1, o2}
    Requests = {r1, r2}
    Operations <- AllOperations
    MaxFaults = 1
    MaxDelays = 1
    MaxRegrants = 1
    MaxReconciles = 1
    MaxDisturbances = 1
    Stages = {s1, s2, s3}
    FirstStage = s1
    Deals = {d1}
    Clerks = {r1, r2}
    NoStage = NoStage
    NoDeal = NoDeal
    TerminalTypes = {"NONE", "WON"}
    MaxCalls = 2
    Products = {p1}
    Pricers = {r1, r2}
    Quoters = {q1}
    NoProduct = NoProduct
    Inputs = {1, 2}
    LastRate = 2
    LastInstant = 2
    Lines = {o1, o2}
    Sellers = {r1, r2}
    NoLine = NoLine
    Amounts = {1, 2}
    Meetings = {m1}
    Organizers = {r1, r2}
    NoMeeting = NoMeeting
    LastTime = 2
    MaxSettings = 1
    Questions = {k1}
    Askers = {r1, r2}
    Members = {u1, u2, u3}
    Creator = u1
    Removers = {r1, r2}
    NoQuestion = NoQuestion
    NoMember = NoMember
    Uploads = {o1}
SYMMETRY Symmetry
CHECK_DEADLOCK FALSE
INVARIANTS
    InventoryInv
    PipelineInv
    PricesInv
    LinesInv
    MeetingsInv
    ConversationsInv
    AttachmentsInv
