SPECIFICATION FairSpec
CONSTANTS
    Plan <- SplitGuardPlan
    Children <- SplitChildren
    ParentOf <- SplitParents
    Position <- SplitGuardPosition
    Needs <- SplitGuardNeeds
    InitRoute <- SplitGuardRoute
    Classes = {"x"}
    MaxAttempts = 1
    RetryCycles <- Unlimited
    RespecOnRetry = TRUE
    ReopenStaleDependents = TRUE
    StopOnBlocked = FALSE
    FlatCycles = 0
    VolumeThreshold = 1
    InnerTurns = 0
    Weather = {"parks", "halts", "runtime"}
    Orders = {}
    MaxRevision = 1
    MaxOrders = 0
    MaxCrashes = 0
    CycleCap = 2
    NoTicket = NoTicket
INVARIANTS
    QueuedCanBeResumed
PROPERTIES
    EvidenceEndsRetries
    DoneRunMeansLanded
    SettledStaysParked
    GateOpensOverAll
CHECK_DEADLOCK FALSE
