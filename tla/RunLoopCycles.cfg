SPECIFICATION FairSpec
CONSTANTS
    Plan <- ChainPlan
    Children <- NoChildren
    ParentOf <- NoParents
    Position <- ChainPosition
    Needs <- ChainNeeds
    InitRoute <- ChainRoute
    Classes = {"x"}
    MaxAttempts = 2
    RetryCycles = 1
    RespecOnRetry = TRUE
    ReopenStaleDependents = TRUE
    StopOnBlocked = TRUE
    FlatCycles = 1
    VolumeThreshold = 0
    InnerTurns = 1
    Weather = {"parks", "halts", "toolchain", "finalRed", "preflight", "red", "canary", "runtime", "dies", "limits"}
    Orders = {"stop", "pause"}
    MaxRevision = 1
    MaxOrders = 2
    MaxCrashes = 1
    CycleCap = 2
    NoTicket = NoTicket
INVARIANTS
    WorksOnlyReady
    FailedSpentTheBudget
PROPERTIES
    StopHonoured
    RunEnds
    NothingQueuedOnReturn
CHECK_DEADLOCK FALSE
