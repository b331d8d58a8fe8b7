SPECIFICATION Spec
CONSTANTS
    Plan <- GuardPlan
    Children <- NoChildren
    ParentOf <- NoParents
    Position <- GuardPosition
    Needs <- GuardNeeds
    InitRoute <- GuardRoute
    Classes = {"x"}
    MaxAttempts = 1
    RetryCycles = 1
    RespecOnRetry = FALSE
    ReopenStaleDependents = TRUE
    StopOnBlocked = FALSE
    FlatCycles = 0
    VolumeThreshold = 0
    InnerTurns = 0
    Weather = {"halts"}
    Orders = {"retry", "retryAll", "retryOne", "release", "discharge"}
    MaxRevision = 1
    MaxOrders = 2
    MaxCrashes = 0
    CycleCap = 2
    NoTicket = NoTicket
INVARIANTS
    DoneIsCurrent
PROPERTIES
    LandedStaysLanded
CHECK_DEADLOCK FALSE
