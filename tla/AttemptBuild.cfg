SPECIFICATION Spec
CONSTANTS
    Tickets <- BuildTickets
    Files <- BuildFiles
    TestFiles <- BuildTests
    Unparsed = {}
    Compiled = FALSE
    Ignored = {}
    Git = TRUE
    Bugs = {}
    Position <- BuildPosition
    Found0 <- BuildFound
    Scope0 <- BuildScope
    OwnTest <- BuildOwnTest
    Breaks <- BuildBreaks
    Askable <- BuildAskable
    Diagnoses <- NoDiagnoses
    MaxAttempts = 2
    InnerTurns = 2
    BugHypotheses = 1
    FreezeTests = TRUE
    BaselineVerify = TRUE
    QuarantineFailed = TRUE
    Weather = {}
    MaxCycles = 1
    MaxKills = 0
    MaxEdits = 0
PROPERTIES
    IsTransaction
CHECK_DEADLOCK FALSE
