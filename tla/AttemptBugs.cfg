SPECIFICATION Spec
CONSTANTS
    Tickets <- BugTickets
    Files <- BugFiles
    TestFiles <- BugTests
    Unparsed <- BugUnparsed
    Compiled = TRUE
    Ignored = {}
    Git = FALSE
    Bugs = {"X"}
    Position <- BugPosition
    Found0 <- BugFound
    Scope0 <- BugScope
    OwnTest <- BugOwnTest
    Breaks <- BugBreaks
    Askable <- NothingAsked
    Diagnoses <- BugDiagnoses
    MaxAttempts = 1
    InnerTurns = 0
    BugHypotheses = 2
    FreezeTests = TRUE
    BaselineVerify = TRUE
    QuarantineFailed = TRUE
    Weather = {"kill", "edit"}
    MaxCycles = 1
    MaxKills = 1
    MaxEdits = 1
PROPERTIES
    DebtIsKept
    FixedMeansReproductionPasses
    ReproductionUntouched
CHECK_DEADLOCK FALSE
