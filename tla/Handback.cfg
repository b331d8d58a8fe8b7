SPECIFICATION Spec
CONSTANTS
    Planned = {"o1", "o2"}
    Stated = {"h"}
    Proposable = {"r1", "m"}
    Entailed = {"m"}
    Pinning = {}
    Hands = {h1, h2, h3}
    Kinds = {"advise", "criteria", "release", "discharge", "retry"}
    Beside = {"advise", "criteria", "release", "retry"}
    AtOnce = 1
    InitRoute = "withheld"
    MaxAttempts = 1
    Ratifies = TRUE
    Reachable = TRUE
    MaxSpec = 2
    MaxCycles = 1
INVARIANTS
    DoneMeansJudged
    ReleasedOnRecord
PROPERTIES
    OnlySignOffMovesTheFloor
    NotesKept
    AnchorKept
SYMMETRY AnyHand
CHECK_DEADLOCK FALSE
