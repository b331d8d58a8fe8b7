SPECIFICATION FairSpec
CONSTANTS
    Roles = {"executor", "reviewer", "tester", "planner"}
    Models = {"shared", "plain", "tiny"}
    ModelOf <- MCModelOf
    ReadTools = TRUE
    ToolModels = {"shared"}
    ToolTurns = 4
    ContextWindow <- MCContextWindow
    MaxOutput <- MCMaxOutput
    SafetyMargin = 1
    Opening <- MCOpening
    Limits <- MCLimits
    Requested <- MCRequested
    AnswerSizes = {1}
    NoteSize = 1
    ChosenReasoning = {"plain"}
    Headers <- MCHeaders
    UnknownReset = 2
    Unknown = Unknown
    Weather = {"stop", "slow", "limited", "fails", "breaks", "thinks"}
    None = None
    Kind <- MCKind
    LineCount <- MCLineCount
    Defined <- MCDefined
    Entries <- MCEntries
    Matching <- MCMatching
    Garbled = Garbled
    DefaultLines = 5
    MaxMatches = 3
    MaxEntries = 2
    MaxContext = 2
    MaxResult = 4
    NoticeSize = 1
INVARIANTS
    WithinAllowance
    AskedToAnswer
PROPERTIES
    ConversationEnds
