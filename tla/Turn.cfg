SPECIFICATION PictureSpec
CONSTANTS
    s = s
    m = m
    x = x
    t = t
    e = e
    q = q
    p = p
    g = g
    h = h
    Files = {s, m, x, t, e, q, p, g, h}
    Absent = Absent
    Lines = {"a", "b", "c", "e", "same", "d1", "d2", "n", "garbled", "gone", "imp", "lost", "call", "value", "v2",
             "foreign", "helper", "through", "drawn", "marker"}
    Refused = Refused
    Manifests = {m}
    Dependencies = {"d1", "d2", "n"}
    Garble = "garbled"
    Marker = "marker"
    Repeated = {"same"}
    ImportOf <- MCImportOf
    Untestable = {m, g, h}
    TestFiles = {t, e, q}
    Foreign = {"foreign"}
    Helper = "helper"
    Through = "through"
    Scopes <- MCScopes
    NeverDelegate = {p}
    Planned = {p}
    Found <- MCFound
    OwnTest = t
    Oversized = {x}
    Images = {g, h}
    Criteria <- MCCriteria
    ExecutorReplies <- MCExecutorReplies
    TesterReplies <- MCTesterReplies
    Weather = {"unavailable", "overflow", "uncollected", "stubborn"}
    FreezeTests = TRUE
    Formatter = TRUE
    QuarantineFailed = TRUE
    MaxAttempts = 3
    Cases <- MCCases
    ImageStall = 2
    PriorVerdicts = 2
    Issues = {{}, {"lock"}, {"lock", "wood"}}
    MaxRetries = 1
    MaxKills = 1
CHECK_DEADLOCK FALSE
INVARIANTS
    TypeOK
    WholeReplyLands
    LossesAreNamed
    TreeIsLeft
    OfferedIsNewest
    CardIsLeased
