SPECIFICATION Spec
CONSTANTS
    Planned = {c1, c2, cq}
    Stated = {}
    Proposable = {r1, soft, more, whole}
    Entailed = {}
    Pinning = {whole}
    Absent = Absent
    Sentences <- MCSentences
    Figures = {n}
    Marked = {D}
    Plain <- MCPlain
    Taboos = {w}
    Excuses = {w}
    Inlined = {long}
    Pins <- MCPins
    Files = {f, g, h, tg, tq, ts, away}
    TestFiles = {tg, tq, ts}
    Outside = {away}
    BuildOf <- MCBuildOf
    Plan = {p, q}
    Children <- MCChildren
    ParentOf <- MCParentOf
    Position <- MCPosition
    FileOrder <- MCFileOrder
    MaxChildren = 2
    PartOf = PartOf
    Roles = {"planner", "executor", "reviewer"}
    Passes = 2
    MajorityRepeats = FALSE
    ReviseBetweenPasses = TRUE
    DeclaredNeeds <- MCNeeds
    PlanSpec <- MCSpec
    PlanCriteria <- MCCriteria
    PlanScope <- MCScope
    PlanContext <- MCContext
    Bugs = {q}
    Guarded <- MCGuarded
    Disputed <- MCDisputed
    Replies = {"sign", "object", "error"}
    Rewrites <- MCRewrites
    Splits <- MCSplits
    Diagnoses <- MCDiagnoses
    MaxCycles = 1
    MaxCauses = 1
    MaxSplitDepth = 2
    MaxCrashes = 1
    p = p
    q = q
    p1 = p1
    p2 = p2
    p3 = p3
    p4 = p4
    n = n
    D = D
    d = d
    w = w
    long = long
    cause = cause
    f = f
    g = g
    h = h
    tg = tg
    tq = tq
    ts = ts
    away = away
    c1 = c1
    c2 = c2
    cq = cq
    r1 = r1
    soft = soft
    more = more
    whole = whole
    v = v
INVARIANTS
    BuiltAsAgreed
    PlanStands
    PiecesCoverParent
    NeedsAcyclic
CHECK_DEADLOCK FALSE
