SPECIFICATION MCSpec
CONSTANTS
    None = None
    Item = {i1}
    Text = {x, y}
    Retired = {}
    Builder = {b1, b2}
    Reader = {r1}
    MaxCommits = 2
    MaxFaults = 1
    a = a
    b = b
    Doc = {a, b}
    Query = {q}
    Route = Route
    Allowed = {a}
    Reasons = {"sufficient_evidence", "no_answer_calibrated"}
    MaxRounds = 2
    MaxCalls = 3
    MaxChars = 3
    MaxEvaluations = 3
    MaxIds = 2
    HitChars = 2
    Size <- Sizes
    MaxFinal = 1
    Evaluated = {1, 4}
    MaxHead = 2
    Token = {t1, t2}
    Command = {c1, c2}
    MaxDecisions = 3
    n1 = n1
    n2 = n2
    n3 = n3
    e1 = e1
    e2 = e2
    e3 = e3
    e4 = e4
    e5 = e5
    Node = {n1, n2, n3}
    Id = {e1, e2, e3, e4, e5}
    Reads = {e1, e2, e4, e5}
    MaxNodes = 3
    MaxEdges = 3
    MaxPaths = 2
    MaxFacets = 2
INVARIANTS
    NothingDeleted
    WithinBounds
    ReleasedInScope
PROPERTY HybridRepaired
CHECK_DEADLOCK FALSE
