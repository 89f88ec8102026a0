SPECIFICATION MCSpec
CONSTANTS
    None = None
    Noise = {}
    Event = {e1, e2}
    Capturer = {c1, c2}
    MaxLines = 2
    MaxFiles = 2
    MaxRows = 1
    Rows = 3
    Times = 2
    x = x
    y = y
    Value = {x, y}
    Former = {p1, p2}
    Kinds <- SomeKinds
    MaxCollected = 1
SYMMETRY Symmetry
INVARIANTS
    CaptureCovers
    DeletionsResolved
PROPERTY ClaimsRelated
CHECK_DEADLOCK FALSE
