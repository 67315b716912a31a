\* Every kind of job at once.
SPECIFICATION Spec
CONSTANTS
    Refresh = {r1}
    Branch = {b1}
    AddIndex = {a1}
    Provider = {p1}
    Query = {q1, q2}
    KeepLast = 1
    MaxFailures = 1
    MaxVersion = 2
    SameSecond = FALSE
SYMMETRY Symmetry
INVARIANT PinnedStays
CHECK_DEADLOCK FALSE
