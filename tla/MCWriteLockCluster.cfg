\* Two processes that acquire and release.
SPECIFICATION Spec
CONSTANTS
    c1 = c1
    c2 = c2
    c3 = c3
    c4 = c4
    p1 = p1
    p2 = p2
    None = None
    Client = {c1, c3}
    Process = {p1, p2}
    Proc <- ClientProc
    Host <- TwoHost
    Refresher = {}
    Expiry = FALSE
    MaxCrashes = 0
INVARIANT MutualExclusion
