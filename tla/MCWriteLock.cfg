\* Two acquiring threads of one process, one of another, and a refresh thread.
SPECIFICATION FairSpec
CONSTANTS
    c1 = c1
    c2 = c2
    c3 = c3
    c4 = c4
    p1 = p1
    p2 = p2
    None = None
    Client = {c1, c2, c3, c4}
    Process = {p1, p2}
    Proc <- ClientProc
    Host <- TwoHost
    Refresher = {c4}
    Expiry = TRUE
    MaxCrashes = 2
INVARIANT GuardNotLeaked
PROPERTIES ImplementsLock  OrphanIsEvicted
