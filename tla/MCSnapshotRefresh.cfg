\* The scheduled refresh alone, with queries, cleanup and restarts.
SPECIFICATION FairSpec
CONSTANTS
    Refresh = {r1}
    Branch = {}
    AddIndex = {}
    Provider = {}
    Query = {q1, q2}
    KeepLast = 1
    MaxFailures = 2
    MaxVersion = 3
    SameSecond = FALSE
INVARIANT TargetStays
PROPERTIES RetentionBounds QueueDrains
CHECK_DEADLOCK FALSE
