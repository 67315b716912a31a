\* Two jobs of one repository, two workers, three events in any order.
SPECIFICATION FairSpec
CONSTANTS
    Job = {j1, j2}
    Key <- OneKey
    Workers = 2
    MaxEvents = 3
INVARIANTS CancelSticks ExclusiveUnlessCancelled TrackerForgets
PROPERTIES LateWritesRevokeNothing VisibleStaysFinished EveryJobEnds
CHECK_DEADLOCK FALSE
