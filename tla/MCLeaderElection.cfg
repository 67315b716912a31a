CONSTANTS
  Node = {n1, n2}
  Services = 1
  MaxEvents = 2
  None = None
SPECIFICATION FairSpec
INVARIANTS HousekeepingOnLeader OneThreadEach NoOrphanLock CleanExit
PROPERTIES SplitBrainEnds LeaderEmerges
CHECK_DEADLOCK FALSE
