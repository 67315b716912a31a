CONSTANTS
    Thread = {t1, t2, t3, t4}
    KMin = 1
    KMax = 3
    Seed = 2
    SuccessThreshold = 2
SPECIFICATION FairSpec
INVARIANTS
    SlotsAccounted
    NoLostWakeup
PROPERTIES
    ExcessOnlyDrains
    AcquireReturns
