CONSTANTS
    Thread = {t1, t2, t3}
    None = None
    Calls = {"read_lock", "timed_read_lock", "try_read_lock", "write_lock", "timed_write_wait", "try_write_lock"}
    CancelPoints = {"read_lock", "write_lock"}
    MayDestroy = TRUE
    MaxCalls = 2
SPECIFICATION Spec
SYMMETRY Symmetry
CHECK_DEADLOCK FALSE
INVARIANTS
    TypeOK
    MutualExclusion
    RefCountMatchesHolders
    WaitingCountsMatchSleepers
    NoAbandonedMutex
    DestroyRefusesLastingUse
