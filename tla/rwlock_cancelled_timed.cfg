CONSTANTS
    Thread = {t1, t2}
    None = None
    Calls = {"timed_read_lock", "write_lock"}
    CancelPoints = {"timed_read_lock"}
    MayDestroy = FALSE
    MaxCalls = 1
SPECIFICATION Spec
CHECK_DEADLOCK FALSE
INVARIANTS
    NoAbandonedMutex
