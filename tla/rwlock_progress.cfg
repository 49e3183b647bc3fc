CONSTANTS
    Thread = {t1, t2, t3}
    None = None
    Calls = {"read_lock", "timed_read_lock", "write_lock", "try_write_lock"}
    CancelPoints = {}
    MayDestroy = FALSE
    MaxCalls = 2
SPECIFICATION FairSpec
INVARIANTS
    NoStrandedWaiter
PROPERTIES
    ImplementsSharedExclusive
    EveryCallReturns
