CONSTANTS
    Thread = {t1, t2, t3}
    None = None
    Calls = {"read_lock", "write_lock"}
    CancelPoints = {"write_lock"}
    MayDestroy = FALSE
    MaxCalls = 1
SPECIFICATION Spec
CHECK_DEADLOCK FALSE
INVARIANTS
    NoStrandedWaiter
