CONSTANTS
    Thread = {t1, t2}
    None = None
    Calls = {"read_lock", "write_lock"}
    CancelPoints = {}
    MayDestroy = TRUE
    MaxCalls = 1
SPECIFICATION Spec
CHECK_DEADLOCK FALSE
INVARIANTS
    DestroyRefusesEstablishedUse
