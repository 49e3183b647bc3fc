SPECIFICATION Spec
CONSTANTS
    Thread = {t1, t2, t3}
    Object = {o1, o2, o3, o4}
    None = None
    MaxPoolSize = 2
    InitSize = {0, 2, 3}
    MayThrow = TRUE
    LonePushes = FALSE
    Slots = 8
SYMMETRY MCSymmetry
INVARIANTS
    NoObjectLost
CHECK_DEADLOCK FALSE
