SPECIFICATION Spec
CONSTANTS
    t1 = t1
    t2 = t2
    t3 = t3
    A = A
    B = B
    o1 = o1
    o2 = o2
    o3 = o3
INVARIANTS
    SubjectSound
    RateBound
    CountsWorkingDays
    AddsUp
    SubstrIsPart
PROPERTIES
    SingletonIsOnePerType
    EveryInstanceReturns
CHECK_DEADLOCK FALSE
