CONSTANTS
    Node = {n1, n2, n3, n4}
    Null = Null
    MaxItems = 5
    InOrder = TRUE
SPECIFICATION FairSpec
INVARIANTS
    TypeOK
    ReadsOnlyPublished
    NoUseAfterFree
    NoLeak
    EmptyAnswerIsRight
    SizeAccounts
PROPERTIES
    ImplementsFifo
    EveryItemGetsThrough
