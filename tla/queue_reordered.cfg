CONSTANTS
    Node = {n1, n2, n3}
    Null = Null
    MaxItems = 2
    InOrder = FALSE
SPECIFICATION Spec
INVARIANTS
    ReadsOnlyPublished
