SPECIFICATION Spec
CONSTANTS
    HdrSize = 2
    MinSize = 4
    TinyMax = 8
    MidiumMax = 8
    IncrMax = 2
    MaxSize = 11
    x = x
    b = b
    X = X
    UpperOf <- MCUpperOf
    Nul = Nul
    Junk = Junk
    Char <- MCChar
    Blank <- MCBlank
    Piece <- MCPiece
    Cases = {}
INVARIANTS
    TypeOK
    SizesAgree
    NoOverrun
PROPERTIES
    TerminatorKept
    ImplementsText
CHECK_DEADLOCK FALSE
