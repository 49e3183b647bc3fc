SPECIFICATION Spec
CONSTANTS
    Char <- MCChar
    SearchMax = 7
    MaxText = 7
    MaxPattern = 7
INVARIANTS
    TableHoldsBorders
    KmpIsFirst
    BoyerMooreIsFirst
    SundayIsFirst
    CountsApart
    ScansAgree
CHECK_DEADLOCK FALSE
