------------------------------ MODULE MCCString ------------------------------
(* Model checking of CString: characters, and the values of the operands.   *)
EXTENDS CString

CONSTANTS x, X, b

MCChar == {x, X, b}
MCBlank == {b}
MCUpperOf == [c \in {x} |-> X]
MCPiece == {<<>>, <<x>>, <<b, x, b>>}
==============================================================================
