--------------------------- MODULE MCCStringSearch ---------------------------
(* Model checking of CStringSearch: two characters.                         *)
EXTENDS CStringSearch

MCChar == {1, 2}
==============================================================================
