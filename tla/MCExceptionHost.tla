-------------------------- MODULE MCExceptionHost ---------------------------
(* Two types, one derived from the other, and the clause lists of the      *)
(* landing pads: find_matching_catch_3 to _5.                              *)
EXTENDS ExceptionHost

CONSTANTS base, derived

Hierarchy == {<<base, derived>>}
Pads == {<<CatchAll>>, <<derived>>, <<derived, CatchAll>>, <<base, derived>>}
=============================================================================
