------------------------------ MODULE MCTaList -------------------------------
(* Positions before, at, inside and beyond the ends of a list.               *)
EXTENDS TaList
SomePositions == {-1, 0, 1, 2, 4}
=============================================================================
