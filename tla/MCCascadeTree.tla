--------------------------- MODULE MCCascadeTree ---------------------------
(***************************************************************************)
(* Values for the model checker: boxes that share minima and maxima with   *)
(* each other, and windows that move each bound both ways, over ties, to   *)
(* where there is no region, and a point.                                  *)
(***************************************************************************)
EXTENDS CascadeTree

Box(a, b, c, d) == [min |-> <<a, b>>, max |-> <<c, d>>]

MCHeight  == [k \in Keys |-> CASE k = 2 -> 2 [] k = 3 -> 3 [] OTHER -> 1]
MCBoxes   == {Box(1, 1, 3, 3), Box(1, 2, 2, 3), Box(2, 1, 4, 4), Box(2, 1, 3, 2), Box(3, 3, 5, 4)}
MCWindows == {Box(1, 1, 2, 2), Box(2, 2, 2, 2), Box(2, 2, 6, 6), Box(3, 1, 4, 3), Box(1, 3, 4, 5)}
=============================================================================
