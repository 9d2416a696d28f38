------------------------- MODULE MCTakeProfitLadder -------------------------
(* Bounds: two levels of one and of two lots, so that the second can fill  *)
(* in part; an update offers the position half and half.                   *)
EXTENDS TakeProfitLadder

MCRecipe == <<1, 2>>
MCRatios == <<50, 50>>
=============================================================================
