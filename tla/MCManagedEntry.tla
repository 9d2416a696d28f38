--------------------------- MODULE MCManagedEntry ---------------------------
(* Bounds: a leg has two lots, so that it can fill in part; nothing else   *)
(* in the model grows without limit.                                       *)
EXTENDS ManagedEntry

MCLegQty == 2
=============================================================================
