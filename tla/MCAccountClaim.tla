--------------------------- MODULE MCAccountClaim ---------------------------
(* Two traders in processes of their own, sharing a managed account (acA)  *)
(* and an account of another venue (acB).                                  *)
EXTENDS AccountClaim, TLC
CONSTANTS t1, t2, acA, acB, procA, procB
TwoHomes == (t1 :> procA) @@ (t2 :> procB)
=============================================================================
