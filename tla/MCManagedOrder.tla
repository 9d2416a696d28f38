--------------------------- MODULE MCManagedOrder ---------------------------
(* Two rows, one MARKET and one LIMIT: all the protocol distinguishes.     *)
EXTENDS ManagedOrder

CONSTANTS mkt, lmt

MCRows   == {mkt, lmt}
MCMarket == {mkt}
=============================================================================
