--------------------------- MODULE MCManagedExit ---------------------------
(* One full close and one partial exit.                                    *)
EXTENDS ManagedExit

CONSTANTS full, part

MCSignals   == {full, part}
MCFullClose == {full}
=============================================================================
