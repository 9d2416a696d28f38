---------------------------- MODULE OrderContract ----------------------------
(***************************************************************************)
(* What the order ledger promises the code above it, whatever the network, *)
(* the venue and crashes do: an order reaches the market only after its    *)
(* intent was committed, an intent declared void never reaches it, and the *)
(* fills the ledger reports only grow and are really there.                *)
(***************************************************************************)
EXTENDS Integers

CONSTANTS Rows, Qty

VARIABLES
    phase,      \* intended, committed or void, per order
    exposure,   \* quantity really executed at the venue
    reported    \* quantity the ledger reports as executed

cvars == <<phase, exposure, reported>>

CInit ==
    /\ phase    = [r \in Rows |-> "intended"]
    /\ exposure = [r \in Rows |-> 0]
    /\ reported = [r \in Rows |-> 0]

Commit(r) ==
    /\ phase[r] = "intended"
    /\ phase' = [phase EXCEPT ![r] = "committed"]
    /\ UNCHANGED <<exposure, reported>>

(* Void is final, and only an order that never executed may be void.       *)
Void(r) ==
    /\ phase[r] \in {"intended", "committed"}
    /\ exposure[r] = 0
    /\ phase' = [phase EXCEPT ![r] = "void"]
    /\ UNCHANGED <<exposure, reported>>

Execute(r) ==
    /\ phase[r] = "committed"
    /\ \E e \in (exposure[r] + 1)..Qty : exposure' = [exposure EXCEPT ![r] = e]
    /\ UNCHANGED <<phase, reported>>

Report(r) ==
    /\ phase[r] = "committed"
    /\ \E e \in (reported[r] + 1)..exposure[r] :
          reported' = [reported EXCEPT ![r] = e]
    /\ UNCHANGED <<phase, exposure>>

CNext == \E r \in Rows : Commit(r) \/ Void(r) \/ Execute(r) \/ Report(r)

CSpec == CInit /\ [][CNext]_cvars
=============================================================================
