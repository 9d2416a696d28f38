---------------------------- MODULE ManagedOrder ----------------------------
(***************************************************************************)
(* The submission protocol of one ledger row against an exchange: the      *)
(* functions submitManagedChecked, queryManaged, abandonUnlandedOrder,     *)
(* recordManagedResult and cancelManaged of copytrader/                    *)
(* managed_execution.go.                                                   *)
(*                                                                         *)
(* The engine mutex serialises handlers, so at most one row is inside a    *)
(* handler (at[r] # "idle").  The venue, the network and the clock move    *)
(* between any two steps, and the process may die, or the store may refuse *)
(* a write, at any of them.                                                *)
(*                                                                         *)
(* OrderInit, OrderNext and the like carry the module's name because       *)
(* ManagedExecution_proofs extends this module beside ManagedExit.         *)
(***************************************************************************)
EXTENDS Integers, OrderLedger

CONSTANTS
    Rows,       \* ledger rows with an ENTRY_ or CLOSE_ role; one client ID each
    Market,     \* those of them whose order type is MARKET
    Qty,        \* ordered quantity, in lots
    Grace,      \* managedNotFoundGrace, in clock ticks
    MaxDelay    \* ticks after which a request that was sent has arrived or is lost

ASSUME RowsAssumption  == Market \subseteq Rows
ASSUME QtyAssumption   == Qty \in Nat \ {0}
(* The grace period is longer than any request can stay in the network:    *)
(* this is what 60 seconds is chosen for.                                  *)
ASSUME GraceAssumption == MaxDelay \in Nat /\ Grace \in Nat /\ MaxDelay < Grace

VARIABLES
    row,      \* durable ledger: status, order ID known?, executed quantity
    age,      \* ticks since SUBMITTING/UNKNOWN was written (row.UpdatedAt)
    at,       \* where the handler working on the row stands
    calls,    \* number of SubmitManagedOrder calls made with the row's client ID
    net,      \* the submit request: none, flight, landed, refused, lost
    flown,    \* ticks the request has been in flight
    venue     \* the exchange's order under the row's client ID

orderVars == <<row, age, at, calls, net, flown, venue>>

OrderTypeOK ==
    /\ row \in [Rows -> [status : RowStatus, known : BOOLEAN, exec : 0..Qty]]
    /\ age \in [Rows -> 0..Grace]
    /\ at \in [Rows -> {"idle", "send", "wait", "query"}]
    /\ calls \in [Rows -> Nat]
    /\ net \in [Rows -> {"none", "flight", "landed", "refused", "lost"}]
    /\ flown \in [Rows -> 0..MaxDelay]
    /\ venue \in [Rows -> [status : VenueStatus, exec : 0..Qty]]

(* newManagedOrder / newExitOrder: rows are committed as PLANNED.          *)
newManagedOrder == [status |-> "PLANNED", known |-> FALSE, exec |-> 0]

OrderInit ==
    /\ row   = [r \in Rows |-> newManagedOrder]
    /\ age   = [r \in Rows |-> 0]
    /\ at    = [r \in Rows |-> "idle"]
    /\ calls = [r \in Rows |-> 0]
    /\ net   = [r \in Rows |-> "none"]
    /\ flown = [r \in Rows |-> 0]
    /\ venue = [r \in Rows |-> [status |-> "ABSENT", exec |-> 0]]

NoHandler == \A r \in Rows : at[r] = "idle"

-----------------------------------------------------------------------------
(* What an order lookup may answer: the present record, or one that lags   *)
(* behind it (the reason recordManagedResult compares cumulative fills).   *)
Lagging(r) == {[status |-> WorkingStatus(e), exec |-> e] :
                  e \in {n \in 0..venue[r].exec : n < Qty}}
Views(r)   == {venue[r]} \cup Lagging(r)

(* Mutant: an answer is written whatever it says of the fills so far.      *)
recordManagedResult_Backwards(r, v) ==
    [status |-> v.status, known |-> TRUE, exec |-> v.exec]

(* The ledger row after a venue answer v: written unless the cumulative    *)
(* fills moved backwards, in which case the handler returns an error.      *)
recordManagedResult(r, v) ==
    IF v.exec < row[r].exec
    THEN row[r]
    ELSE [status |-> v.status, known |-> TRUE, exec |-> v.exec]

(* Mutants: no grace period; a SUBMITTING row left by a crash forgotten.   *)
abandonUnlandedOrder_NoGrace(r) ==
    ~ row[r].known /\ row[r].status \in Uncertain
abandonUnlandedOrder_UnknownOnly(r) ==
    ~ row[r].known /\ row[r].status = "UNKNOWN" /\ age[r] >= Grace

(* abandonUnlandedOrder: only a row without a venue order ID, only when    *)
(* its outcome was never learned, and only after the grace period.         *)
abandonUnlandedOrder(r) ==
    /\ ~ row[r].known
    /\ row[r].status \in Uncertain
    /\ age[r] >= Grace

-----------------------------------------------------------------------------
(* Mutant: recovery submits a row of unknown outcome again.                *)
BeginSubmit_RetryUnknown(r) ==
    /\ NoHandler
    /\ row[r].status \in {"PLANNED", "UNKNOWN"}
    /\ row' = [row EXCEPT ![r].status = "SUBMITTING"]
    /\ age' = [age EXCEPT ![r] = 0]
    /\ at'  = [at EXCEPT ![r] = "send"]
    /\ UNCHANGED <<calls, net, flown, venue>>

(* submitManagedChecked, up to the durable SUBMITTING write.  A deferred   *)
(* admission leaves the row as it was; a revoked one is AbandonPlanned.    *)
BeginSubmit(r) ==
    /\ NoHandler
    /\ row[r].status = "PLANNED"
    /\ row' = [row EXCEPT ![r].status = "SUBMITTING"]
    /\ age' = [age EXCEPT ![r] = 0]
    /\ at'  = [at EXCEPT ![r] = "send"]
    /\ UNCHANGED <<calls, net, flown, venue>>

(* The SubmitManagedOrder call leaves the process.                         *)
Send(r) ==
    /\ at[r] = "send"
    /\ calls' = [calls EXCEPT ![r] = @ + 1]
    /\ net'   = [net EXCEPT ![r] = "flight"]
    /\ flown' = [flown EXCEPT ![r] = 0]
    /\ at'    = [at EXCEPT ![r] = "wait"]
    /\ UNCHANGED <<row, age, venue>>

(* The call returned an order: record it; a MARKET order that is not       *)
(* terminal yet is queried at once.                                        *)
SubmitAnswered(r) ==
    /\ at[r] = "wait"
    /\ net[r] = "landed"
    /\ \E v \in Views(r) :
         /\ row' = [row EXCEPT ![r] = recordManagedResult(r, v)]
         /\ at'  = [at EXCEPT ![r] =
                      IF r \in Market /\ ~ orderTerminal(v.status)
                      THEN "query" ELSE "idle"]
    /\ UNCHANGED <<age, calls, net, flown, venue>>

(* ErrManagedOrderRejected.                                                *)
SubmitRejected(r) ==
    /\ at[r] = "wait"
    /\ net[r] = "refused"
    /\ row' = [row EXCEPT ![r].status = "REJECTED"]
    /\ at'  = [at EXCEPT ![r] = "idle"]
    /\ UNCHANGED <<age, calls, net, flown, venue>>

(* Any other error of the call (a timeout, a lost answer) says nothing of  *)
(* the request: UNKNOWN is written and the client ID is looked up.         *)
SubmitUncertain(r) ==
    /\ at[r] = "wait"
    /\ row' = [row EXCEPT ![r].status = "UNKNOWN"]
    /\ age' = [age EXCEPT ![r] = 0]
    /\ at'  = [at EXCEPT ![r] = "query"]
    /\ UNCHANGED <<calls, net, flown, venue>>

(* Mutant: reconciliation only looks up rows of unknown outcome.           *)
MayQuery_UncertainOnly(r) ==
    at[r] = "query" \/ (NoHandler /\ row[r].status \in Uncertain)

(* queryManaged runs inside a submit or a cancel, from a reconcile pass,   *)
(* and (engine.go, the add-fill precondition) over terminal entry rows.    *)
MayQuery(r) ==
    \/ at[r] = "query"
    \/ NoHandler /\ row[r].status \notin {"PLANNED", "ABANDONED"}

(* Mutant: an empty answer is recorded like an order.                      *)
QueryFound_Empty(r) ==
    /\ MayQuery(r)
    /\ \E v \in Views(r) : row' = [row EXCEPT ![r] = recordManagedResult(r, v)]
    /\ at' = [at EXCEPT ![r] = "idle"]
    /\ UNCHANGED <<age, calls, net, flown, venue>>

QueryFound(r) ==
    /\ MayQuery(r)
    /\ venue[r].status # "ABSENT"
    /\ \E v \in Views(r) : row' = [row EXCEPT ![r] = recordManagedResult(r, v)]
    /\ at' = [at EXCEPT ![r] = "idle"]
    /\ UNCHANGED <<age, calls, net, flown, venue>>

QueryNotFound(r) ==
    /\ MayQuery(r)
    /\ venue[r].status = "ABSENT"
    /\ row' = IF abandonUnlandedOrder(r)
              THEN [row EXCEPT ![r].status = "ABANDONED"]
              ELSE row
    /\ at' = [at EXCEPT ![r] = "idle"]
    /\ UNCHANGED <<age, calls, net, flown, venue>>

(* cancelManaged on a row that was never sent; also the outcome of a       *)
(* revoked admission.                                                      *)
AbandonPlanned(r) ==
    /\ NoHandler
    /\ row[r].status = "PLANNED"
    /\ row' = [row EXCEPT ![r].status = "ABANDONED"]
    /\ UNCHANGED <<age, at, calls, net, flown, venue>>

Live(r) == venue[r].status \in Working

MayCancel(r) ==
    /\ NoHandler
    /\ row[r].status # "PLANNED"
    /\ ~ orderTerminal(row[r].status)

(* Mutant: the fills in the cancel answer are not read.                    *)
CancelAnswered_FillsIgnored(r) ==
    /\ MayCancel(r)
    /\ Live(r)
    /\ venue' = [venue EXCEPT ![r].status = "CANCELED"]
    /\ row'   = [row EXCEPT ![r].status = "CANCELED"]
    /\ UNCHANGED <<age, at, calls, net, flown>>

(* The cancel call returned the cancelled order with its final fills.      *)
CancelAnswered(r) ==
    /\ MayCancel(r)
    /\ Live(r)
    /\ venue' = [venue EXCEPT ![r].status = "CANCELED"]
    /\ row'   = [row EXCEPT ![r] = [status |-> "CANCELED", known |-> TRUE,
                                    exec |-> venue[r].exec]]
    /\ UNCHANGED <<age, at, calls, net, flown>>

(* The cancel call failed, whether or not the venue applied it: the row is *)
(* looked up instead.                                                      *)
CancelUncertain(r) ==
    /\ MayCancel(r)
    /\ \/ venue' = venue
       \/ Live(r) /\ venue' = [venue EXCEPT ![r].status = "CANCELED"]
    /\ at' = [at EXCEPT ![r] = "query"]
    /\ UNCHANGED <<row, age, calls, net, flown>>

(* The process dies, the store refuses the write of an answer, or a lookup *)
(* fails: the handler ends where it stands and only durable state remains. *)
HandlerStops(r) ==
    /\ at[r] # "idle"
    /\ at' = [at EXCEPT ![r] = "idle"]
    /\ UNCHANGED <<row, age, calls, net, flown, venue>>

-----------------------------------------------------------------------------
(* External: the network and the exchange.                                 *)
Arrive(r) ==
    /\ net[r] = "flight"
    /\ \/ /\ net'   = [net EXCEPT ![r] = "landed"]
          /\ venue' = [venue EXCEPT ![r].status = "NEW"]
       \/ /\ net' \in {[net EXCEPT ![r] = "refused"], [net EXCEPT ![r] = "lost"]}
          /\ venue' = venue
    /\ UNCHANGED <<row, age, at, calls, flown>>

VenueFill(r) ==
    /\ Live(r)
    /\ \E e \in (venue[r].exec + 1)..Qty :
          venue' = [venue EXCEPT ![r] =
                      [status |-> IF e = Qty THEN "FILLED" ELSE "PARTIALLY_FILLED",
                       exec   |-> e]]
    /\ UNCHANGED <<row, age, at, calls, net, flown>>

(* A market order that finds no more liquidity, or an order the venue or   *)
(* the account owner ends.                                                 *)
VenueExpire(r) ==
    /\ Live(r)
    /\ venue' = [venue EXCEPT ![r].status = "EXPIRED"]
    /\ UNCHANGED <<row, age, at, calls, net, flown>>

(* One clock tick.  No request outlives MaxDelay; the gap between the      *)
(* SUBMITTING write and the call is not stretched over a tick.             *)
Tick ==
    /\ \A r \in Rows : at[r] # "send"
    /\ \A r \in Rows : net[r] = "flight" => flown[r] < MaxDelay
    /\ age'   = [r \in Rows |-> IF row[r].status \in Uncertain /\ age[r] < Grace
                                THEN age[r] + 1 ELSE age[r]]
    /\ flown' = [r \in Rows |-> IF net[r] = "flight" THEN flown[r] + 1 ELSE flown[r]]
    /\ UNCHANGED <<row, at, calls, net, venue>>

Step(r) ==
    \/ BeginSubmit(r) \/ Send(r)
    \/ SubmitAnswered(r) \/ SubmitRejected(r) \/ SubmitUncertain(r)
    \/ QueryFound(r) \/ QueryNotFound(r)
    \/ AbandonPlanned(r) \/ CancelAnswered(r) \/ CancelUncertain(r)
    \/ HandlerStops(r)
    \/ Arrive(r) \/ VenueFill(r) \/ VenueExpire(r)

OrderNext == Tick \/ \E r \in Rows : Step(r)

(* Fairness: a handler that began goes on or stops; requests arrive or are *)
(* lost; the clock advances; and reconcileLoop, which looks every row that *)
(* is not terminal up on each pass, is answered again and again, now and   *)
(* then with the present record.                                           *)
QueryCurrent(r) ==
    /\ QueryFound(r)
    /\ row'[r] = recordManagedResult(r, venue[r])

OrderFairness ==
    /\ WF_orderVars(Tick)
    /\ \A r \in Rows :
         /\ WF_orderVars(Send(r) \/ SubmitUncertain(r) \/ HandlerStops(r))
         /\ WF_orderVars(Arrive(r))
         /\ SF_orderVars(QueryCurrent(r))
         /\ SF_orderVars(QueryNotFound(r))

OrderSpec == OrderInit /\ [][OrderNext]_orderVars
OrderFairSpec == OrderSpec /\ OrderFairness
-----------------------------------------------------------------------------
(* Correctness.                                                            *)

(* "A submit is permitted exactly once after its intent was committed":    *)
(* across timeouts, lost answers, restarts and recovery passes, no client  *)
(* ID is handed to SubmitManagedOrder twice.                               *)
SubmitOnce == \A r \in Rows : calls[r] <= 1

(* A row recorded as REJECTED or ABANDONED has no order at the venue and   *)
(* none on its way there: giving up on a row never leaves exposure nobody  *)
(* accounts for, which is what managedNotFoundGrace is for.                *)
VoidedNeverLands ==
    \A r \in Rows : row[r].status \in Voided => net[r] \notin {"flight", "landed"}

(* Once a row says the order is over, its executed quantity is the venue's *)
(* final one: settlement may stop looking without losing a fill that raced *)
(* the cancel.                                                             *)
SettledIsExact ==
    \A r \in Rows : row[r].status \in Ended =>
        /\ venue[r].status = row[r].status
        /\ venue[r].exec = row[r].exec

(* The ledger implements its contract: orders execute only after the       *)
(* SUBMITTING write, void rows never execute, reported fills grow and are  *)
(* real.                                                                   *)
phaseOf(r) == CASE row[r].status = "PLANNED" -> "intended"
                [] row[r].status \in Voided -> "void"
                [] OTHER -> "committed"

Contract == INSTANCE OrderContract WITH
    phase    <- [r \in Rows |-> phaseOf(r)],
    exposure <- [r \in Rows |-> venue[r].exec],
    reported <- [r \in Rows |-> row[r].exec]

ContractSpec == Contract!CSpec

(* A submission whose outcome is unknown is resolved: by the venue's       *)
(* record of it or, when it never arrived, by the grace period.            *)
SubmissionResolves ==
    \A r \in Rows : row[r].status \in Uncertain ~> row[r].status \notin Uncertain

(* When the venue has ended an order, the ledger comes to hold its final   *)
(* record, although the process may restart and lookups may lag.           *)
LedgerConverges ==
    \A r \in Rows : venue[r].status \in Ended ~>
        (row[r].status = venue[r].status /\ row[r].exec = venue[r].exec)

(* The inductive invariant behind SubmitOnce, VoidedNeverLands and         *)
(* SettledIsExact, row by row.                                             *)
HandlerInv(r) ==       \* where a handler may stand, given the durable row
    /\ row[r].status = "PLANNED" => at[r] = "idle" /\ net[r] = "none"
    /\ at[r] = "send" => row[r].status = "SUBMITTING" /\ net[r] = "none" /\ age[r] = 0
    /\ at[r] = "wait" => row[r].status = "SUBMITTING" /\ net[r] # "none"

RequestInv(r) ==       \* the one request, and the order it creates
    /\ calls[r] = IF net[r] = "none" THEN 0 ELSE 1
    /\ net[r] = "landed" <=> venue[r].status # "ABSENT"
    /\ venue[r].status = "ABSENT" => venue[r].exec = 0

KnowledgeInv(r) ==     \* what the ledger knows is true
    /\ row[r].known <=> row[r].status \in Working \cup Ended
    /\ row[r].known => net[r] = "landed"
    /\ row[r].exec <= venue[r].exec
    /\ row[r].status \in Ended =>
          venue[r].status = row[r].status /\ venue[r].exec = row[r].exec

VoidInv(r) ==          \* giving up is only possible once nothing can arrive
    /\ row[r].status \in Voided => net[r] \notin {"flight", "landed"}
    /\ net[r] = "flight" /\ row[r].status \in Uncertain => age[r] <= flown[r]

OrderInv ==
    /\ OrderTypeOK
    /\ \A r \in Rows : HandlerInv(r) /\ RequestInv(r) /\ KnowledgeInv(r) /\ VoidInv(r)
=============================================================================
