----------------------------- MODULE ManagedExit -----------------------------
(***************************************************************************)
(* The durable exit of one trade: executeManagedCloseAmount,               *)
(* reconcileManagedCloseStep, resubmitManagedExit, abandonManagedExit and  *)
(* supersedePartialExit of copytrader/managed_execution.go, driven by      *)
(* author signals (routeClose), by the reconcile loop and by the recovery  *)
(* of unfinished actions.                                                  *)
(*                                                                         *)
(* Handlers run under the engine mutex: one at a time (hand.at), each a    *)
(* sequence of steps separated by durable writes and venue calls, any of   *)
(* which may be the last before a crash.  Single orders behave as          *)
(* OrderContract says; how the ledger row keeps that contract is module    *)
(* ManagedOrder.  Quantities are lots.                                     *)
(***************************************************************************)
EXTENDS Integers, FiniteSets, OrderLedger

CONSTANTS
    Signals,        \* author signals that ask this trade to exit
    FullClose,      \* those that ask for all of it; the others reduce by half
    None,           \* no signal: the handler is a reconcile pass
    StartQty,       \* position when the trade is first asked to exit
    LateFill,       \* lots of the entry that may still fill
    MaxResubmits,   \* maxExitResubmits
    MinLot,         \* smallest quantity the venue accepts
    MaxOrders,      \* bound on exit orders ever created
    Breakeven,      \* ctx.BreakevenApplied
    MaxOpens,       \* bound on positions the account owner opens on the same
                    \* symbol and side after the trade is over
    OpenQty         \* and their quantity

ASSUME ExitAssumption ==
    /\ FullClose \subseteq Signals /\ None \notin Signals
    /\ StartQty \in Nat /\ LateFill \in Nat /\ MaxResubmits \in Nat
    /\ MinLot \in Nat \ {0} /\ MaxOrders \in Nat \ {0}
    /\ Breakeven \in BOOLEAN /\ MaxOpens \in Nat /\ OpenQty \in Nat \ {0}

VARIABLES
    state,    \* ctx.State
    intent,   \* ctx.ClosePendingJSON; row 0 when empty
    order,    \* exit rows, in creation order
    made,     \* how many of them exist
    market,   \* the venue's side of each exit order
    action,   \* journal status of each signal's CLOSE/REDUCE action
    hand,     \* the running handler
    pos,      \* the position on the symbol and side
    shown,    \* the position as a fresh read reports it
    entry,    \* lots of the entry still working at the venue
    missed,   \* posMissSeen: one flat read so far (lost on restart)
    opens     \* times the account owner opened the side again

vars == <<state, intent, order, made, market, action, hand, pos, shown, entry, missed, opens>>

Gen == 1..MaxOrders
MaxPos == StartQty + LateFill + MaxOpens * OpenQty

(* The trade's state while no exit is pending.                             *)
Resting == IF Breakeven THEN "BREAKEVEN" ELSE "OPEN"

NoIntent == [row |-> 0, full |-> FALSE, attempts |-> 0, seen |-> "no"]
NoOrder  == [signal |-> None, qty |-> 0, status |-> "PLANNED", exec |-> 0]
Idle     == [at |-> "idle", by |-> None, retry |-> FALSE, allow |-> TRUE, full |-> FALSE,
             left |-> {}]

(* market[i].net is what became of the submit request of order i; seen     *)
(* says whether a residual position was seen once, or again 10s later.     *)
TypeOK ==
    /\ state \in {"OPEN", "BREAKEVEN", "CLOSE_PENDING", "CLOSED"}
    /\ intent \in [row : 0..MaxOrders, full : BOOLEAN, attempts : 0..MaxResubmits,
                   seen : {"no", "once", "later"}]
    /\ order \in [Gen -> [signal : Signals \cup {None}, qty : 0..MaxPos,
                          status : RowStatus, exec : 0..MaxPos]]
    /\ made \in 0..MaxOrders
    /\ market \in [Gen -> [net : {"none", "flight", "live", "over", "lost"}, exec : 0..MaxPos]]
    /\ action \in [Signals -> {"none", "executing", "uncertain", "done", "skipped", "rejected"}]
    /\ hand \in [at : {"idle", "pass", "enter", "submit", "settle", "decide", "supersede", "mark",
                 "abandoned"},
                 by : Signals \cup {None}, retry : BOOLEAN, allow : BOOLEAN, full : BOOLEAN,
                 left : SUBSET Signals]
    /\ pos \in 0..MaxPos /\ shown \in 0..MaxPos
    /\ entry \in 0..LateFill
    /\ missed \in BOOLEAN
    /\ opens \in 0..MaxOpens

Init ==
    /\ state = Resting
    /\ intent = NoIntent
    /\ order = [i \in Gen |-> NoOrder]
    /\ made = 0
    /\ market = [i \in Gen |-> [net |-> "none", exec |-> 0]]
    /\ action = [s \in Signals |-> "none"]
    /\ hand = Idle
    /\ pos = StartQty /\ shown = StartQty
    /\ entry = LateFill
    /\ missed = FALSE
    /\ opens = 0

-----------------------------------------------------------------------------
Pending  == intent.row # 0
Current  == order[intent.row]          \* the row the intent names
exitRows(s) == {i \in 1..made : order[i].signal = s}
Done(i)  == orderTerminal(order[i].status)

FloorQuantity(q) == IF q < MinLot THEN 0 ELSE q

Position == <<pos, shown>>
Venue  == <<market, pos, shown, entry>>
Ledger == <<order, made>>

(* A handler of signal s ends: processInstruction journals a first         *)
(* execution's outcome; recovery only journals success.                    *)
Journal(table, err, skip) ==
    IF hand.by = None THEN table
    ELSE [table EXCEPT ![hand.by] =
            CASE hand.retry /\ err  -> @
              [] hand.retry /\ ~err -> "done"
              [] ~hand.retry /\ err -> "uncertain"
              [] ~hand.retry /\ ~err /\ skip -> "skipped"
              [] OTHER -> "done"]

(* Recovery goes on with the pass it runs in.                              *)
Return(table, err, skip) ==
    /\ action' = Journal(table, err, skip)
    /\ hand' = IF hand.retry THEN [Idle EXCEPT !.at = "pass", !.left = hand.left] ELSE Idle

(* reconcileManagedCloseStep returns to its caller: to the handler's end,  *)
(* or to the full close that only wanted the partial exit settled first.   *)
StepReturns(table, err, skip) ==
    IF hand.full
    THEN action' = table /\ hand' = [hand EXCEPT !.at = "supersede"]
    ELSE Return(table, err, skip)

-----------------------------------------------------------------------------
(* ExecuteClose first cancels the rest of the entry; a cancellation that   *)
(* is not confirmed does not hold the exit back.                           *)
closeEntryEligibility == entry' \in {0, entry}

(* routeClose for a new signal.  While an exit is pending only another     *)
(* signal's full close goes past a partial one; every other request just   *)
(* drives the pending exit.                                                *)
RequestClose(s) ==
    /\ hand.at = "idle"
    /\ action[s] = "none"
    /\ state # "CLOSED"
    /\ action' = [action EXCEPT ![s] = "executing"]
    /\ LET passes == Pending /\ s \in FullClose /\ ~ intent.full
       IN  hand' = [Idle EXCEPT !.at = IF Pending THEN "settle" ELSE "enter",
                                !.by = s, !.allow = ~ passes, !.full = passes]
    /\ closeEntryEligibility
    /\ UNCHANGED <<state, intent, Ledger, market, Position, missed, opens>>

(* One pass of reconcileOnce over the trade: actions left executing or     *)
(* uncertain are recovered first (also those of a terminal trade), then    *)
(* the pending exit is settled or the open position is checked.            *)
Unfinished == {s \in Signals : action[s] \in {"executing", "uncertain"}}

reconcileOnce ==
    /\ hand.at = "idle"
    /\ state # "CLOSED" \/ Unfinished # {}
    /\ hand' = [Idle EXCEPT !.at = "pass", !.left = Unfinished]
    /\ UNCHANGED <<state, intent, Ledger, Venue, action, missed, opens>>

(* recoverPendingActions: run the action again, unless the ledger of its   *)
(* signal shows a filled close.                                            *)
recoverPendingActions(s) ==
    /\ hand.at = "pass" /\ ~ Pending
    /\ s \in hand.left
    /\ IF \E i \in exitRows(s) : order[i].status = "FILLED"
       THEN /\ action' = [action EXCEPT ![s] = "done"]
            /\ hand' = [hand EXCEPT !.left = @ \ {s}]
            /\ entry' = entry
       ELSE /\ action' = action
            /\ hand' = [hand EXCEPT !.at = "enter", !.by = s, !.retry = TRUE,
                                    !.left = @ \ {s}]
            /\ closeEntryEligibility
    /\ UNCHANGED <<state, intent, Ledger, market, Position, missed, opens>>

PassSettlesExit ==
    /\ hand.at = "pass" /\ Pending
    /\ hand' = [Idle EXCEPT !.at = "settle"]
    /\ UNCHANGED <<state, intent, Ledger, Venue, action, missed, opens>>

PassEnds ==
    /\ hand.at = "pass" /\ ~ Pending
    /\ state = "CLOSED" /\ hand.left = {}
    /\ hand' = Idle
    /\ UNCHANGED <<state, intent, Ledger, Venue, action, missed, opens>>

PositionGone_EntryWorking ==
    /\ shown = 0 /\ missed
    /\ state' = "CLOSED" /\ missed' = FALSE
    /\ UNCHANGED entry

PositionGone ==
    /\ shown = 0 /\ missed
    /\ entry' = 0
    /\ \/ state' = "CLOSED" /\ missed' = FALSE
       \/ UNCHANGED <<state, missed>>

(* reconcileOpenTrade: a position that is gone on two passes in a row ends *)
(* the trade, once the rest of its entry is confirmed cancelled; a         *)
(* reduction it notices only cancels that rest.  The read, the             *)
(* cancellation or the cleanup may fail.                                   *)
reconcileOpenTrade ==
    /\ hand.at = "pass" /\ ~ Pending
    /\ state # "CLOSED" /\ hand.left = {}
    /\ \/ UNCHANGED <<missed, state, entry>>
       \/ shown > 0   /\ missed' = FALSE /\ closeEntryEligibility /\ UNCHANGED state
       \/ shown = 0   /\ ~ missed /\ missed' = TRUE /\ UNCHANGED <<state, entry>>
       \/ PositionGone
    /\ hand' = Idle
    /\ UNCHANGED <<intent, Ledger, market, Position, action, opens>>

-----------------------------------------------------------------------------
(* CreateExitOrder: the row, CLOSE_PENDING and the intent in one           *)
(* transaction; the submit follows.                                        *)
CreateExitOrder(s, q, full, attempts) ==
    /\ made < MaxOrders
    /\ made' = made + 1
    /\ order' = [order EXCEPT ![made + 1] =
                   [signal |-> s, qty |-> q, status |-> "PLANNED", exec |-> 0]]
    /\ intent' = [row |-> made + 1, full |-> full, attempts |-> attempts, seen |-> "no"]
    /\ state' = "CLOSE_PENDING"

(* executeManagedCloseAmount without a pending intent.                     *)
CloseSize(s) == FloorQuantity(IF s \in FullClose THEN shown ELSE shown \div 2)

ExecutedPartial(s) ==
    /\ s \notin FullClose
    /\ \E i \in exitRows(s) : order[i].exec > 0 \/ order[i].status = "FILLED"

EnterRefused ==
    /\ hand.at = "enter"
    /\ LET s == hand.by
           waits == \E i \in exitRows(s) : ~ Done(i)
       IN  \/ Return(action, TRUE, FALSE)    \* a lookup or the position read failed
           \/ waits /\ Return(action, TRUE, FALSE)
           \/ ~ waits /\ ExecutedPartial(s) /\ Return(action, FALSE, TRUE)
           \/ ~ waits /\ ~ ExecutedPartial(s) /\ shown = 0 /\ Return(action, FALSE, TRUE)
           \/ ~ waits /\ ~ ExecutedPartial(s) /\ shown > 0 /\ CloseSize(s) = 0
                /\ Return(action, TRUE, FALSE)
    /\ UNCHANGED <<state, intent, Ledger, Venue, missed, opens>>

EnterCreates ==
    /\ hand.at = "enter"
    /\ \A i \in exitRows(hand.by) : Done(i)
    /\ ~ ExecutedPartial(hand.by)
    /\ CloseSize(hand.by) > 0
    /\ CreateExitOrder(hand.by, CloseSize(hand.by), hand.by \in FullClose, 0)
    /\ hand' = [hand EXCEPT !.at = "submit", !.allow = TRUE]
    /\ UNCHANGED <<Venue, action, missed, opens>>

(* submitManaged of the intent's row, as OrderContract allows: the request *)
(* is on its way, or it is lost, or it is definitely refused.              *)
SubmitAccepted ==
    /\ hand.at = "submit"
    /\ order' = [order EXCEPT ![intent.row].status = "NEW"]
    /\ market' = [market EXCEPT ![intent.row].net = "live"]
    /\ hand' = [hand EXCEPT !.at = "settle"]
    /\ UNCHANGED <<state, intent, made, pos, shown, entry, action, missed, opens>>

SubmitFailed ==
    /\ hand.at = "submit"
    /\ \/ /\ order' = [order EXCEPT ![intent.row].status = "REJECTED"]
          /\ market' = [market EXCEPT ![intent.row].net = "lost"]
       \/ /\ order' = [order EXCEPT ![intent.row].status = "UNKNOWN"]
          /\ \E n \in {"flight", "lost"} : market' = [market EXCEPT ![intent.row].net = n]
    /\ StepReturns(action, TRUE, FALSE)
    /\ UNCHANGED <<state, intent, made, pos, shown, entry, missed, opens>>

-----------------------------------------------------------------------------
(* reconcileManagedCloseStep, first part: bring the intent's row up to     *)
(* date.  A row abandoned because it never arrived counts as an answer.    *)
SettleSubmits ==
    /\ hand.at = "settle"
    /\ Current.status = "PLANNED"
    /\ hand' = [hand EXCEPT !.at = "submit"]
    /\ UNCHANGED <<state, intent, Ledger, Venue, action, missed, opens>>

SettleSkips ==
    /\ hand.at = "settle"
    /\ Done(intent.row)
    /\ hand' = [hand EXCEPT !.at = "decide"]
    /\ UNCHANGED <<state, intent, Ledger, Venue, action, missed, opens>>

SettleQueries ==
    /\ hand.at = "settle"
    /\ Current.status # "PLANNED" /\ ~ Done(intent.row)
    /\ LET m == market[intent.row]
           found == [order EXCEPT ![intent.row].exec = m.exec,
                                  ![intent.row].status =
                       IF m.net = "live" THEN WorkingStatus(m.exec)
                       ELSE IF m.exec = Current.qty THEN "FILLED" ELSE "EXPIRED"]
       IN  \/ /\ m.net \in {"live", "over"}
              /\ order' = found
           \/ /\ m.net = "lost"
              /\ order' = [order EXCEPT ![intent.row].status = "ABANDONED"]
    /\ hand' = [hand EXCEPT !.at = "decide"]
    /\ UNCHANGED <<state, intent, made, Venue, action, missed, opens>>

(* The lookup, the position read, the protection repair or the terminal    *)
(* cleanup failed.                                                         *)
StepFails ==
    /\ hand.at \in {"settle", "decide"}
    /\ StepReturns(action, TRUE, FALSE)
    /\ entry' = entry \/ (hand.at = "decide" /\ shown = 0 /\ entry' = 0)
    /\ UNCHANGED <<state, intent, Ledger, market, Position, missed, opens>>

(* Second part: decide on the fresh position.                              *)
DecideWaits ==
    /\ hand.at = "decide"
    /\ ~ Done(intent.row)
    /\ StepReturns(action, TRUE, FALSE)
    /\ UNCHANGED <<state, intent, Ledger, Venue, missed, opens>>

(* Flat: finishTradeOrders cancels what is left of the entry and reads the *)
(* position again; FinalizeExit commits CLOSED and the owner's action      *)
(* together.                                                               *)
DecideCloses ==
    /\ hand.at = "decide"
    /\ Done(intent.row)
    /\ shown = 0
    /\ entry' = 0
    /\ state' = "CLOSED"
    /\ intent' = NoIntent
    /\ StepReturns([action EXCEPT ![Current.signal] = "done"], FALSE, Current.signal # hand.by)
    /\ UNCHANGED <<Ledger, market, pos, shown, missed, opens>>

DecideReduced ==
    /\ hand.at = "decide"
    /\ Current.status = "FILLED" /\ ~ intent.full
    /\ shown > 0
    /\ state' = Resting
    /\ intent' = NoIntent
    /\ StepReturns([action EXCEPT ![Current.signal] = "done"], FALSE, Current.signal # hand.by)
    /\ UNCHANGED <<Ledger, Venue, missed, opens>>

(* A filled full close that leaves a position: remember the first          *)
(* sighting, act on one at least exitResidualConfirmAfter later.           *)
DecideResidual ==
    /\ hand.at = "decide"
    /\ Current.status = "FILLED" /\ intent.full
    /\ shown > 0
    /\ intent.seen # "later"
    /\ intent' = [intent EXCEPT !.seen = "once"]
    /\ StepReturns(action, TRUE, FALSE)
    /\ UNCHANGED <<state, Ledger, Venue, missed, opens>>

(* What remains to be sent when the order ended with a position left.      *)
ExitEnded_StillWorking ==
    /\ shown > 0
    /\ Current.status = "FILLED" => intent.full /\ intent.seen = "later"

ExitEnded ==
    /\ Done(intent.row)
    /\ shown > 0
    /\ Current.status = "FILLED" => intent.full /\ intent.seen = "later"

RemainingSize_Original ==
    FloorQuantity(IF intent.full \/ shown < Current.qty THEN shown ELSE Current.qty)

RemainingSize ==
    LET rest == Current.qty - Current.exec
    IN  FloorQuantity(IF intent.full \/ shown < rest THEN shown ELSE rest)

DecideHolds ==
    /\ hand.at = "decide"
    /\ ExitEnded
    /\ ~ hand.allow
    /\ StepReturns(action, TRUE, FALSE)
    /\ UNCHANGED <<state, intent, Ledger, Venue, missed, opens>>

Resubmit_Unbounded ==
    /\ hand.at = "decide"
    /\ ExitEnded
    /\ hand.allow
    /\ RemainingSize > 0
    /\ CreateExitOrder(Current.signal, RemainingSize, intent.full, intent.attempts + 1)
    /\ hand' = [hand EXCEPT !.at = "submit", !.allow = FALSE]
    /\ UNCHANGED <<Venue, action, missed, opens>>

(* resubmitManagedExit.                                                    *)
Resubmit ==
    /\ hand.at = "decide"
    /\ ExitEnded
    /\ hand.allow
    /\ intent.attempts < MaxResubmits
    /\ RemainingSize > 0
    /\ CreateExitOrder(Current.signal, RemainingSize, intent.full, intent.attempts + 1)
    /\ hand' = [hand EXCEPT !.at = "submit", !.allow = FALSE]
    /\ UNCHANGED <<Venue, action, missed, opens>>

Abandon_DustOnly ==
    /\ hand.at = "decide"
    /\ ExitEnded
    /\ hand.allow
    /\ RemainingSize = 0
    /\ state' = Resting
    /\ intent' = NoIntent
    /\ hand' = [hand EXCEPT !.at = "mark"]
    /\ UNCHANGED <<Ledger, Venue, action, missed, opens>>

(* abandonManagedExit: the context first, the owner's action in a second   *)
(* write.                                                                  *)
Abandon ==
    /\ hand.at = "decide"
    /\ ExitEnded
    /\ hand.allow
    /\ intent.attempts >= MaxResubmits \/ RemainingSize = 0
    /\ state' = Resting
    /\ intent' = NoIntent
    /\ hand' = [hand EXCEPT !.at = "mark"]
    /\ UNCHANGED <<Ledger, Venue, action, missed, opens>>

MarkAbandoned ==
    /\ hand.at = "mark"
    /\ LET s == order[made].signal     \* the abandoned row is the latest
       IN  action' = IF s \in Unfinished THEN [action EXCEPT ![s] = "rejected"] ELSE action
    /\ hand' = [hand EXCEPT !.at = "abandoned"]
    /\ UNCHANGED <<state, intent, Ledger, Venue, missed, opens>>

AbandonReturns ==
    /\ hand.at = "abandoned"
    /\ Return(action, TRUE, FALSE)
    /\ UNCHANGED <<state, intent, Ledger, Venue, missed, opens>>

(* Back in executeManagedCloseAmount after the partial exit was settled as *)
(* far as it goes: supersedePartialExit releases an intent whose order is  *)
(* over, and the full close starts afresh.                                 *)
SupersedeWaits ==
    /\ hand.at = "supersede"
    /\ Pending /\ ~ Done(intent.row)
    /\ Return(action, TRUE, FALSE)
    /\ UNCHANGED <<state, intent, Ledger, Venue, missed, opens>>

supersedePartialExit_InFlight ==
    /\ hand.at = "supersede"
    /\ Pending
    /\ state' = Resting
    /\ intent' = NoIntent
    /\ hand' = [hand EXCEPT !.at = "enter", !.full = FALSE]
    /\ UNCHANGED <<Ledger, Venue, action, missed, opens>>

supersedePartialExit ==
    /\ hand.at = "supersede"
    /\ Pending /\ Done(intent.row)
    /\ state' = Resting
    /\ intent' = NoIntent
    /\ hand' = [hand EXCEPT !.at = "enter", !.full = FALSE]
    /\ UNCHANGED <<Ledger, Venue, action, missed, opens>>

SupersedeSettled ==
    /\ hand.at = "supersede"
    /\ ~ Pending
    /\ IF state = "CLOSED"
       THEN Return(action, FALSE, TRUE)
       ELSE hand' = [hand EXCEPT !.at = "enter", !.full = FALSE] /\ action' = action
    /\ UNCHANGED <<state, intent, Ledger, Venue, missed, opens>>

(* The process dies: the handler is gone, and with it posMissSeen.         *)
Crash ==
    /\ hand.at # "idle" \/ missed
    /\ hand' = Idle
    /\ missed' = FALSE
    /\ UNCHANGED <<state, intent, Ledger, Venue, action, opens>>

-----------------------------------------------------------------------------
(* External: the exchange, the clock and the owner.  A fresh read may      *)
(* lag behind a reduction of the position, but not for as long as          *)
(* exitResidualConfirmAfter; an entry fill is visible at once.             *)
Reduce(k) ==
    /\ pos' = pos - k
    /\ shown' \in {shown, pos - k}

OrderArrives(i) ==
    /\ market[i].net = "flight"
    /\ market' = [market EXCEPT ![i].net = "live"]
    /\ UNCHANGED <<state, intent, Ledger, action, hand, pos, shown, entry, missed, opens>>

(* A reduce-only order executes at most the position.                      *)
OrderFills(i) ==
    /\ market[i].net = "live"
    /\ \E k \in 1..pos :
         /\ market[i].exec + k <= order[i].qty
         /\ market' = [market EXCEPT ![i] =
               [net  |-> IF market[i].exec + k = order[i].qty THEN "over" ELSE "live",
                exec |-> market[i].exec + k]]
         /\ Reduce(k)
    /\ UNCHANGED <<state, intent, Ledger, action, hand, entry, missed, opens>>

OrderExpires(i) ==
    /\ market[i].net = "live"
    /\ market' = [market EXCEPT ![i].net = "over"]
    /\ UNCHANGED <<state, intent, Ledger, action, hand, pos, shown, entry, missed, opens>>

(* The stop, a take profit or the account owner reduces the position.      *)
ProtectionFills ==
    /\ pos > 0
    /\ Reduce(1)
    /\ UNCHANGED <<state, intent, Ledger, market, action, hand, entry, missed, opens>>

EntryFills ==
    /\ entry > 0
    /\ entry' = entry - 1
    /\ pos' = pos + 1 /\ shown' = pos + 1
    /\ UNCHANGED <<state, intent, Ledger, market, action, hand, missed, opens>>

ReadCatchesUp ==
    /\ shown # pos
    /\ shown' = pos
    /\ UNCHANGED <<state, intent, Ledger, market, action, hand, pos, entry, missed, opens>>

ResidualConfirmTime ==
    /\ intent.seen = "once"
    /\ shown = pos
    /\ intent' = [intent EXCEPT !.seen = "later"]
    /\ UNCHANGED <<state, Ledger, Venue, action, hand, missed, opens>>

(* A position of the account owner on a side whose trade is over.  Another *)
(* copied trade cannot open while an action of this one is unresolved      *)
(* (claimCopyTradeOwnership).                                              *)
OwnerOpens ==
    /\ state = "CLOSED"
    /\ shown = 0
    /\ opens < MaxOpens
    /\ opens' = opens + 1
    /\ pos' = OpenQty /\ shown' = OpenQty
    /\ UNCHANGED <<state, intent, Ledger, market, action, hand, entry, missed>>

-----------------------------------------------------------------------------
Handler ==
    \/ \E s \in Signals : recoverPendingActions(s)
    \/ PassSettlesExit \/ PassEnds \/ reconcileOpenTrade
    \/ EnterRefused \/ EnterCreates \/ SubmitAccepted \/ SubmitFailed
    \/ SettleSubmits \/ SettleSkips \/ SettleQueries \/ StepFails
    \/ DecideWaits \/ DecideCloses \/ DecideReduced \/ DecideResidual \/ DecideHolds
    \/ Resubmit \/ Abandon \/ MarkAbandoned \/ AbandonReturns
    \/ SupersedeWaits \/ supersedePartialExit \/ SupersedeSettled

Exchange ==
    \/ \E i \in Gen : OrderArrives(i) \/ OrderFills(i) \/ OrderExpires(i)
    \/ ProtectionFills \/ EntryFills \/ ReadCatchesUp \/ ResidualConfirmTime

Next ==
    \/ \E s \in Signals : RequestClose(s)
    \/ reconcileOnce
    \/ Handler \/ Crash
    \/ Exchange \/ OwnerOpens

Spec == Init /\ [][Next]_vars

(* Fairness: reconcileLoop starts pass after pass; a handler that began    *)
(* goes on; venue reads, lookups and submissions may fail, but not every   *)
(* time; requests arrive and market orders end; reads catch up.            *)
Fairness ==
    /\ WF_vars(reconcileOnce)
    /\ WF_vars(Handler)
    /\ \A s \in Signals : SF_vars(recoverPendingActions(s))
    /\ SF_vars(PassSettlesExit)
    /\ SF_vars(SettleSubmits \/ SettleSkips \/ SettleQueries)
    /\ SF_vars(SubmitAccepted \/ SubmitFailed)
    /\ SF_vars(DecideCloses \/ DecideReduced \/ DecideResidual \/ Resubmit \/ Abandon)
    /\ SF_vars(ReadCatchesUp) /\ SF_vars(ResidualConfirmTime)
    /\ WF_vars(\E i \in Gen : OrderArrives(i))
    /\ WF_vars(\E i \in Gen : OrderFills(i) \/ OrderExpires(i))

FairSpec == Spec /\ Fairness

-----------------------------------------------------------------------------
(* Correctness.                                                            *)

MayExecute(i) == market[i].net \in {"flight", "live"}

(* However requests, reconcile passes, recoveries and crashes interleave,  *)
(* at most one exit order of the trade can still execute at the venue.     *)
OneExitInMarket == Cardinality({i \in 1..made : MayExecute(i)}) <= 1

(* An exit order that may still execute is the one the durable intent      *)
(* names, so that every reconcile pass finds it, and the trade is then     *)
(* CLOSE_PENDING.                                                          *)
ExitAccounted ==
    /\ Pending <=> state = "CLOSE_PENDING"
    /\ \A i \in 1..made : MayExecute(i) \/ ~ Done(i) => i = intent.row

\* The sum of a function on the generations, and what all those of a signal executed.
Total(f) ==
    LET upto[n \in 0..MaxOrders] == IF n = 0 THEN 0 ELSE upto[n - 1] + f[n]
    IN  upto[MaxOrders]
Executed(s) == Total([i \in Gen |-> IF order[i].signal = s THEN market[i].exec ELSE 0])

(* "A partial reduction that already executed must never be repeated": all *)
(* the generations of a partial exit together never execute more than the  *)
(* largest of them asked for.                                              *)
PartialNotRepeated ==
    \A s \in Signals \ FullClose :
        exitRows(s) # {} => \E i \in exitRows(s) : Executed(s) <= order[i].qty

(* A trade is CLOSED only on an empty position, and nothing of it, neither *)
(* an exit order nor the rest of its entry, can execute afterwards.        *)
ClosedIsOver ==
    state = "CLOSED" => /\ \A i \in 1..made : ~ MayExecute(i)
                        /\ entry = 0
                        /\ opens = 0 => pos = 0

(* "A stale event must never reopen a trade": a CLOSED trade stays CLOSED. *)
StaleNeverReopens == [][state = "CLOSED" => state' = "CLOSED"]_vars

(* The trade's exit orders keep what the ledger promises of an order       *)
(* (OrderContract): none executes before its intent was committed and      *)
(* submitted, none that was refused or never arrived executes at all, and  *)
(* the fills the ledger reports only grow and are really there.            *)
exitPhase(i) == CASE order[i].status = "PLANNED" -> "intended"
                  [] order[i].status \in Voided -> "void"
                  [] OTHER -> "committed"

ExitContract == INSTANCE OrderContract WITH
    Rows     <- Gen,
    Qty      <- MaxPos,
    phase    <- [i \in Gen |-> exitPhase(i)],
    exposure <- [i \in Gen |-> market[i].exec],
    reported <- [i \in Gen |-> order[i].exec]

OrdersKeepContract == ExitContract!CSpec

(* A pending exit comes to an end: finalised, abandoned for review after   *)
(* its resubmissions, or superseded.  (The last order a bounded model can  *)
(* create may leave it pending.)                                           *)
ExitResolves == Pending ~> ~ Pending \/ made = MaxOrders
=============================================================================
