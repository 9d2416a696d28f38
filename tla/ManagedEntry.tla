---------------------------- MODULE ManagedEntry ----------------------------
(***************************************************************************)
(* The managed entry of one trade, in one or two legs: executeManagedOpen, *)
(* reconcileManagedEntry, closeEntryEligibility and settleManagedFills of  *)
(* copytrader/managed_execution.go, with the part of reconcileOpenTrade    *)
(* and of ExecuteCancel that acts on the entry.                            *)
(*                                                                         *)
(* A handler runs under the engine mutex and works on a copy of the        *)
(* context; hand holds what that copy has that the stored one has not:     *)
(* the EntryDisabled flag set in memory (mem) and the quantity read at the *)
(* start of the pass (old).  Between two steps the venue moves, and the    *)
(* process may die.  Single orders behave as OrderContract says.           *)
(***************************************************************************)
EXTENDS Integers, OrderLedger

CONSTANTS
    Split,      \* EntryPolicySplit: two legs that share the risk budget
    LegQty,     \* planned lots of a leg
    Foreign     \* lots the account owner may add to the same side

ASSUME EntryAssumption ==
    /\ Split \in BOOLEAN
    /\ LegQty \in Nat \ {0}
    /\ Foreign \in Nat

VARIABLES
    ctx,      \* the stored trade context
    leg,      \* the entry rows ENTRY_1 and ENTRY_2 of the ledger
    market,   \* the venue's side of each leg
    pos,      \* the position on the symbol and side
    tpFilled, \* a take profit order of the trade has filled at the venue
    late,     \* EntryDeadline has passed
    added,    \* lots of the position that are not this trade's
    hand,     \* the running handler
    reduced   \* history: the recorded quantity has gone down

vars == <<ctx, leg, market, pos, tpFilled, late, added, hand, reduced>>

Legs   == IF Split THEN 1..2 ELSE {1}
MaxPos == 2 * LegQty + Foreign

Idle == [at |-> "idle", mem |-> FALSE, old |-> 0, failed |-> FALSE,
         then |-> "", after |-> "decide"]

Stages == {"idle", "open", "query", "settle", "tp", "protect", "decide", "first", "second",
           "add", "finish", "latch", "cancel", "tracked", "track", "gone", "emergency",
           "exit", "risk", "withdraw", "flat", "failed"}

Terminal == {"CLOSED", "CANCELLED", "EXPIRED"}

(* market[i].net is what became of the submit request of leg i.            *)
TypeOK ==
    /\ ctx \in [state : {"ENTRY_PENDING", "OPEN", "CLOSED", "CANCELLED", "EXPIRED"},
                disabled : BOOLEAN, working : BOOLEAN, opened : BOOLEAN,
                qty : 0..MaxPos, tp : BOOLEAN, closing : BOOLEAN, stop : 0..MaxPos]
    /\ leg \in [Legs -> [status : RowStatus, qty : 1..LegQty, exec : 0..LegQty]]
    /\ market \in [Legs -> [net : {"none", "flight", "live", "over", "lost"}, exec : 0..LegQty]]
    /\ pos \in 0..MaxPos
    /\ tpFilled \in BOOLEAN /\ late \in BOOLEAN /\ reduced \in BOOLEAN
    /\ added \in 0..Foreign
    /\ hand \in [at : Stages, mem : BOOLEAN, old : 0..MaxPos, failed : BOOLEAN,
                 then : Stages \cup {""}, after : Stages]

(* CreateManagedPlan has committed the context and its PLANNED legs; the   *)
(* handler is about to submit the first one.                               *)
Init ==
    /\ ctx = [state |-> "ENTRY_PENDING", disabled |-> FALSE, working |-> TRUE, opened |-> FALSE,
              qty |-> 0, tp |-> FALSE, closing |-> FALSE, stop |-> 0]
    /\ leg = [i \in Legs |-> [status |-> "PLANNED", qty |-> LegQty, exec |-> 0]]
    /\ market = [i \in Legs |-> [net |-> "none", exec |-> 0]]
    /\ pos = 0
    /\ tpFilled = FALSE /\ late = FALSE /\ reduced = FALSE
    /\ added = 0
    /\ hand = [Idle EXCEPT !.at = "open"]

-----------------------------------------------------------------------------
Done(i)      == orderTerminal(leg[i].status)
Unsettled    == {i \in Legs : leg[i].status # "PLANNED" /\ ~ Done(i)}
VoidLeg(l)   == \E i \in Legs : l[i].status \in Voided
Filled(l)    == IF Split THEN l[1].exec + l[2].exec ELSE l[1].exec
Least(a, b)  == IF a < b THEN a ELSE b

External == <<market, pos, tpFilled, late, added>>

(* Every write of the context goes through here.                           *)
SetCtx(c) ==
    /\ ctx' = c
    /\ reduced' = (reduced \/ c.qty < ctx.qty)

Goto(stage) == hand' = [hand EXCEPT !.at = stage]

(* closeEntryEligibility is called; the handler goes on at stage next.     *)
CloseEligibility(next) == hand' = [hand EXCEPT !.at = "latch", !.then = next]

(* reconcileOnce checks an open trade once more after its entry.           *)
Leave(c) ==
    hand' = [Idle EXCEPT !.at = IF c.state = "OPEN" /\ ~ c.closing THEN "tracked" ELSE "idle"]

(* Mutant: an invisible position counts twice.                             *)
settleManagedFills_CountedTwice(c, l) ==
    LET total == Filled(l) IN
    IF total = 0 THEN c
    ELSE [c EXCEPT !.qty = IF pos > 0 THEN Least(pos, total) ELSE 2 * total,
                   !.state = IF c.opened THEN @ ELSE "OPEN",
                   !.opened = TRUE]

(* settleManagedFills: the context after the fills the rows report.        *)
settleManagedFills(c, l) ==
    LET total == Filled(l) IN
    IF total = 0 THEN c
    ELSE [c EXCEPT
            !.qty = IF pos > 0 THEN Least(pos, total) ELSE IF c.opened THEN 0 ELSE total,
            !.state = IF c.opened THEN @ ELSE "OPEN",
            !.opened = TRUE,
            !.working = \E i \in Legs : ~ orderTerminal(l[i].status)]

-----------------------------------------------------------------------------
(* The answer of the venue on a leg: its record, or, when the request      *)
(* never arrived and the grace period is over, ABANDONED.                  *)
Answered(i) ==
    LET m == market[i] IN
    CASE m.net = "lost" -> [leg[i] EXCEPT !.status = "ABANDONED"]
      [] m.net = "live" -> [leg[i] EXCEPT !.status = WorkingStatus(m.exec), !.exec = m.exec]
      [] m.net = "over" -> [leg[i] EXCEPT
             !.status = IF m.exec = leg[i].qty THEN "FILLED" ELSE "EXPIRED", !.exec = m.exec]

Answerable == {i \in Unsettled : market[i].net # "flight"}

(* submitManaged of q lots for leg i, as OrderContract allows; an accepted  *)
(* order may execute at once.                                              *)
Submitted(i, q) ==
    \E e \in 0..q :
        /\ market' = [market EXCEPT ![i] =
              [net |-> IF e = q THEN "over" ELSE "live", exec |-> e]]
        /\ leg' = [leg EXCEPT ![i] =
              [status |-> IF e = q THEN "FILLED" ELSE WorkingStatus(e), qty |-> q, exec |-> e]]
        /\ pos' = pos + e

NotSubmitted(i, q) ==
    /\ \/ /\ leg' = [leg EXCEPT ![i].status = "REJECTED", ![i].qty = q]
          /\ market' = [market EXCEPT ![i].net = "lost"]
       \/ /\ leg' = [leg EXCEPT ![i].status = "UNKNOWN", ![i].qty = q]
          /\ \E n \in {"flight", "lost"} : market' = [market EXCEPT ![i].net = n]
    /\ pos' = pos

(* The admission of leg i is revoked.                                      *)
Revoked(i) ==
    /\ leg' = [leg EXCEPT ![i].status = "ABANDONED"]
    /\ UNCHANGED <<market, pos>>

(* The new size of leg i is stored, but the order is not sent.             *)
Resized(i, q) ==
    /\ leg' = [leg EXCEPT ![i].qty = q]
    /\ UNCHANGED <<market, pos>>

(* executeManagedOpen: whatever became of the first leg, the entry is      *)
(* reconciled at once.                                                     *)
StartPass(c) ==
    hand' = [Idle EXCEPT !.at = "query", !.mem = c.disabled \/ VoidLeg(leg'), !.old = c.qty]

executeManagedOpen ==
    /\ hand.at = "open"
    /\ \/ Submitted(1, leg[1].qty) \/ NotSubmitted(1, leg[1].qty)
       \/ Revoked(1)
       \/ UNCHANGED <<leg, market, pos>>      \* admission deferred
    /\ StartPass(ctx)
    /\ UNCHANGED <<ctx, tpFilled, late, added, reduced>>

(* Mutant: the stored latch is not consulted.                              *)
reconcileManagedEntry_LatchForgotten ==
    /\ hand.at = "idle"
    /\ ctx.state \in {"ENTRY_PENDING", "OPEN"} /\ ~ ctx.closing
    /\ hand' = [Idle EXCEPT !.at = "query", !.mem = VoidLeg(leg), !.old = ctx.qty]
    /\ UNCHANGED <<ctx, leg, External, reduced>>

(* reconcileManagedEntry, called by reconcileOnce for an active trade      *)
(* without an exit intent.  A passed deadline is stored as a closed entry. *)
reconcileManagedEntry ==
    /\ hand.at = "idle"
    /\ ctx.state \in {"ENTRY_PENDING", "OPEN"} /\ ~ ctx.closing
    /\ SetCtx([ctx EXCEPT !.disabled = @ \/ late])
    /\ leg' = leg
    /\ StartPass(ctx')
    /\ UNCHANGED External

(* Each unsettled leg is looked up; a lookup may fail.                     *)
QueryLegs ==
    /\ hand.at = "query"
    /\ \E ok \in SUBSET Answerable :
         /\ leg' = [i \in Legs |-> IF i \in ok THEN Answered(i) ELSE leg[i]]
         /\ hand' = [hand EXCEPT !.at = "settle", !.failed = (ok # Unsettled),
                                 !.mem = @ \/ VoidLeg(leg')]
    /\ UNCHANGED <<ctx, External, reduced>>

(* After the lookups, and again after a submission that executed.          *)
Settle ==
    /\ hand.at = "settle"
    /\ SetCtx(settleManagedFills(ctx, leg))
    /\ Goto(IF hand.after = "decide" THEN "tp" ELSE "protect")
    /\ UNCHANGED <<leg, External>>

(* refreshTPProgressChecked and the conditions that end the entry.         *)
TPProgress ==
    /\ hand.at = "tp"
    /\ SetCtx([ctx EXCEPT !.tp = tpFilled])
    /\ LET ends == hand.mem \/ late \/ (tpFilled /\ ~ ctx.tp) \/ ctx.qty < hand.old
       IN  hand' = [hand EXCEPT !.at = IF ends THEN "latch" ELSE "protect",
                                !.mem = ends, !.then = "protect"]
    /\ UNCHANGED <<leg, External>>

-----------------------------------------------------------------------------
(* closeEntryEligibility: "persists the one-way latch BEFORE contacting    *)
(* the venue"; then cancels every leg and settles.                         *)
Latch ==
    /\ hand.at = "latch"
    /\ SetCtx([ctx EXCEPT !.disabled = TRUE])
    /\ hand' = [hand EXCEPT !.at = "cancel", !.mem = TRUE]
    /\ UNCHANGED <<leg, External>>

Ended1(i) ==
    IF leg[i].status = "PLANNED" THEN [leg[i] EXCEPT !.status = "ABANDONED"]
    ELSE IF Done(i) THEN leg[i]
    ELSE IF market[i].net = "live"
         THEN [leg[i] EXCEPT !.status = "CANCELED", !.exec = market[i].exec]
    ELSE Answered(i)

(* ok: the legs whose end was confirmed.  A cancelled order may have been  *)
(* filled before the request came.                                         *)
CancelSome(ok) ==
    /\ leg' = [i \in Legs |-> IF i \in ok THEN Ended1(i) ELSE leg[i]]
    /\ market' = [i \in Legs |-> IF i \in ok /\ market[i].net = "live"
                                 THEN [market[i] EXCEPT !.net = "over"] ELSE market[i]]

(* What the caller of closeEntryEligibility does next.  An unconfirmed     *)
(* cancellation stops all but the exits; a pass of the entry then fails.   *)
Continue(confirmed) ==
    IF confirmed \/ hand.then \in {"exit", "emergency"}
    THEN IF hand.then = "idle" THEN Leave(ctx') ELSE Goto(hand.then)
    ELSE IF hand.then \in {"track", "gone", "withdraw"} THEN hand' = Idle ELSE Goto("failed")

(* Mutants: a request that may still arrive counts as cancelled; the       *)
(* fills that raced the cancellation are not settled.                      *)
CancelLegs_FlightOver ==
    /\ hand.at = "cancel"
    /\ leg' = [i \in Legs |-> IF Done(i) THEN leg[i]
                              ELSE [leg[i] EXCEPT !.status = "CANCELED", !.exec = market[i].exec]]
    /\ market' = [i \in Legs |-> IF market[i].net = "live"
                                 THEN [market[i] EXCEPT !.net = "over"] ELSE market[i]]
    /\ SetCtx([settleManagedFills(ctx, leg') EXCEPT !.working = FALSE])
    /\ Continue(TRUE)
    /\ UNCHANGED <<pos, tpFilled, late, added>>
CancelLegs_FillsIgnored ==
    /\ hand.at = "cancel"
    /\ \A i \in Unsettled : market[i].net # "flight"
    /\ CancelSome(Legs)
    /\ SetCtx([ctx EXCEPT !.working = FALSE])
    /\ Continue(TRUE)
    /\ UNCHANGED <<pos, tpFilled, late, added>>

CancelLegs ==
    /\ hand.at = "cancel"
    /\ \E ok \in SUBSET {i \in Legs : i \in Unsettled => market[i].net # "flight"} :
         /\ {i \in Legs : leg[i].status = "PLANNED"} \subseteq ok
         /\ CancelSome(ok)
         /\ LET confirmed == \A i \in Legs : orderTerminal(leg'[i].status)
                settled   == settleManagedFills(ctx, leg')
            IN  /\ SetCtx(IF confirmed THEN [settled EXCEPT !.working = FALSE] ELSE settled)
                /\ Continue(confirmed)
    /\ UNCHANGED <<pos, tpFilled, late, added>>

-----------------------------------------------------------------------------
(* ensureStopProtection and restoreRemainingProtections.  A stop that      *)
(* cannot be placed ends the entry and the position; outside the first     *)
(* round of a pass, and while it is only unconfirmed, the pass ends.       *)
Protect ==
    /\ hand.at = "protect"
    /\ \/ SetCtx([ctx EXCEPT !.stop = IF ctx.qty > 0 THEN ctx.qty ELSE @]) /\ Goto(hand.after)
       \/ ctx.qty > 0 /\ hand.after = "decide" /\ CloseEligibility("emergency") /\ SetCtx(ctx)
    /\ UNCHANGED <<leg, External>>

(* enforceManagedRisk: the fills exceed the budget of a split entry.       *)
enforceManagedRisk ==
    /\ hand.at = "protect"
    /\ Split /\ ctx.qty > 0
    /\ SetCtx([ctx EXCEPT !.stop = ctx.qty])
    /\ CloseEligibility("risk")
    /\ UNCHANGED <<leg, External>>

(* The exit itself is module ManagedExit.  An emergency close, successful  *)
(* or not, and a failed reduction end the pass with an error.              *)
ExitStarts ==
    /\ hand.at \in {"exit", "risk", "emergency"}
    /\ \/ pos > 0 /\ SetCtx([ctx EXCEPT !.closing = TRUE])
       \/ SetCtx(ctx)
    /\ \/ hand.at = "exit" /\ hand' = Idle
       \/ hand.at # "exit" /\ Goto("failed")
       \/ hand.at = "risk" /\ Leave(ctx')
    /\ UNCHANGED <<leg, External>>

Decide ==
    /\ hand.at = "decide"
    /\ \/ ctx.tp /\ ~ hand.mem /\ CloseEligibility("decide")
       \/ ~ (ctx.tp /\ ~ hand.mem) /\ ~ hand.failed
            /\ Goto(IF hand.mem THEN "finish" ELSE "first")
    /\ UNCHANGED <<ctx, leg, External, reduced>>

(* The next stage after leg i was sent: settle and protect what executed.  *)
AfterSubmit(i, stage) ==
    hand' = IF leg'[i].exec > 0 THEN [hand EXCEPT !.at = "settle", !.after = stage]
                                ELSE [hand EXCEPT !.at = stage]

(* The first leg, when a crash or a deferred admission left it PLANNED. A  *)
(* market order is sized again at the live price, and never larger; an     *)
(* expired or revoked signal abandons it, a price that moved on closes the *)
(* entry as well.                                                          *)
FirstLeg ==
    /\ hand.at = "first"
    /\ leg[1].status = "PLANNED"
    /\ \/ \E q \in 1..leg[1].qty :
             \/ Submitted(1, q) /\ AfterSubmit(1, "second")
             \/ (NotSubmitted(1, q) \/ Resized(1, q)) /\ Goto("failed")
       \/ Revoked(1) /\ (Goto("second") \/ Goto("failed") \/ CloseEligibility("finish"))
    /\ UNCHANGED <<ctx, tpFilled, late, added, reduced>>

FirstLegSent ==
    /\ hand.at = "first"
    /\ leg[1].status # "PLANNED"
    /\ Goto("second")
    /\ UNCHANGED <<ctx, leg, External, reduced>>

(* The second leg waits for a filled first one; a take profit, a smaller   *)
(* position or no room left in the budget ends the entry.                  *)
NoSecondLeg ==
    /\ hand.at = "second"
    /\ Split => leg[2].status # "PLANNED" \/ leg[1].status # "FILLED" \/ ctx.qty = 0
    /\ Goto("finish")
    /\ UNCHANGED <<ctx, leg, External, reduced>>

Second == Split /\ leg[2].status = "PLANNED" /\ ctx.qty > 0

(* Mutant: any fill of the first leg will do.                              *)
SecondLegChecks_AnyFill ==
    /\ hand.at = "second"
    /\ Second /\ leg[1].exec > 0
    /\ SetCtx([ctx EXCEPT !.tp = tpFilled])
    /\ IF tpFilled \/ pos < ctx.qty THEN CloseEligibility("idle") ELSE Goto("add")
    /\ UNCHANGED <<leg, External>>

SecondLegChecks ==
    /\ hand.at = "second"
    /\ Second /\ leg[1].status = "FILLED"
    /\ SetCtx([ctx EXCEPT !.tp = tpFilled])
    /\ \/ ~ tpFilled /\ pos >= ctx.qty /\ Goto("add")
       \/ CloseEligibility("idle")       \* also when the budget leaves too little
    /\ UNCHANGED <<leg, External>>

(* The second leg takes what the first one left of the budget; what is not *)
(* sent ends the pass.                                                     *)
SecondLeg ==
    /\ hand.at = "add"
    /\ \E q \in 1..leg[2].qty :
         \/ Submitted(2, q) /\ AfterSubmit(2, "finish")
         \/ (NotSubmitted(2, q) \/ Resized(2, q)) /\ Goto("failed")
    /\ UNCHANGED <<ctx, tpFilled, late, added, reduced>>

SecondLegRevoked ==
    /\ hand.at = "add"
    /\ Revoked(2)
    /\ Goto("failed")
    /\ UNCHANGED <<ctx, tpFilled, late, added, reduced>>

(* Mutant: only a deadline that has not passed ends the entry.             *)
Finish_NotExpired ==
    /\ hand.at = "finish"
    /\ LET over == (\A i \in Legs : Done(i)) /\ Filled(leg) = 0
       IN  SetCtx(IF over /\ ~ late THEN [ctx EXCEPT !.state = "CANCELLED"] ELSE ctx)
    /\ Leave(ctx')
    /\ UNCHANGED <<leg, External>>

(* Every leg over and none filled: the entry is over.                      *)
Finish ==
    /\ hand.at = "finish"
    /\ LET over == (\A i \in Legs : Done(i)) /\ Filled(leg) = 0
       IN  SetCtx(IF over THEN [ctx EXCEPT !.state = IF late THEN "EXPIRED" ELSE "CANCELLED"]
                  ELSE ctx)
    /\ Leave(ctx')
    /\ UNCHANGED <<leg, External>>

(* A lookup, read or write of the pass fails: the deferred handler still   *)
(* stores the position it can see, and protects it.                        *)
PassFails ==
    /\ hand.at \in {"query", "settle", "tp", "protect", "decide", "first", "second", "add",
                   "failed"}
    /\ \/ SetCtx(ctx)
       \/ pos > 0 /\ SetCtx([ctx EXCEPT !.qty = pos, !.stop = pos])
    /\ Leave(ctx')
    /\ UNCHANGED <<leg, External>>

-----------------------------------------------------------------------------
(* reconcileOpenTrade: a position that is gone ends the trade, a reduction *)
(* or a take profit closes the entry, growth is not adopted.               *)
reconcileOpenTrade ==
    /\ hand.at = "tracked"
    /\ \/ hand' = Idle /\ SetCtx(ctx)          \* the read failed, or a first miss
       \/ pos = 0 /\ CloseEligibility("gone") /\ SetCtx(ctx)
       \/ /\ pos > 0
          /\ \E read \in {tpFilled, ctx.tp} :  \* the lookup may fail
               /\ SetCtx([ctx EXCEPT !.tp = read])
               /\ IF (read /\ ~ ctx.tp) \/ pos < ctx.qty
                  THEN CloseEligibility("track") ELSE Goto("track")
    /\ UNCHANGED <<leg, External>>

Track ==
    /\ hand.at = "track"
    /\ SetCtx([ctx EXCEPT !.qty = IF @ = 0 \/ (pos > 0 /\ pos < @) THEN pos ELSE @])
    /\ hand' = Idle
    /\ UNCHANGED <<leg, External>>

Gone ==
    /\ hand.at = "gone"
    /\ SetCtx(IF pos = 0 THEN [ctx EXCEPT !.state = "CLOSED", !.working = FALSE] ELSE ctx)
    /\ hand' = Idle
    /\ UNCHANGED <<leg, External>>

(* An author asks to exit an open trade.                                   *)
ExecuteClose ==
    /\ hand.at = "idle"
    /\ ctx.state = "OPEN" /\ ~ ctx.closing
    /\ hand' = [Idle EXCEPT !.at = "latch", !.then = "exit"]
    /\ UNCHANGED <<ctx, leg, External, reduced>>

(* An author cancels the entry: routeCancel while it is pending or still   *)
(* working, the recovery of a cancel that did not finish in any state but  *)
(* the end of a trade whose entry no longer works.                         *)
ExecuteCancel ==
    /\ hand.at = "idle"
    /\ ctx.state \in Terminal => ctx.working
    /\ hand' = [Idle EXCEPT !.at = "latch", !.then = "withdraw"]
    /\ UNCHANGED <<ctx, leg, External, reduced>>

(* What holds a position is protected, and the attempt may fail; anything  *)
(* else is CANCELLED, a trade that opened and is flat again included.      *)
Withdraw ==
    /\ hand.at = "withdraw"
    /\ IF ctx.qty > 0 /\ ctx.opened
       THEN \E s \in {ctx.stop, ctx.qty} : SetCtx([ctx EXCEPT !.stop = s])
       ELSE SetCtx([ctx EXCEPT !.state = "CANCELLED"])
    /\ hand' = Idle
    /\ UNCHANGED <<leg, External>>

(* What ManagedExit makes of the exit intent of a trade that has not       *)
(* ended: it goes on with what is left, or is closed on a flat position.   *)
ExitSettles ==
    /\ hand.at = "idle"
    /\ ctx.closing /\ ctx.state \notin Terminal
    /\ \/ /\ pos > 0
          /\ SetCtx([ctx EXCEPT !.closing = FALSE, !.qty = pos, !.state = "OPEN"])
          /\ hand' = hand
       \/ /\ pos = 0
          /\ SetCtx(ctx)
          /\ Goto("flat")
    /\ UNCHANGED <<leg, External>>

(* After the flat read, finishTradeOrders settles the legs one by one and  *)
(* stops at the first it cannot settle; the trade is closed when none is   *)
(* left, whatever filled meanwhile.                                        *)
finishTradeOrders ==
    /\ hand.at = "flat"
    /\ \E n \in {0} \cup Legs :
         /\ \A i \in 1..n : i \in Unsettled => market[i].net # "flight"
         /\ CancelSome(1..n)
    /\ SetCtx(IF \A i \in Legs : orderTerminal(leg'[i].status)
              THEN [ctx EXCEPT !.closing = FALSE, !.qty = 0, !.state = "CLOSED"] ELSE ctx)
    /\ hand' = Idle
    /\ UNCHANGED <<pos, tpFilled, late, added>>

Crash ==
    /\ hand.at # "idle"
    /\ hand' = Idle
    /\ UNCHANGED <<ctx, leg, External, reduced>>

-----------------------------------------------------------------------------
(* External: the exchange, the clock and the account owner.                *)
Arrive(i) ==
    /\ market[i].net = "flight"
    /\ market' = [market EXCEPT ![i].net = "live"]
    /\ UNCHANGED <<ctx, leg, pos, tpFilled, late, added, hand, reduced>>

Fill(i) ==
    /\ market[i].net = "live"
    /\ \E k \in 1..(leg[i].qty - market[i].exec) :
         /\ market' = [market EXCEPT ![i] =
               [net  |-> IF @.exec + k = leg[i].qty THEN "over" ELSE "live", exec |-> @.exec + k]]
         /\ pos' = pos + k
    /\ UNCHANGED <<ctx, leg, tpFilled, late, added, hand, reduced>>

Expire(i) ==
    /\ market[i].net = "live"
    /\ market' = [market EXCEPT ![i].net = "over"]
    /\ UNCHANGED <<ctx, leg, pos, tpFilled, late, added, hand, reduced>>

(* The stop, an exit order, a take profit or the owner takes a lot off the *)
(* position, or the owner adds one, to a flat side too.                    *)
PositionMoves ==
    /\ \/ /\ pos > 0
          /\ pos' = pos - 1
          /\ tpFilled' \in {tpFilled, TRUE}
          /\ added' = Least(added, pos')
       \/ /\ added < Foreign
          /\ pos' = pos + 1
          /\ added' = added + 1
          /\ UNCHANGED tpFilled
    /\ UNCHANGED <<ctx, leg, market, late, hand, reduced>>

DeadlinePasses ==
    /\ ~ late
    /\ late' = TRUE
    /\ UNCHANGED <<ctx, leg, market, pos, tpFilled, added, hand, reduced>>

-----------------------------------------------------------------------------
Handler ==
    \/ executeManagedOpen \/ QueryLegs \/ Settle \/ TPProgress
    \/ Latch \/ CancelLegs \/ Protect \/ enforceManagedRisk \/ ExitStarts
    \/ Decide \/ FirstLeg \/ FirstLegSent \/ NoSecondLeg \/ SecondLegChecks \/ SecondLeg
    \/ SecondLegRevoked \/ finishTradeOrders \/ Finish \/ PassFails \/ reconcileOpenTrade \/ Track \/ Gone \/ Withdraw

Exchange ==
    \/ \E i \in Legs : Arrive(i) \/ Fill(i) \/ Expire(i)
    \/ PositionMoves

Next ==
    \/ reconcileManagedEntry \/ Handler
    \/ ExecuteClose \/ ExecuteCancel \/ ExitSettles
    \/ Crash \/ Exchange \/ DeadlinePasses

Spec == Init /\ [][Next]_vars

(* Fairness: reconcileLoop gets its turn among the signals and a handler   *)
(* that began goes on; reads, lookups and cancellations fail, but not      *)
(* every time; requests that are on their way arrive.                      *)
QueryAll   == QueryLegs /\ ~ hand'.failed
ConfirmAll == CancelLegs /\ \A i \in Legs : orderTerminal(leg'[i].status)

Fairness ==
    /\ SF_vars(reconcileManagedEntry)
    /\ WF_vars(Handler)
    /\ SF_vars(QueryAll) /\ SF_vars(ConfirmAll)
    /\ SF_vars(Settle) /\ SF_vars(TPProgress) /\ SF_vars(Protect) /\ SF_vars(Decide)
    /\ SF_vars(Latch) /\ SF_vars(Finish) /\ SF_vars(Withdraw)
    /\ WF_vars(\E i \in Legs : Arrive(i))

FairSpec == Spec /\ Fairness

-----------------------------------------------------------------------------
(* Correctness.                                                            *)

Sent(i) == leg[i].status = "PLANNED" /\ leg'[i].status \notin {"PLANNED", "ABANDONED"}

(* The one-way latch: once entry_disabled is stored, "even a crash or a    *)
(* cancel/fill race cannot permit later replenishment": no leg is sent.    *)
LatchIsOneWay == [][ctx.disabled => \A i \in Legs : ~ Sent(i)]_vars

(* The second leg is sent only after the first one filled completely and   *)
(* the stop covers what the trade holds.                                   *)
SecondLegProtected ==
    [][Split /\ Sent(2) => market[1].exec = leg[1].qty /\ ctx.stop >= ctx.qty]_vars

(* A trade that is CANCELLED or EXPIRED leaves nothing behind, whatever    *)
(* raced its cancellation: no leg can execute at the venue any more, the   *)
(* position is not the trade's, and if a leg did execute the trade is a    *)
(* CANCELLED one that had opened and lost its position before.             *)
CancelledIsOver ==
    ctx.state \in {"CANCELLED", "EXPIRED"} =>
        /\ \A i \in Legs : market[i].net \notin {"flight", "live"}
        /\ pos <= added
        /\ (\E i \in Legs : market[i].exec > 0) => ctx.state = "CANCELLED" /\ ctx.opened

(* What the comments of state_machine.go and of ExecuteCancel say of a     *)
(* CANCELLED trade, "entry cancelled before fill".  Not so: the cancel of  *)
(* an open trade whose position is gone marks it CANCELLED as well.        *)
CancelledBeforeFill ==
    ctx.state = "CANCELLED" => \A i \in Legs : market[i].exec = 0

(* entry_working is what keeps the ownership of the symbol and side: while *)
(* it is down no leg can execute at the venue any more.                    *)
WorkingIsTrue ==
    ~ ctx.working => \A i \in Legs : market[i].net \notin {"flight", "live"}

(* An entry past its deadline ends: the trade opens, expires, or is being  *)
(* closed.                                                                 *)
Overdue  == late /\ ctx.state = "ENTRY_PENDING"
Resolved == ctx.state # "ENTRY_PENDING" \/ ctx.closing
EntryResolves == Overdue ~> Resolved

(* "A manual reduction still terminates replenishment": once the ledger    *)
(* has recorded that the position shrank, no second leg is sent.           *)
ReductionEndsEntry == [][Split /\ Sent(2) => ~ reduced]_vars
=============================================================================
