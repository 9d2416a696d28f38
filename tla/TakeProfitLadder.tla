--------------------------- MODULE TakeProfitLadder ---------------------------
(***************************************************************************)
(* The take-profit ladder of one open trade on a venue with managed orders *)
(* (copytrader/protections.go, tp_reduction.go, tp_update.go,              *)
(* cancelTrackedTPs).  Every level of the durable plan rests as one        *)
(* reduce-only limit order under a client identity of its own.  A pass of  *)
(* reconciliation, an author who takes one level off at market, and an     *)
(* author who replaces the ladder all work on the plan; the engine's mutex *)
(* lets one handler run at a time, so between two of its steps the venue,  *)
(* the account owner, the clock and a crash act.                           *)
(*                                                                         *)
(* Quantities are lots, the venue's quantity step.  The entry is complete: *)
(* the position only shrinks.  The stop is StopGuard's, the submission of  *)
(* the market exit ManagedExit's: here an exit that was sent executes.     *)
(***************************************************************************)
EXTENDS Integers, Sequences

CONSTANTS Recipe,       \* lots of each level, in the order of the levels
          StartQty,     \* lots of the position when the ladder is planned
          Ratios,       \* percent of each level after an update
          MarketMin,    \* least lots of a market order
          MaxResubmits, \* maxExitResubmits
          Asks,         \* what the author asks for: "update", "reduce"
          MaxFaults     \* lost calls, refusals, failed lookups, crashes, and
                        \* actions of the account owner

Last   == Len(Recipe)
Levels == 1 .. Last

\* The sum of a function on the levels.
Sum(f) ==
    LET upto[l \in 0 .. Last] == IF l = 0 THEN 0 ELSE upto[l - 1] + f[l]
    IN  upto[Last]
Planned == Sum(Recipe)
Offered == Sum(Ratios)

ASSUME LadderAssumption ==
    /\ Recipe \in Seq(Nat \ {0}) /\ Ratios \in Seq(Nat) /\ Len(Ratios) = Last
    /\ StartQty \in Nat /\ Planned <= StartQty /\ Offered \in 1 .. 100
    /\ {MarketMin, MaxResubmits, MaxFaults} \subseteq Nat
    /\ Asks \subseteq {"update", "reduce"}

VARIABLES
    pos,      \* lots of the position at the venue
    plan,     \* tp_plan_json, by level
    synced,   \* tp_position_quantity
    upd,      \* the stage of tp_update_intent_json, or ""
    exit,     \* close_pending_json of a level taken off at market
    row,      \* ledger status of the order under the level's client identity
    ord,      \* that order at the venue
    held,     \* levels whose order is not due: tpRetryAt, or the price is far
    run,      \* the running handler
    asks,     \* what is left of Asks
    faults,   \* faults so far
    old,      \* history: lots that the level's earlier identities sold
    stray     \* history: orders that left the plan alive, or with fills it never had

vars == <<pos, plan, synced, upd, exit, row, ord, held, run, asks, faults, old, stray>>

NoOrder == [at |-> "none", qty |-> 0, exec |-> 0]
NoExit  == [lv |-> 0, st |-> "none", qty |-> 0, exec |-> 0, prior |-> 0, tries |-> 0]
NoRun   == [op |-> "none", pc |-> "idle", l |-> 0, q |-> 0]

Init ==
    /\ pos = StartQty
    /\ plan = [l \in Levels |-> [qty |-> Recipe[l], want |-> Recipe[l], fill |-> 0, prior |-> 0,
                                 repl |-> 0, sync |-> 0, done |-> FALSE, by |-> FALSE,
                                 oid |-> FALSE, cid |-> FALSE, st |-> "PLANNED"]]
    /\ synced = 0 /\ upd = "" /\ exit = NoExit
    /\ row = [l \in Levels |-> "none"] /\ ord = [l \in Levels |-> NoOrder]
    /\ held = {} /\ run = NoRun
    /\ asks = Asks /\ faults = 0
    /\ old = [l \in Levels |-> 0] /\ stray = {}

-----------------------------------------------------------------------------
(* Quantities                                                              *)

Least(a, b) == IF a < b THEN a ELSE b
Most(a, b)  == IF a > b THEN a ELSE b

rem(tp)   == Most(0, tp.qty - tp.fill)
Open(p)   == {l \in Levels : ~p[l].done /\ ~p[l].by}
Total(p)  == Sum([l \in Levels |-> IF l \in Open(p) THEN rem(p[l]) ELSE 0])
tpCumulativeFill(tp) == tp.fill + tp.prior + tp.repl
Since(p)  == Sum([l \in Levels |-> Most(0, tpCumulativeFill(p[l]) - p[l].sync)])
Stamped(p) == [l \in Levels |-> [p[l] EXCEPT !.sync = tpCumulativeFill(p[l])]]

(* Mutant: an external reduction scales the levels, whatever is left.      *)
tpRescale_NoGuard(p, l, q) ==
    LET base == synced - Since(p)
    IN  IF base > 0 THEN (rem(p[l]) * q) \div base ELSE rem(p[l])

\* What is left of a level when the position is q: its share of a reduction
\* that no fill of the ladder explains, and never more than q in total.
tpRescale(p, l, q) ==
    LET base == synced - Since(p)
        most == (rem(p[l]) * q) \div Total(p)
    IN  IF synced > 0 /\ base > 0
        THEN Least((rem(p[l]) * q) \div base, most)
        ELSE Least(rem(p[l]), most)

\* The lots an update gives each level of p: SplitTPQuantities of the weights
\* of remainingTPAllocation.  The last level takes what rounding left.
Sold(tp)     == tp.fill + tp.prior
Weight(p, l) == IF p[l].done THEN 0
                ELSE Most(0, (pos + Sum([k \in Levels |-> Sold(p[k])])) * Ratios[l] - 100 * Sold(p[l]))
Weights(p)   == Sum([l \in Levels |-> Weight(p, l)])
Share(p, l)  == (pos * Weight(p, l) * Offered) \div (100 * Weights(p))
Allotted(p, l) ==
    IF l = Last
    THEN (pos * Offered) \div 100 - Sum([k \in Levels |-> IF k = l THEN 0 ELSE Share(p, k)])
    ELSE Share(p, l)

-----------------------------------------------------------------------------
(* The plan and the orders                                                 *)

Landed(l)   == ord[l].at \in {"live", "filled", "over"}
Grown(l)    == ord[l].exec > plan[l].fill
Pending(tp) == ~tp.done /\ ~tp.oid /\ tp.cid /\ tp.st # "REJECTED"

\* A level after the answer of its order.
Refreshed(tp, o) ==
    IF ~tp.oid \/ tp.done THEN tp
    ELSE [tp EXCEPT !.want = IF o.at = "filled" THEN 0 ELSE Most(0, @ - (o.exec - tp.fill)),
                    !.fill = o.exec, !.done = o.at = "filled",
                    !.st = CASE o.at = "filled" -> "FILLED"
                             [] o.at = "over"   -> "CANCELED"
                             [] OTHER           -> "NEW"]

\* refreshTPProgressChecked.  Fills of two levels commute, so that the lookups
\* of the levels are one step.
refreshTPProgress == [l \in Levels |-> Refreshed(plan[l], ord[l])]

(* Mutant: the fills of the identity that is given up are not carried over. *)
replanTP_FillsLost(tp) ==
    [tp EXCEPT !.fill = 0, !.oid = FALSE, !.cid = FALSE, !.st = "PLANNED"]

\* The current identity is given up, its fills become prior ones, and the
\* level may be submitted again under a new one.
replanTP(tp) ==
    [tp EXCEPT !.prior = @ + tp.fill, !.fill = 0, !.oid = FALSE, !.cid = FALSE, !.st = "PLANNED"]

\* The identities of the levels S leave the plan.  Those that were alive, or had
\* fills that the plan never learnt of, are strays.
Forget(S, why) ==
    /\ row' = [l \in Levels |-> IF l \in S THEN "none" ELSE row[l]]
    /\ ord' = [l \in Levels |-> IF l \in S THEN NoOrder ELSE ord[l]]
    /\ old' = [l \in Levels |-> IF l \in S THEN old[l] + ord[l].exec ELSE old[l]]
    /\ stray' = stray \cup {[lv |-> l, why |-> why, qty |-> ord[l].qty - ord[l].exec] :
                               l \in {k \in S : ord[k].at \in {"flying", "live"} \/ Grown(k)}}

At(pc)   == run.pc = pc
Goto(pc) == run' = [run EXCEPT !.pc = pc]
Leave    == run' = NoRun
Begin(op, pc) == run' = [op |-> op, pc |-> pc, l |-> 1, q |-> 0]
Fault    == faults < MaxFaults /\ faults' = faults + 1

SaveTP(tp)    == plan' = [plan EXCEPT ![run.l] = tp]
SetRow(st)    == row' = [row EXCEPT ![run.l] = st]
SetOrder(l, at) == ord' = [ord EXCEPT ![l].at = at]

\* What a step of a handler leaves alone, by what it writes.
Book    == <<row, ord, old, stray>>
Ctx     == <<synced, upd, exit>>

-----------------------------------------------------------------------------
(* restoreRemainingProtections, after its caller has read the position     *)

StartPass ==
    /\ At("idle") /\ pos > 0
    /\ CASE upd = "CANCEL"            -> Begin("update", "cancel")
         [] upd = "INSTALL"           -> Begin("update", "position")
         [] upd = "" /\ exit.st = "none"   -> Begin("pass", "position")
         [] upd = "" /\ exit.st = "intent" -> Begin("exit", "cover")
         [] OTHER                     -> Begin("exit", "query")
    /\ UNCHANGED <<pos, plan, Ctx, Book, held, asks, faults>>

\* A flat trade is closed elsewhere (finishTradeOrders).
ReadPosition ==
    /\ At("position")
    /\ IF pos > 0
       THEN run' = [run EXCEPT !.pc = "refresh", !.q = pos] /\ UNCHANGED <<upd, exit>>
       ELSE /\ Leave
            /\ upd' = IF run.op = "update" THEN "" ELSE upd
            /\ exit' = IF run.op = "settle" THEN NoExit ELSE exit
    /\ UNCHANGED <<pos, plan, synced, Book, held, asks, faults>>

Refresh ==
    /\ At("refresh")
    /\ plan' = refreshTPProgress
    /\ Goto("scale")
    /\ UNCHANGED <<pos, Ctx, Book, held, asks, faults>>

Rescale ==
    /\ At("scale")
    /\ IF Total(plan) = 0 THEN Goto("finish") /\ UNCHANGED <<plan, synced>>
       ELSE /\ run' = [run EXCEPT !.pc = "level", !.l = 1]
            /\ IF synced = run.q THEN UNCHANGED <<plan, synced>>
               ELSE /\ plan' = Stamped([l \in Levels |->
                                 IF l \in Open(plan)
                                 THEN [plan[l] EXCEPT !.want = tpRescale(plan, l, run.q)]
                                 ELSE plan[l]])
                    /\ synced' = run.q
    /\ UNCHANGED <<pos, upd, exit, Book, held, asks, faults>>

tp == plan[run.l]
o  == ord[run.l]
NextLevel ==
    run' = IF run.l + 1 \in Levels THEN [run EXCEPT !.pc = "level", !.l = @ + 1]
           ELSE [run EXCEPT !.pc = "stamp"]

\* Nothing to do for this level: it ended, it is replaced, it was below the
\* minimum, or its order stands with the lots it should have.
LevelStands ==
    /\ At("level")
    /\ \/ run.l \notin Open(plan)
       \/ ~tp.oid /\ ~tp.cid /\ tp.st # "PLANNED"
       \/ tp.oid /\ o.at = "live" /\ o.exec = tp.fill /\ tp.want = rem(tp)
    /\ NextLevel
    /\ UNCHANGED <<pos, plan, Ctx, Book, held, asks, faults>>

\* The order filled, in part or in full, since the refresh: the position that
\* was read is out of date, and the handler ends.
FillChanged ==
    /\ run.l \in Open(plan) /\ tp.oid
    /\ \/ At("level") /\ (Grown(run.l) \/ o.at = "filled")
       \/ At("after") /\ Grown(run.l)
    /\ plan' = refreshTPProgress
    /\ Leave
    /\ UNCHANGED <<pos, Ctx, Book, held, asks, faults>>

ReplaceOrder ==
    /\ At("level") /\ run.l \in Open(plan) /\ tp.oid
    /\ o.at = "live" /\ o.exec = tp.fill /\ tp.want # rem(tp)
    /\ Goto("withdraw")
    /\ UNCHANGED <<pos, plan, Ctx, Book, held, asks, faults>>

\* CancelOrder fails for an order that is no longer on the book.
WithdrawOrder ==
    /\ At("withdraw")
    /\ IF o.at = "live" THEN SetOrder(run.l, "over") /\ Goto("after")
       ELSE UNCHANGED ord /\ Leave
    /\ UNCHANGED <<pos, plan, Ctx, row, old, stray, held, asks, faults>>

\* The order ended without a fill that the plan does not have.
RetireOrder ==
    /\ \/ At("level") /\ run.l \in Open(plan) /\ tp.oid /\ o.at = "over"
       \/ At("after")
    /\ ~Grown(run.l)
    /\ SaveTP([replanTP(tp) EXCEPT !.qty = tp.want])
    /\ Forget({run.l}, "replan")
    /\ Goto("place")
    /\ UNCHANGED <<pos, Ctx, held, asks, faults>>

AtPlace == \/ At("place")
           \/ At("level") /\ run.l \in Open(plan) /\ ~tp.oid /\ (tp.cid \/ tp.st = "PLANNED")

BelowMinimum ==
    /\ AtPlace /\ tp.want = 0
    /\ SaveTP([tp EXCEPT !.st = "BELOW_MINIMUM"])
    /\ NextLevel
    /\ UNCHANGED <<pos, Ctx, Book, held, asks, faults>>

(* Mutant: a level that has to wait ends the pass.                         *)
HeldBack_EndsPass ==
    /\ AtPlace /\ tp.want > 0 /\ ~tp.cid /\ run.l \in held
    /\ Leave
    /\ UNCHANGED <<pos, plan, Ctx, Book, held, asks, faults>>

HeldBack ==
    /\ AtPlace /\ tp.want > 0 /\ ~tp.cid /\ run.l \in held
    /\ NextLevel
    /\ UNCHANGED <<pos, plan, Ctx, Book, held, asks, faults>>

\* CreateProtectionOrder: the row and the link in the plan are one write.
PlanOrder ==
    /\ AtPlace /\ tp.want > 0 /\ ~tp.cid /\ run.l \notin held
    /\ SaveTP([tp EXCEPT !.cid = TRUE, !.qty = tp.want])
    /\ SetRow("PLANNED") /\ Goto("place")
    /\ UNCHANGED <<pos, Ctx, ord, old, stray, held, asks, faults>>

Settles(st) == AtPlace /\ tp.want > 0 /\ tp.cid /\ row[run.l] \in st

\* submitManaged: SUBMITTING is written and the request leaves.
Submit ==
    /\ Settles({"PLANNED"})
    /\ SetRow("SUBMITTING") /\ Goto("answer")
    /\ ord' = [ord EXCEPT ![run.l] = [at |-> "flying", qty |-> tp.qty, exec |-> 0]]
    /\ UNCHANGED <<pos, plan, Ctx, old, stray, held, asks, faults>>

Answered ==
    /\ At("answer") /\ o.at \notin {"flying", "lost"}
    /\ SetRow(CASE o.at = "refused" -> "REJECTED" [] o.at = "banded" -> "REJECTED_RETRY"
                [] OTHER -> "KNOWN")
    /\ Goto("place")
    /\ UNCHANGED <<pos, plan, Ctx, ord, old, stray, held, asks, faults>>

\* The answer is lost; the client identity is looked up at once.
Unanswered ==
    /\ At("answer")
    /\ IF o.at = "lost" THEN UNCHANGED faults ELSE Fault
    /\ \/ SetRow("KNOWN") /\ Landed(run.l) /\ Goto("place")
       \/ SetRow("UNKNOWN") /\ NextLevel
    /\ UNCHANGED <<pos, plan, Ctx, ord, old, stray, held, asks>>

\* recordManagedResult: the answer tells any fill there was by then.
RowConfirmed ==
    /\ Settles({"KNOWN"})
    /\ \E e \in 0 .. o.exec :
          \E st \in IF e = o.qty THEN {"FILLED"}
                    ELSE IF o.at = "over" /\ e = o.exec THEN {"NEW", "CANCELED"} ELSE {"NEW"} :
             SaveTP([tp EXCEPT !.oid = TRUE, !.fill = e, !.done = e = o.qty, !.st = st])
    /\ NextLevel
    /\ UNCHANGED <<pos, Ctx, Book, held, asks, faults>>

\* A price band, a rate limit, a clock: the level waits tpRejectedRetry.
RowRejectedRetry ==
    /\ Settles({"REJECTED_RETRY"})
    /\ held' = held \cup {run.l}
    /\ SaveTP(replanTP(tp)) /\ Forget({run.l}, "rejected")
    /\ NextLevel
    /\ UNCHANGED <<pos, Ctx, asks, faults>>

RowRejected ==
    /\ Settles({"REJECTED"})
    /\ SaveTP([tp EXCEPT !.st = "REJECTED"])
    /\ NextLevel
    /\ UNCHANGED <<pos, Ctx, Book, held, asks, faults>>

RowAbandoned ==
    /\ Settles({"ABANDONED"})
    /\ SaveTP(replanTP(tp)) /\ Forget({run.l}, "abandoned")
    /\ Goto("place")
    /\ UNCHANGED <<pos, Ctx, held, asks, faults>>

\* settleUnplacedTP looks the client identity up.
RowFound ==
    /\ Settles({"SUBMITTING", "UNKNOWN"}) /\ Landed(run.l)
    /\ SetRow("KNOWN") /\ Goto("place")
    /\ UNCHANGED <<pos, plan, Ctx, ord, old, stray, held, asks, faults>>

RowNotFound ==
    /\ Settles({"SUBMITTING", "UNKNOWN"})
    /\ IF Landed(run.l) THEN Fault ELSE UNCHANGED faults
    /\ NextLevel
    /\ UNCHANGED <<pos, plan, Ctx, Book, held, asks>>

(* Mutant: one lookup that does not find the order is enough.              *)
RowAged_NoGrace ==
    /\ Settles({"SUBMITTING", "UNKNOWN"}) /\ ~Landed(run.l)
    /\ SetRow("ABANDONED") /\ Goto("place")
    /\ UNCHANGED <<pos, plan, Ctx, ord, old, stray, held, asks, faults>>

\* Not found for tpUnknownGrace, which outlives a request that is on its way.
RowAged ==
    /\ Settles({"SUBMITTING", "UNKNOWN"}) /\ ~Landed(run.l) /\ o.at # "flying"
    /\ SetRow("ABANDONED") /\ Goto("place")
    /\ UNCHANGED <<pos, plan, Ctx, ord, old, stray, held, asks, faults>>

\* The fills that the position of this pass is taken to reflect.
Stamp ==
    /\ At("stamp")
    /\ plan' = Stamped(plan) /\ synced' = run.q
    /\ Goto("finish")
    /\ UNCHANGED <<pos, upd, exit, Book, held, asks, faults>>

-----------------------------------------------------------------------------
(* What follows the protections: the end of a pass or of an update, or the *)
(* verdict on a market exit that ended (reconcileManagedCloseStep)         *)

Outstanding == exit.qty - exit.exec
Resubmits   == exit.tries < MaxResubmits /\ Least(run.q, Outstanding) >= MarketMin

Finish ==
    /\ At("finish")
    /\ IF run.op # "settle" THEN Leave ELSE
       CASE Outstanding = 0 -> Leave
         [] Outstanding > 0 /\ Resubmits -> run' = [run EXCEPT !.op = "exit", !.pc = "send"]
         [] OTHER -> run' = [run EXCEPT !.op = "undo", !.pc = "position"]
    /\ upd' = IF run.op = "update" THEN "" ELSE upd
    /\ exit' = IF run.op # "settle" THEN exit
               ELSE IF Outstanding > 0 /\ Resubmits
               THEN [exit EXCEPT !.st = "planned", !.qty = Least(run.q, Outstanding), !.exec = 0,
                                 !.prior = @ + exit.exec, !.tries = @ + 1]
               ELSE NoExit
    /\ UNCHANGED <<pos, plan, synced, Book, held, asks, faults>>

-----------------------------------------------------------------------------
(* ExecuteTPReduction: one level is taken off at market                    *)

Rest(t) == Least(rem(t), t.want)

\* The checks come before anything durable; a level that cannot be sent is
\* left as it is and the author told.
BeginReduce(l) ==
    /\ At("idle") /\ "reduce" \in asks /\ pos > 0
    /\ upd = "" /\ exit.st = "none" /\ ~plan[l].by
    /\ asks' = asks \ {"reduce"}
    /\ plan' = refreshTPProgress
    /\ IF plan'[l].done \/ (Rest(plan'[l]) > 0 /\ Least(Rest(plan'[l]), pos) < MarketMin)
       THEN UNCHANGED <<exit, run>>
       ELSE exit' = [NoExit EXCEPT !.lv = l, !.st = "intent"] /\ Begin("exit", "cover")
    /\ UNCHANGED <<pos, synced, upd, Book, held, faults>>

Cover ==
    /\ At("cover")
    /\ plan' = refreshTPProgress
    /\ LET t == plan'[exit.lv] IN
       CASE t.oid /\ t.st = "NEW" -> Goto("withdrawOne")
         [] Pending(t)            -> Leave
         [] OTHER                 -> Goto("size")
    /\ UNCHANGED <<pos, Ctx, Book, held, asks, faults>>

\* The error of CancelOrder is passed over: the status afterwards decides.
WithdrawOne ==
    /\ At("withdrawOne")
    /\ IF ord[exit.lv].at = "live" THEN SetOrder(exit.lv, "over") ELSE UNCHANGED ord
    /\ Goto("size")
    /\ UNCHANGED <<pos, plan, Ctx, row, old, stray, held, asks, faults>>

Size ==
    /\ At("size")
    /\ LET p == refreshTPProgress
           t == p[exit.lv] IN
       CASE pos = 0 \/ t.done \/ Rest(t) = 0 -> exit' = NoExit /\ Leave /\ plan' = p
         [] pos > 0 /\ ~t.done /\ Rest(t) > 0 /\ Least(Rest(t), pos) < MarketMin ->
              /\ exit' = NoExit /\ plan' = p
              /\ run' = [run EXCEPT !.op = "undo", !.pc = "position"]
         [] OTHER ->
              /\ plan' = [p EXCEPT ![exit.lv].by = TRUE]
              /\ run' = [run EXCEPT !.pc = "order", !.q = Least(Rest(t), pos)] /\ UNCHANGED exit
    /\ UNCHANGED <<pos, synced, upd, Book, held, asks, faults>>

OrderExit ==
    /\ At("order")
    /\ exit' = [exit EXCEPT !.st = "planned", !.qty = run.q]
    /\ Goto("send")
    /\ UNCHANGED <<pos, plan, synced, upd, Book, held, asks, faults>>

SendExit ==
    /\ At("send")
    /\ exit' = [exit EXCEPT !.st = "flying"] /\ Goto("query")
    /\ UNCHANGED <<pos, plan, synced, upd, Book, held, asks, faults>>

\* recordTPReplacementFill; then the protections; then, of an exit that
\* ended, the verdict.
QueryExit ==
    /\ At("query")
    /\ CASE exit.st = "planned" -> Goto("send") /\ UNCHANGED plan
         [] exit.st = "flying"  -> Goto("position") /\ UNCHANGED plan
         [] OTHER ->
              /\ plan' = LET t    == plan[exit.lv]
                             sold == exit.prior + exit.exec
                         IN  IF sold <= t.repl THEN plan
                             ELSE [plan EXCEPT ![exit.lv] =
                                     [t EXCEPT !.repl = sold,
                                               !.done = t.done \/ t.fill + sold >= t.qty]]
              /\ run' = [run EXCEPT !.op = "settle", !.pc = "position"]
    /\ UNCHANGED <<pos, Ctx, Book, held, asks, faults>>

\* A reduce-only market order sells what there is, rarely less than asked.
ExitRuns ==
    /\ exit.st = "flying"
    /\ \E e \in 0 .. Least(exit.qty, pos) :
          /\ IF e = Least(exit.qty, pos) THEN UNCHANGED faults ELSE Fault
          /\ pos' = pos - e
          /\ exit' = [exit EXCEPT !.st = "over", !.exec = e]
    /\ UNCHANGED <<plan, synced, upd, Book, held, asks, run>>

-----------------------------------------------------------------------------
(* updateTakeProfits: the author replaces the ladder                       *)

BeginUpdate ==
    /\ At("idle") /\ "update" \in asks /\ upd = "" /\ pos > 0
    /\ asks' = asks \ {"update"}
    /\ upd' = "CANCEL" /\ Begin("update", "cancel")
    /\ UNCHANGED <<pos, plan, synced, exit, Book, held, faults>>

Cancelling == At("cancel")
Skipped(t) == t.done \/ (~t.oid /\ t.st = "PLANNED") \/ t.st \in {"CANCELED", "REJECTED", "FILLED"}
NextCancel ==
    run' = IF run.l + 1 \in Levels THEN [run EXCEPT !.pc = "cancel", !.l = @ + 1]
           ELSE [run EXCEPT !.pc = "allocate"]

SkipLevel ==
    /\ Cancelling /\ Skipped(tp)
    /\ NextCancel
    /\ UNCHANGED <<pos, plan, Ctx, Book, held, asks, faults>>

\* Without an order ID nothing can be cancelled, and an order that is not on
\* the book any more cannot either: the update stays pending.
CancelLevel ==
    /\ Cancelling /\ ~Skipped(tp)
    /\ IF tp.oid /\ o.at = "live" THEN SetOrder(run.l, "over") /\ Goto("cancelled")
       ELSE UNCHANGED ord /\ Leave
    /\ UNCHANGED <<pos, plan, Ctx, row, old, stray, held, asks, faults>>

Cancelled ==
    /\ At("cancelled")
    /\ IF Grown(run.l) THEN plan' = refreshTPProgress /\ Leave
       ELSE UNCHANGED plan /\ NextCancel
    /\ UNCHANGED <<pos, Ctx, Book, held, asks, faults>>

\* The new plan, its stage and the position it is meant for are one write.
Allocate ==
    /\ At("allocate")
    /\ LET p == refreshTPProgress
           kept == {l \in Levels : p[l].done} IN
       CASE pos = 0 -> upd' = "" /\ plan' = p /\ Leave /\ UNCHANGED <<synced, Book>>
         [] pos > 0 /\ Weights(p) = 0 -> plan' = p /\ Leave /\ UNCHANGED <<upd, synced, Book>>
         [] OTHER ->
              /\ plan' = Stamped([l \in Levels |-> IF l \in kept THEN p[l]
                              ELSE [replanTP(p[l]) EXCEPT !.qty = Allotted(p, l), !.want = Allotted(p, l)]])
              /\ Forget(Levels \ kept, "update")
              /\ synced' = pos /\ upd' = "INSTALL" /\ Goto("position")
    /\ UNCHANGED <<pos, exit, held, asks, faults>>

-----------------------------------------------------------------------------
(* The venue, the account owner, the clock and the process                 *)

\* Of the requests that are on their way, the venue refuses some for good and
\* some for the moment, and some are lost.
Arrive(l) ==
    /\ ord[l].at = "flying"
    /\ \/ SetOrder(l, "live") /\ UNCHANGED faults
       \/ \E at \in {"refused", "banded", "lost"} : SetOrder(l, at) /\ Fault
    /\ UNCHANGED <<pos, plan, Ctx, row, old, stray, held, run, asks>>

Fill(l) ==
    /\ ord[l].at = "live" /\ pos > 0
    /\ pos' = pos - 1
    /\ ord' = [ord EXCEPT ![l].exec = @ + 1,
                          ![l].at = IF ord[l].exec + 1 = ord[l].qty THEN "filled" ELSE "live"]
    /\ UNCHANGED <<plan, Ctx, row, old, stray, held, run, asks, faults>>

\* An order that the plan forgot is still in the book.
StrayFills(s) ==
    /\ s.qty > 0 /\ pos > 0
    /\ pos' = pos - 1
    /\ stray' = (stray \ {s}) \cup {[s EXCEPT !.qty = @ - 1]}
    /\ UNCHANGED <<plan, Ctx, row, ord, old, held, run, asks, faults>>

OwnerCancels(l) ==
    /\ ord[l].at = "live" /\ Fault
    /\ SetOrder(l, "over")
    /\ UNCHANGED <<pos, plan, Ctx, row, old, stray, held, run, asks>>

OwnerReduces ==
    /\ pos > 0 /\ Fault
    /\ pos' = pos - 1
    /\ UNCHANGED <<plan, Ctx, Book, held, run, asks>>

\* The price of the level leaves the band in which the venue takes orders.
PriceLeaves(l) ==
    /\ l \notin held /\ Fault
    /\ held' = held \cup {l}
    /\ UNCHANGED <<pos, plan, Ctx, Book, run, asks>>

RetryDue(l) ==
    /\ l \in held
    /\ held' = held \ {l}
    /\ UNCHANGED <<pos, plan, Ctx, Book, run, asks, faults>>

\* A call or a write fails and the handler returns its error, or the process
\* dies and tpRetryAt with it.
HandlerStops ==
    /\ ~At("idle") /\ Fault
    /\ Leave
    /\ held' \in {held, {}}
    /\ UNCHANGED <<pos, plan, Ctx, Book, asks>>

Pass ==
    \/ StartPass \/ ReadPosition \/ Refresh \/ Rescale
    \/ LevelStands \/ FillChanged \/ ReplaceOrder \/ WithdrawOrder \/ RetireOrder
    \/ BelowMinimum \/ HeldBack \/ PlanOrder \/ Submit \/ Answered \/ Unanswered
    \/ RowConfirmed \/ RowRejectedRetry \/ RowRejected \/ RowAbandoned
    \/ RowFound \/ RowNotFound \/ RowAged \/ Stamp \/ Finish

ExecuteTPReduction ==
    \/ \E l \in Levels : BeginReduce(l)
    \/ Cover \/ WithdrawOne \/ Size \/ OrderExit \/ SendExit \/ QueryExit

updateTakeProfits ==
    BeginUpdate \/ SkipLevel \/ CancelLevel \/ Cancelled \/ Allocate

Environment ==
    \/ \E l \in Levels : \/ Arrive(l) \/ Fill(l) \/ OwnerCancels(l)
                         \/ PriceLeaves(l) \/ RetryDue(l)
    \/ \E s \in stray : StrayFills(s)
    \/ OwnerReduces \/ ExitRuns \/ HandlerStops

Next == Pass \/ ExecuteTPReduction \/ updateTakeProfits \/ Environment

Spec == Init /\ [][Next]_vars

\* The engine's loop begins a pass again and again, and what began goes on;
\* requests arrive; time passes.
Handler  == Pass \/ ExecuteTPReduction \/ updateTakeProfits
Arrivals == \E l \in Levels : Arrive(l)
FairSpec == Spec /\ WF_vars(Handler) /\ WF_vars(Arrivals) /\ WF_vars(ExitRuns) /\ SF_vars(RowAged)

-----------------------------------------------------------------------------
(* Correctness                                                             *)

TypeOK ==
    /\ pos \in 0 .. StartQty /\ synced \in 0 .. StartQty /\ upd \in {"", "CANCEL", "INSTALL"}
    /\ \A l \in Levels :
          /\ \A k \in {"qty", "want", "fill", "prior", "repl", "sync"} : plan[l][k] \in Nat
          /\ plan[l].st \in {"PLANNED", "BELOW_MINIMUM", "REJECTED", "NEW", "CANCELED", "FILLED"}
          /\ row[l] \in {"none", "PLANNED", "SUBMITTING", "UNKNOWN", "KNOWN", "REJECTED",
                         "REJECTED_RETRY", "ABANDONED"}
          /\ ord[l].at \in {"none", "flying", "live", "filled", "over", "refused", "banded", "lost"}
          /\ ord[l].exec <= ord[l].qty
    /\ exit.lv \in Levels \cup {0} /\ exit.st \in {"none", "intent", "planned", "flying", "over"}
    /\ held \subseteq Levels /\ asks \subseteq Asks

(* At most one order sells the lots of a level: an order that may still    *)
(* execute leaves the plan only by an update of the ladder, and a level is *)
(* sold at market only after its own order ended.                          *)
OneSellerPerLevel ==
    /\ \A s \in stray : s.why = "update"
    /\ exit.lv # 0 /\ exit.st \in {"planned", "flying", "over"} =>
          ord[exit.lv].at \notin {"flying", "live"}

(* tpRescale: the remaining take profits never ask for more than the       *)
(* position that the pass has read.                                        *)
Wanted(p) == Sum([l \in Levels |-> IF l \in Open(p) THEN p[l].want ELSE 0])
WithinPosition == At("level") /\ run.l = 1 /\ synced = run.q => Wanted(plan) <= run.q

(* The ladder never sells more than the trade holds.                       *)
NeverOversold == OneSellerPerLevel /\ WithinPosition

(* What a level sold is never forgotten: the fills of the identities it    *)
(* gave up are its prior fills, whatever was replanned, refused or retried *)
(* -- but for an identity that an update dropped unsettled.                *)
Dropped(l) == \E s \in stray : s.lv = l
FillsKept ==
    \A l \in Levels : ~Dropped(l) => plan[l].prior = old[l] /\ plan[l].fill <= ord[l].exec

(* Again and again every level of an open trade has the order it should    *)
(* have, or is known not to get one.  Trapped is where the code stays for  *)
(* ever (see the README): an intent that was stored and cannot go on.      *)
Stands(l) ==
    \/ l \notin Open(plan) \/ rem(plan[l]) = 0
    \/ plan[l].oid /\ ord[l].at = "live" /\ plan[l].want = rem(plan[l])
    \/ ~plan[l].oid /\ plan[l].st \in {"BELOW_MINIMUM", "REJECTED"}
    \/ l \in held /\ ~plan[l].cid
Trapped ==
    \/ exit.st = "intent" /\ Pending(plan[exit.lv])
    \/ upd = "CANCEL" /\ Weights(refreshTPProgress) = 0
    \/ upd = "CANCEL" /\ \E l \in Levels : ~Skipped(plan[l]) /\ (plan[l].oid => ord[l].at # "live")
LadderStands ==
    \/ pos = 0 \/ Trapped
    \/ At("idle") /\ upd = "" /\ exit = NoExit /\ \A l \in Levels : Stands(l)

(* "A TP that cannot be confirmed or was refused must never block the      *)
(* stop, other levels, exits or finalization": a level that is taken off   *)
(* at market is taken off, or the author is told.                          *)
ReductionEnds == exit.lv # 0 ~> exit.lv = 0 \/ pos = 0
=============================================================================
