------------------------------- MODULE StopGuard -------------------------------
(***************************************************************************)
(* The stop-loss of one open trade on a venue with managed orders          *)
(* (Executor.setStopProtection and what it calls, the cleanup of a flat    *)
(* trade in finishTradeOrders).  A replacement is a durable intent that is *)
(* saved before the venue is touched: PLANNED, SUBMITTING, then confirmed  *)
(* by a query, or REJECTED or UNKNOWN.  Every network call is a step of    *)
(* its own; the engine's mutex lets one handler run at a time, so between  *)
(* its steps only the venue, the account owner, the clock and a crash act. *)
(* The trade is LONG: a higher stop is a tighter one.  Stops of the venue  *)
(* are closePosition orders, so their quantity plays no part.              *)
(***************************************************************************)
EXTENDS Naturals, FiniteSets

CONSTANTS Prices,      \* price levels of a stop
          MaxIds,      \* client identities in use at a time (see Fresh)
          MaxFaults,   \* lost calls, refusals and crashes
          MaxMoves,    \* new targets and moves of the account owner
          Grace,       \* stopNotFoundGrace, in ticks
          Alert        \* stopUnprotectedAlertAfter, in ticks

StopGuardAssumption ==
    /\ Prices \subseteq Nat \ {0} /\ Prices # {}
    /\ {MaxIds, MaxFaults, MaxMoves} \subseteq Nat /\ MaxIds >= 4    \* so that Fresh exists
    /\ Grace \in Nat \ {0} /\ Alert \in Nat /\ Grace < Alert

VARIABLES
    open,      \* the position exists at the venue
    stops,     \* stop orders of the side at the venue, by client identity
    ctx,       \* the durable trade context
    pc,        \* where the running handler is
    target,    \* the stop price the running handler was asked for
    miss,      \* posMissSeen: a pass saw no position
    faults, moves

vars == <<open, stops, ctx, pc, target, miss, faults, moves>>

Foreign == 0                     \* the stop of the account owner
NoId == MaxIds + 1
StopIds == 1 .. MaxIds
Sent == {"SUBMITTING", "UNKNOWN"}

NoIntent == [stage |-> "NONE", id |-> NoId, price |-> 0, requested |-> 0, old |-> NoId,
             code |-> "", nf |-> 0, nfAge |-> 0, sentAge |-> 0, age |-> 0]

Init ==
    /\ open = TRUE
    /\ stops = [i \in StopIds \cup {Foreign} |-> [price |-> 0, st |-> "none"]]
    /\ \E p \in Prices : ctx = [state |-> "OPEN", price |-> p, requested |-> p, oid |-> NoId,
                                intent |-> NoIntent, closing |-> FALSE]
    /\ pc = "idle" /\ target = 0 /\ miss = FALSE
    /\ faults = 0 /\ moves = 0

-----------------------------------------------------------------------------
pending == ctx.intent.stage # "NONE"
Live == {i \in DOMAIN stops : stops[i].st = "live"}

\* An open-order list lacks, for a moment, an order that was just accepted.
Views == {V \in SUBSET Live :
             Live \ V \subseteq IF ctx.intent.sentAge = 0 THEN {ctx.intent.id} ELSE {}}

Goto(l) == pc' = l /\ target' = 0    \* the target is used by the first step only

\* An order that is over and that the context c does not name is forgotten.
Remembered(c, book) ==
    [i \in DOMAIN book |->
        IF \/ i \in {Foreign, c.oid, c.intent.id, c.intent.old}
           \/ book[i].st \in {"flying", "live", "fired"}
        THEN book[i] ELSE [price |-> 0, st |-> "none"]]
Persist(c) == ctx' = c /\ stops' = Remembered(c, stops) /\ UNCHANGED open
SaveIntent(it) == Persist([ctx EXCEPT !.intent = it])
Book(i, st) == stops' = Remembered(ctx, [stops EXCEPT ![i].st = st])
Fault == faults < MaxFaults /\ faults' = faults + 1
NoFault == UNCHANGED faults
Keep == UNCHANGED <<ctx, open, stops>>

\* The code never uses an identity twice; here one that no order of the book
\* and no field of the context holds any more stands for the next one.
Fresh == CHOOSE i \in StopIds : i \notin {ctx.oid, ctx.intent.id, ctx.intent.old} /\ stops[i].st = "none"

(* Mutant: a renewed intent keeps the identity of the one before it. *)
Renewed_SameIdentity(it, price, requested) ==
    [it EXCEPT !.stage = "PLANNED", !.price = price, !.requested = requested,
               !.old = NoId, !.code = "", !.nf = 0, !.nfAge = 0, !.sentAge = 0]

\* A replacement intent under a fresh identity; UnconfirmedSince survives.
Renewed(it, price, requested) ==
    [it EXCEPT !.stage = "PLANNED", !.id = Fresh, !.price = price, !.requested = requested,
               !.old = NoId, !.code = "", !.nf = 0, !.nfAge = 0, !.sentAge = 0]

(* Mutant: the requested price is recorded, not the one on the book. *)
Recorded_AsRequested(o, requested) ==
    [ctx EXCEPT !.price = requested, !.requested = requested, !.oid = o, !.intent = NoIntent]

\* The stop o becomes the recorded protection of the trade.
Recorded(o, requested) ==
    [ctx EXCEPT !.price = stops[o].price, !.requested = requested, !.oid = o, !.intent = NoIntent]

-----------------------------------------------------------------------------
(* setStopProtection                                                       *)

\* A pass of reconciliation, or of a signal that moves the stop.
BeginPass ==
    /\ pc = "idle" /\ ctx.state = "OPEN" /\ ~ctx.closing /\ open
    /\ miss' = FALSE
    /\ \/ target' = (IF pending THEN ctx.intent.requested ELSE ctx.requested) /\ UNCHANGED moves
       \/ moves < MaxMoves /\ moves' = moves + 1 /\ target' \in Prices
    /\ pc' = "look"
    /\ Keep /\ NoFault

wanted == IF pending THEN ctx.intent.price ELSE target
requested == IF pending THEN ctx.intent.requested ELSE target
Owned(o) == (pending /\ o = ctx.intent.id) \/ ctx.oid = o
Legacy(o, V) == ctx.oid = NoId /\ V = {o} /\ stops[o].price = ctx.price
(* Mutant: only a stop at exactly the wanted price is adequate. *)
Adequate_Exact(V) == {o \in V : (pending => o = ctx.intent.id) /\ stops[o].price = wanted}

Adequate(V) == {o \in V : (pending => o = ctx.intent.id) /\ stops[o].price >= wanted}

\* An adequate stop stands: it is recorded, or its ownership is in doubt.
RetainStop ==
    /\ pc = "look"
    /\ \E V \in Views : \E o \in Adequate(V) :
          Persist(IF Owned(o) \/ Legacy(o, V) THEN Recorded(o, requested) ELSE ctx)
    /\ Goto("idle")
    /\ NoFault /\ UNCHANGED <<miss, moves>>

\* No stop is adequate and nothing is pending: plan a replacement, after the
\* history and the position were read when the recorded stop is gone.  The
\* two reads are one step: an ended stop stays ended.
PlanStop ==
    /\ pc = "look" /\ ~pending
    /\ \E V \in Views :
          /\ Adequate(V) = {}
          /\ LET gone == ctx.oid # NoId /\ V = {}
                 blocked == \/ gone /\ (stops[ctx.oid].st # "ended" \/ ~open)
                            \/ \E o \in V : ~Owned(o) /\ ~Legacy(o, V)
                            \/ Cardinality(V) > 1
                 old == IF V = {} THEN NoId ELSE CHOOSE o \in V : TRUE
             IN IF blocked
                THEN Goto("idle") /\ Keep
                ELSE /\ SaveIntent([Renewed(NoIntent, target, target) EXCEPT !.old = old])
                     /\ Goto(IF old = NoId THEN "submit" ELSE "cancel")
    /\ NoFault /\ UNCHANGED <<miss, moves>>

\* A planned intent of an earlier pass: cancel the old stop if it is listed.
ResumeStop ==
    /\ pc = "look" /\ ctx.intent.stage = "PLANNED"
    /\ \E V \in Views : Adequate(V) = {} /\ Goto(IF ctx.intent.old \in V THEN "cancel" ELSE "submit")
    /\ Keep /\ NoFault /\ UNCHANGED <<miss, moves>>

RejectedStop ==
    /\ pc = "look" /\ ctx.intent.stage = "REJECTED"
    /\ CASE ctx.intent.code = "4130" -> Goto("adopt") /\ Keep
         [] ctx.intent.code = "4509" /\ open -> Goto("idle") /\ SaveIntent(NoIntent)
         [] OTHER -> Goto("fallback") /\ Keep
    /\ NoFault /\ UNCHANGED <<miss, moves>>

\* resolveStopOutcome: the exact history of the identity that was sent.
NotFound == stops[ctx.intent.id].st \in {"none", "flying", "refused"}
counted == [ctx.intent EXCEPT !.nf = IF @ < 2 THEN @ + 1 ELSE 2,
                              !.nfAge = IF ctx.intent.nf = 0 THEN 0 ELSE @]
(* Mutant: two answers are enough, however soon after the submit. *)
stopAbsenceConverged_NoGrace(it) == it.nf = 2

(* Mutant: the absence of a stop is never believed. *)
stopAbsenceConverged_Never(it) == FALSE

stopAbsenceConverged(it) == it.nf = 2 /\ it.nfAge >= Grace /\ it.sentAge >= Grace

ResolveStop ==
    /\ pc = "look" /\ ctx.intent.stage \in Sent
    /\ \E V \in Views :
          /\ Adequate(V) = {}
          /\ \/ /\ ~NotFound /\ stops[ctx.intent.id].st # "ended"
                /\ SaveIntent([ctx.intent EXCEPT !.nf = 0, !.nfAge = 0]) /\ Goto("fallback")
             \/ /\ ~NotFound /\ stops[ctx.intent.id].st = "ended"
                /\ Persist([ctx EXCEPT !.intent = NoIntent, !.oid = NoId]) /\ Goto("idle")
             \/ /\ NotFound /\ ~stopAbsenceConverged(counted)
                /\ SaveIntent(counted) /\ Goto("fallback")
             \/ /\ NotFound /\ stopAbsenceConverged(counted) /\ V # {}
                /\ SaveIntent(counted) /\ Goto("idle")
             \/ /\ NotFound /\ stopAbsenceConverged(counted) /\ V = {} /\ ~open
                /\ Persist([ctx EXCEPT !.intent = NoIntent, !.oid = NoId]) /\ Goto("idle")
             \/ /\ NotFound /\ stopAbsenceConverged(counted) /\ V = {} /\ open
                /\ SaveIntent(Renewed(ctx.intent, ctx.intent.price, ctx.intent.requested)) /\ Goto("submit")
    /\ NoFault /\ UNCHANGED <<miss, moves>>

\* Any other failure of the history query breaks the not-found evidence.
ResolveFails ==
    /\ pc \in {"look", "finish"} /\ ctx.intent.stage \in Sent /\ Fault
    /\ SaveIntent([ctx.intent EXCEPT !.nf = 0, !.nfAge = 0])
    /\ Goto(IF pc = "look" THEN "fallback" ELSE "idle")
    /\ UNCHANGED <<miss, moves>>

\* CancelStopOrder: only the exact old stop; an error ends the pass.
CancelOld ==
    /\ pc = "cancel"
    /\ \/ /\ stops[ctx.intent.old].st = "live"
          /\ Book(ctx.intent.old, "ended")
          /\ \/ Goto("submit") /\ NoFault
             \/ Goto("idle") /\ Fault
       \/ /\ stops[ctx.intent.old].st # "live" /\ Goto("idle") /\ NoFault /\ UNCHANGED stops
    /\ UNCHANGED <<open, ctx, miss, moves>>

BeginSubmit ==
    /\ pc = "submit"
    /\ SaveIntent([ctx.intent EXCEPT !.stage = "SUBMITTING", !.code = "", !.nf = 0, !.nfAge = 0, !.sentAge = 0])
    /\ Goto("send")
    /\ NoFault /\ UNCHANGED <<miss, moves>>

Send ==
    /\ pc = "send"
    /\ stops' = [stops EXCEPT ![ctx.intent.id] = [price |-> ctx.intent.price, st |-> "flying"]]
    /\ Goto("answer")
    /\ NoFault /\ UNCHANGED <<open, ctx, miss, moves>>

\* Not sent, or refused before the engine: the intent stays PLANNED.
NotExecuted ==
    /\ pc = "send" /\ Fault
    /\ SaveIntent([ctx.intent EXCEPT !.stage = "PLANNED"]) /\ Goto("fallback")
    /\ UNCHANGED <<miss, moves>>

SubmitAnswered ==
    /\ pc = "answer" /\ stops[ctx.intent.id].st \in {"live", "fired", "ended"}
    /\ Goto("confirm")
    /\ Keep /\ NoFault /\ UNCHANGED <<miss, moves>>

SubmitUncertain ==
    /\ pc = "answer"
    /\ (stops[ctx.intent.id].st = "none" /\ NoFault) \/ Fault
    /\ SaveIntent([ctx.intent EXCEPT !.stage = "UNKNOWN", !.sentAge = 0]) /\ Goto("fallback")
    /\ UNCHANGED <<miss, moves>>

\* A definite refusal.  With the position still open the old stop is restored
\* under an identity of its own, by a pass of its own.
SubmitRejected ==
    /\ pc = "answer" /\ stops[ctx.intent.id].st = "refused"
    /\ \E code \in {"4130", "4509", "other"} :
          LET it == [ctx.intent EXCEPT !.stage = "REJECTED", !.code = code, !.sentAge = 0]
              restore == code # "4130" /\ open /\ it.old # NoId
          IN /\ code = "4130" => Live # {}
             /\ code = "4509" => ~open
             /\ IF restore
                THEN SaveIntent(Renewed(it, stops[it.old].price, stops[it.old].price))
                ELSE SaveIntent(it)
             /\ Goto(IF code = "4130" THEN "adopt" ELSE IF restore THEN "look" ELSE "idle")
    /\ NoFault /\ UNCHANGED <<miss, moves>>

\* The identity is kept until a query shows the order.
Confirm ==
    /\ pc = "confirm"
    /\ \E V \in Views :
          Persist(IF ctx.intent.id \in V THEN Recorded(ctx.intent.id, ctx.intent.requested) ELSE ctx)
    /\ Goto("idle")
    /\ NoFault /\ UNCHANGED <<miss, moves>>

\* adoptExistingStop: a stop of ours already covers the side.  The venue lists
\* one closePosition stop per side; the earlier identities the code would also
\* accept were given up only after their absence had converged.
AdoptStop ==
    /\ pc = "adopt"
    /\ \E V \in Views :
          \/ /\ V = {} /\ Goto("fallback")
             /\ SaveIntent(Renewed(ctx.intent, ctx.intent.price, ctx.intent.requested))
          \/ \E o \in V : /\ V = {o} /\ o \in {ctx.intent.id, ctx.intent.old, ctx.oid}
                          /\ Persist(Recorded(o, ctx.intent.requested)) /\ Goto("idle")
          \/ /\ V # {} /\ V \cap {ctx.intent.id, ctx.intent.old, ctx.oid} = {}
             /\ Goto("fallback") /\ Keep
    /\ NoFault /\ UNCHANGED <<miss, moves>>

(* Mutant: a trade without a stop is only reported. *)
Fallback_ReportOnly ==
    /\ pc = "fallback" /\ Goto("idle")
    /\ Keep /\ NoFault /\ UNCHANGED <<miss, moves>>

\* unprotectedFallback: no confirmed stop for too long and none listed.
Fallback ==
    /\ pc = "fallback"
    /\ \E V \in Views : Goto(IF ctx.intent.age >= Alert /\ V = {} THEN "emergency" ELSE "idle")
    /\ Keep /\ NoFault /\ UNCHANGED <<miss, moves>>

EmergencyClose ==
    /\ pc = "emergency" /\ Goto("idle")
    /\ \/ Persist([ctx EXCEPT !.closing = open]) /\ NoFault
       \/ Keep /\ Fault
    /\ UNCHANGED <<miss, moves>>

-----------------------------------------------------------------------------
(* The end of the trade: two passes without a position, or a close that     *)
(* filled, then the cleanup of its orders.                                 *)

MissPosition ==
    /\ pc = "idle" /\ ctx.state = "OPEN" /\ ~open
    /\ IF miss \/ ctx.closing THEN Goto("finish") /\ UNCHANGED miss
                              ELSE miss' = TRUE /\ Goto("idle")
    /\ Keep /\ NoFault /\ UNCHANGED moves

(* Mutant: the cleanup does not wait for an unresolved stop. *)
FinishLook_Unresolved ==
    /\ pc = "finish"
    /\ \E V \in Views : Goto(IF V = {} THEN "clear" ELSE "clean")
    /\ Keep /\ NoFault /\ UNCHANGED <<miss, moves>>

\* finishTradeOrders: an unresolved stop is resolved by its exact history, an
\* unattributed one is left for review, the trade's own ones are cancelled.
FinishLook ==
    /\ pc = "finish"
    /\ \E V \in Views :
          LET unresolved == ctx.intent.stage \in Sent /\ ctx.intent.id \notin V
              terminal == ~NotFound /\ stops[ctx.intent.id].st = "ended"
              waiting == unresolved /\ ~terminal /\ ~(NotFound /\ stopAbsenceConverged(counted))
          IN /\ IF unresolved
                THEN SaveIntent(IF NotFound THEN counted ELSE [ctx.intent EXCEPT !.nf = 0, !.nfAge = 0])
                ELSE Keep
             /\ Goto(CASE waiting \/ \E o \in V : o # ctx.oid /\ ~(pending /\ o = ctx.intent.id) -> "idle"
                       [] OTHER -> IF V = {} THEN "clear" ELSE "clean")
    /\ NoFault /\ UNCHANGED <<miss, moves>>

FinishCancel ==
    /\ pc = "clean"
    /\ \E o \in Live :
          /\ o = ctx.oid \/ (pending /\ o = ctx.intent.id)
          /\ Book(o, "ended")
    /\ \/ Goto("clear") /\ NoFault
       \/ Goto("idle") /\ Fault
    /\ UNCHANGED <<open, ctx, miss, moves>>

FinishClear ==
    /\ pc \in {"clear", "clean"}
    /\ pc = "clean" => {o \in Live : o = ctx.oid \/ (pending /\ o = ctx.intent.id)} = {}
    /\ \E V \in Views :
          IF V = {} /\ ~open
          THEN Persist([ctx EXCEPT !.intent = NoIntent, !.oid = NoId]) /\ Goto("mark")
          ELSE Keep /\ Goto("idle")
    /\ NoFault /\ UNCHANGED <<miss, moves>>

MarkClosed ==
    /\ pc = "mark" /\ Goto("idle")
    /\ Persist([ctx EXCEPT !.state = "CLOSED", !.closing = FALSE])
    /\ NoFault /\ UNCHANGED <<miss, moves>>

-----------------------------------------------------------------------------
(* The venue, the owner of the account, the clock, a restart.               *)

Arrive ==
    \E i \in StopIds :
       /\ stops[i].st = "flying"
       /\ \/ /\ open /\ Live = {} /\ Book(i, "live") /\ NoFault
          \/ /\ (~open \/ Live # {}) /\ Book(i, "refused") /\ NoFault
          \/ Book(i, "refused") /\ Fault
       /\ UNCHANGED <<open, ctx, pc, target, miss, moves>>

\* A lost request: it never reaches the venue.
Lost ==
    /\ \E i \in StopIds : stops[i].st = "flying" /\ Book(i, "none")
    /\ Fault /\ UNCHANGED <<open, ctx, pc, target, miss, moves>>

Fire ==
    /\ open /\ \A i \in DOMAIN stops : stops[i].st # "fired"
    /\ \E i \in Live : Book(i, "fired")
    /\ UNCHANGED <<open, ctx, pc, target, miss, faults, moves>>

\* The order a fired stop became closes the position, or fails.
Fired ==
    /\ \E i \in DOMAIN stops : stops[i].st = "fired" /\ Book(i, "ended")
    /\ \/ open' = FALSE /\ NoFault
       \/ UNCHANGED open /\ Fault
    /\ UNCHANGED <<ctx, pc, target, miss, moves>>

OwnerStop ==
    /\ moves < MaxMoves /\ moves' = moves + 1
    /\ \/ /\ Live = {} /\ stops[Foreign].st = "none" /\ open
          /\ \E p \in Prices : stops' = [stops EXCEPT ![Foreign] = [price |-> p, st |-> "live"]]
          /\ UNCHANGED open
       \/ /\ \E i \in Live : Book(i, "ended")
          /\ UNCHANGED open
       \/ open /\ open' = FALSE /\ UNCHANGED stops
    /\ UNCHANGED <<ctx, pc, target, miss, faults>>

\* The emergency close fills, or ends without a fill and is abandoned.
CloseEnds ==
    /\ pc = "idle" /\ ctx.closing /\ open
    /\ \/ open' = FALSE /\ NoFault /\ UNCHANGED <<ctx, stops>>
       \/ Persist([ctx EXCEPT !.closing = FALSE]) /\ Fault
    /\ UNCHANGED <<pc, target, miss, moves>>

Older(a, cap) == IF a < cap THEN a + 1 ELSE cap

\* A tick is the unit of the grace period: no request is in flight that long
\* (the venue's receive window is far shorter), and no pass takes that long.
Tick ==
    /\ pc = "idle" /\ pending /\ \A i \in DOMAIN stops : stops[i].st \notin {"flying", "fired"}
    /\ SaveIntent([ctx.intent EXCEPT !.age = Older(@, Alert), !.sentAge = Older(@, Grace),
                                     !.nfAge = IF ctx.intent.nf = 0 THEN 0 ELSE Older(@, Grace)])
    /\ ctx' # ctx
    /\ UNCHANGED <<pc, target, miss, faults, moves>>

Restart ==
    /\ Fault /\ Goto("idle") /\ miss' = FALSE
    /\ pc # "idle" \/ miss
    /\ Keep /\ UNCHANGED moves

Look == RetainStop \/ PlanStop \/ ResumeStop \/ RejectedStop \/ ResolveStop
Submission == BeginSubmit \/ Send \/ SubmitAnswered \/ SubmitRejected \/ SubmitUncertain \/ NotExecuted
Finish == MissPosition \/ FinishLook \/ FinishCancel \/ FinishClear \/ MarkClosed
Handler == BeginPass \/ Look \/ CancelOld \/ Submission \/ Confirm \/ AdoptStop \/ Fallback \/ EmergencyClose \/ Finish
Venue == Arrive \/ Lost \/ Fire \/ Fired \/ OwnerStop \/ CloseEnds

Next == Handler \/ ResolveFails \/ Venue \/ Tick \/ Restart

Spec == Init /\ [][Next]_vars

\* Reconciliation runs on a ticker, requests and closes end, time passes.
FairSpec == Spec /\ WF_vars(Handler) /\ WF_vars(Arrive) /\ WF_vars(Fired)
                 /\ WF_vars(CloseEnds) /\ SF_vars(Tick)

-----------------------------------------------------------------------------
Intent == [stage : {"NONE", "PLANNED", "SUBMITTING", "UNKNOWN", "REJECTED"}, id : StopIds \cup {NoId},
           price : Prices \cup {0}, requested : Prices \cup {0}, old : StopIds \cup {NoId, Foreign},
           code : {"", "4130", "4509", "other"}, nf : 0 .. 2, nfAge : 0 .. Grace,
           sentAge : 0 .. Grace, age : 0 .. Alert]

TypeOK ==
    /\ open \in BOOLEAN /\ miss \in BOOLEAN
    /\ stops \in [StopIds \cup {Foreign} -> [price : Prices \cup {0},
                    st : {"none", "flying", "live", "fired", "ended", "refused"}]]
    /\ ctx \in [state : {"OPEN", "CLOSED"}, price : Prices, requested : Prices,
                oid : StopIds \cup {NoId, Foreign}, intent : Intent, closing : BOOLEAN]
    /\ pc \in {"idle", "look", "cancel", "submit", "send", "answer", "confirm", "adopt", "fallback",
               "emergency", "finish", "clean", "clear", "mark"}
    /\ target \in Prices \cup {0}
    /\ (ctx.intent.stage = "NONE") = (ctx.intent.id = NoId)
    /\ faults \in 0 .. MaxFaults /\ moves \in 0 .. MaxMoves

MayTrigger == {i \in StopIds : stops[i].st \in {"flying", "live"}}

\* stop_protection.go resubmits a stop under a new identity after a lost
\* acknowledgement: at no time may two stops of the trade reach the book.
OneStopOut == Cardinality(MayTrigger) <= 1

\* A trade that is CLOSED leaves no stop of its own behind that could close
\* whatever position the account owner opens on that side afterwards.
ClosedIsClean == ctx.state = "CLOSED" => MayTrigger = {}

\* The recorded stop was on the book at exactly the recorded price; a lost
\* acknowledgement or an adoption never records an order that did not exist.
RecordIsReal ==
    ctx.oid # NoId => /\ stops[ctx.oid].st \in {"live", "fired", "ended"}
                      /\ stops[ctx.oid].price = ctx.price

\* The guard takes a stop off the book of an open position only to place one
\* at least as tight, and touches a stop of the account owner only when it
\* sits at the very price the trade recorded (the legacy adoption).
TighterOnly ==
    \A i \in DOMAIN stops :
        (pc = "cancel" /\ pc' # pc /\ stops[i].st = "live" /\ stops'[i].st = "ended")
            => /\ ctx.intent.price >= stops[i].price
               /\ i = Foreign => stops[i].price = ctx.price
CancelsForTighter == [][TighterOnly]_vars

\* An open position does not stay uncovered: a stop stands on its side again,
\* or the emergency path closes it.
Held == ctx.state # "CLOSED"
CoveredOrFlat == Live # {} \/ ~open
StaysCovered == []<>(Held => CoveredOrFlat)

\* A trade whose position is gone is closed, unless the owner's own stop
\* keeps the cleanup waiting for review.
PositionGone == ~open
ClosedOrOwnersStop == ctx.state = "CLOSED" \/ stops[Foreign].st = "live"
EventuallyClosed == PositionGone ~> ClosedOrOwnersStop
=============================================================================
