------------------------------ MODULE LegacyTrade ------------------------------
(***************************************************************************)
(* One copied trade on a venue without managed orders: the entry, the      *)
(* exits that signals ask for, the cancellation, the stop and the          *)
(* reconciliation pass (Executor.Execute..., settleLegacyEntry,            *)
(* cancelLegacyRemainder, Engine.reconcile...).  The venue gives no client *)
(* identity to ask for later, so an exit is protected from being repeated  *)
(* by a durable row of its signal only: INTENT, SENDING, SENT,             *)
(* SEND_FAILED, NOT_NEEDED.  The engine's mutex lets one handler run at a  *)
(* time; between its steps the venue, the owner of the account, another    *)
(* trade on the same side, and a crash act.  Position reads are fresh      *)
(* (their staleness is PositionCache's subject).                           *)
(***************************************************************************)
EXTENDS Naturals, FiniteSets

CONSTANTS Closes, Reduces,   \* signals that close all, or half, of the position
          Cancels, Moves,    \* signals that cancel the entry, or tighten the stop
          Size,              \* quantity of the entry
          MaxFaults,         \* failed calls and crashes
          MaxOwner           \* manual closes, TP fills, positions of other trades

LegacyAssumption == Size \in Nat \ {0}

VARIABLES
    ctx,      \* the durable trade context
    rows,     \* the durable exit row of each exit signal
    act,      \* the durable action of each signal
    mkt,      \* the venue: entry order, positions, stop, exits being executed
    sends,    \* history: exit orders sent for each signal
    eng,      \* what the engine is doing
    miss,     \* posMissSeen
    watch,    \* closedRecheck
    faults, owner

vars == <<ctx, rows, act, mkt, sends, eng, miss, watch, faults, owner>>

Exits == Closes \cup Reduces
Signals == Exits \cup Cancels \cup Moves
NoSig == "no signal"
Min2(a, b) == IF a < b THEN a ELSE b

Init ==
    /\ ctx = [st |-> "NONE", q |-> 0, opened |-> FALSE, working |-> FALSE,
              disabled |-> FALSE, sl |-> 1, submitting |-> FALSE]
    /\ rows = [s \in Exits |-> "none"]
    /\ act = [s \in Signals |-> "new"]
    /\ mkt = [ent |-> "none", fill |-> 0, pos |-> 0, alien |-> 0, stop |-> 0,
              fly |-> [s \in Exits |-> 0], all |-> FALSE]
    /\ sends = [s \in Exits |-> 0]
    /\ eng = [pc |-> "idle", op |-> "", sig |-> NoSig, pass |-> FALSE, left |-> {}, sw |-> FALSE, n |-> 0]
    /\ miss = FALSE /\ watch = 0
    /\ faults = 0 /\ owner = 0

-----------------------------------------------------------------------------
Holding == {"OPEN", "CLOSE_PENDING"}     \* HasOpenPosition; BREAKEVEN is OPEN
Terminal == {"CLOSED", "CANCELLED", "EXPIRED", "INVALID"}

Seen == mkt.pos + mkt.alien              \* positionFromRows: one row per side
EntryOver == mkt.ent \in {"none", "over"}

Fault == faults < MaxFaults /\ faults' = faults + 1
NoFault == UNCHANGED faults
Goto(pc) == eng' = [eng EXCEPT !.pc = pc]
Switch(pc, op) == eng' = [eng EXCEPT !.pc = pc, !.op = op, !.n = 0]

(* Mutant: a recovery does not go back to its pass. *)
End_Idle == eng' = [eng EXCEPT !.pc = "idle", !.op = "", !.sig = NoSig, !.n = 0]

\* The end of an operation: of the handler, or of one recovery of a pass.
End == eng' = [eng EXCEPT !.pc = IF eng.pass THEN "recover" ELSE "idle",
                          !.op = "", !.sig = NoSig, !.n = 0]
EndPass == eng' = [eng EXCEPT !.pc = IF eng.sw THEN "switch" ELSE "recheck",
                              !.op = "", !.sw = FALSE, !.n = 0]
Done == act' = [act EXCEPT ![eng.sig] = "done"] /\ End

\* An error ends the operation; the action of its signal stays unresolved.
Abort == IF eng.op \in {"book", "expire", "gone", "shrunk", "guard"} THEN EndPass ELSE End

\* Reduce-only orders die with the position; a stop of the side does not.
Settled(m) == IF m.pos + m.alien > 0 THEN m
              ELSE [m EXCEPT !.fly = [s \in Exits |-> 0], !.all = FALSE]
Sold(m, n) == LET own == Min2(n, m.pos) IN
              Settled([m EXCEPT !.pos = @ - own, !.alien = @ - Min2(n - own, m.alien)])

Mark(st) == ctx' = [ctx EXCEPT !.st = st]
VenueOnly == UNCHANGED <<ctx, rows, act, sends, eng, miss, watch>>
Keep == UNCHANGED <<rows, act, mkt, sends>>
Store == UNCHANGED <<rows, sends>>

-----------------------------------------------------------------------------
(* The entry                                                               *)

\* ExecuteOpen on a flat side: the context, then the submission is announced.
Open ==
    /\ eng.pc = "idle" /\ ctx.st = "NONE"
    /\ \E kind \in {"market", "limit"} : Switch("announce", kind)
    /\ Mark("NEW")
    /\ UNCHANGED <<rows, act, mkt, sends, miss, watch, owner>> /\ NoFault

Announce ==
    /\ eng.pc = "announce"
    /\ ctx' = [ctx EXCEPT !.submitting = TRUE]
    /\ Goto("submit")
    /\ UNCHANGED <<rows, act, mkt, sends, miss, watch, owner>> /\ NoFault

\* An error leaves the context NEW: the order may have reached the venue.
SubmitEntry ==
    /\ eng.pc = "submit"
    /\ \/ /\ mkt' = [mkt EXCEPT !.ent = IF eng.op = "market" THEN "flying" ELSE "working"]
          /\ \/ Goto("accepted") /\ NoFault
             \/ End /\ Fault
       \/ End /\ Fault /\ UNCHANGED mkt
    /\ UNCHANGED <<ctx, rows, act, sends, miss, watch, owner>>

\* confirmFill polls the market order for seconds, longer than it takes.
Accepted ==
    /\ eng.pc = "accepted" /\ mkt.ent # "flying"
    /\ IF eng.op = "market"
       THEN /\ ctx' = [ctx EXCEPT !.st = "OPEN", !.q = Size, !.opened = TRUE]
            /\ Goto("protect")
       ELSE /\ ctx' = [ctx EXCEPT !.st = "ENTRY_PENDING", !.working = TRUE]
            /\ End
    /\ UNCHANGED <<rows, act, mkt, sends, miss, watch, owner>> /\ NoFault

-----------------------------------------------------------------------------
(* The stop, on a venue that cannot place it under an identity             *)

Target == IF eng.op = "move" THEN 2 ELSE ctx.sl     \* 2 is the tighter stop

\* What follows once the stop stands.
AfterStop ==
    CASE eng.op = "cancelled-exit" -> Switch("intent", "exit") /\ UNCHANGED act
      [] eng.op \in {"shrunk", "guard"} -> EndPass /\ UNCHANGED act
      [] eng.op = "market" -> End /\ UNCHANGED act
      [] OTHER -> Done

\* An adequate stop of the side is retained; any other is cancelled first.
Protect ==
    /\ eng.pc \in {"protect", "settle-protect"}
    /\ \/ /\ mkt.stop >= Target
          /\ ctx' = [ctx EXCEPT !.sl = mkt.stop]
          /\ IF eng.pc = "protect" THEN AfterStop ELSE Goto("settled") /\ UNCHANGED act
          /\ UNCHANGED mkt /\ NoFault
       \/ /\ mkt.stop < Target
          /\ mkt' = [mkt EXCEPT !.stop = 0]
          /\ Goto(IF eng.pc = "protect" THEN "place" ELSE "settle-place")
          /\ UNCHANGED <<ctx, act>> /\ NoFault
       \/ Abort /\ Fault /\ UNCHANGED <<ctx, act, mkt>>
    /\ Store /\ UNCHANGED <<miss, watch, owner>>

\* A failed placement of an entry's first stop closes the position at once.
PlaceStop ==
    /\ eng.pc \in {"place", "settle-place"}
    /\ \/ /\ mkt' = [mkt EXCEPT !.stop = Target] /\ ctx' = [ctx EXCEPT !.sl = Target]
          /\ IF eng.pc = "place" THEN AfterStop ELSE Goto("settled") /\ UNCHANGED act
          /\ NoFault
       \/ /\ Fault /\ UNCHANGED <<ctx, act, mkt>>
          /\ IF eng.pc = "settle-place" \/ eng.op = "market" THEN Goto("emergency") ELSE Abort
    /\ Store /\ UNCHANGED <<miss, watch, owner>>

\* emergencyClose.  Only the market entry takes an accepted close for the end.
Emergency ==
    /\ eng.pc = "emergency"
    /\ \/ /\ NoFault
          /\ mkt' = Settled([mkt EXCEPT !.all = TRUE,
                                        !.ent = IF eng.op # "market" /\ @ = "working" THEN "over" ELSE @])
          /\ IF eng.op = "market" THEN Mark("CLOSED") ELSE ctx' = [ctx EXCEPT !.disabled = TRUE]
       \/ /\ Fault /\ UNCHANGED mkt
          /\ IF eng.op = "market" THEN UNCHANGED ctx ELSE ctx' = [ctx EXCEPT !.disabled = TRUE]
    /\ Abort
    /\ Store /\ UNCHANGED <<act, miss, watch, owner>>

-----------------------------------------------------------------------------
(* closeEntryEligibility, cancelLegacyRemainder, settleLegacyEntry         *)

\* Where an operation goes on once the entry is settled.
AfterEntry ==
    CASE eng.op = "exit" -> Goto("read") /\ UNCHANGED <<ctx, act>>
      [] eng.op = "move" -> Goto("moveread") /\ UNCHANGED <<ctx, act>>
      [] eng.op = "gone" -> Goto("regone") /\ UNCHANGED <<ctx, act>>
      [] eng.op = "shrunk" -> Goto("reconciled") /\ UNCHANGED <<ctx, act>>
      [] eng.op = "book" -> Goto("booked") /\ UNCHANGED <<ctx, act>>
      [] eng.op = "expire" -> /\ IF ctx.opened THEN UNCHANGED ctx ELSE Mark("EXPIRED")
                              /\ EndPass /\ UNCHANGED act
      [] eng.op \in {"cancel", "cancelled-exit"} ->
            IF ctx.opened /\ ctx.q > 0 THEN Goto("protect") /\ UNCHANGED <<ctx, act>>
                                       ELSE Mark("CANCELLED") /\ Done

\* The latch is durable before the venue is asked.
Latch ==
    /\ eng.pc = "latch"
    /\ ctx' = [ctx EXCEPT !.disabled = TRUE]
    /\ Goto(IF ctx.working \/ ctx.st = "ENTRY_PENDING" THEN "status" ELSE "settled")
    /\ UNCHANGED <<rows, act, mkt, sends, miss, watch, owner>> /\ NoFault

\* settleLegacyEntry on a report of the order; an opened trade reads its size.
SettleEntry(over) ==
    IF mkt.fill = 0
    THEN /\ ctx' = IF over /\ ~ctx.opened
                   THEN [ctx EXCEPT !.st = "CANCELLED", !.working = FALSE, !.q = 0] ELSE ctx
         /\ Goto("settled") /\ NoFault
    ELSE \/ /\ ctx' = [ctx EXCEPT !.st = "OPEN", !.working = ~over, !.opened = TRUE,
                                  !.q = IF ctx.opened THEN Seen ELSE mkt.fill]
            /\ Goto(IF ctx'.q > 0 THEN "settle-protect" ELSE "settled") /\ NoFault
         \/ ctx.opened /\ Abort /\ Fault /\ UNCHANGED ctx

\* GetOrderStatus before and after the cancel; a pass only books the report.
EntryStatus ==
    /\ eng.pc \in {"status", "verify"}
    /\ \/ (mkt.ent # "working" \/ eng.op = "book") /\ SettleEntry(mkt.ent # "working")
       \/ /\ mkt.ent = "working" /\ eng.op # "book" /\ NoFault /\ UNCHANGED ctx
          /\ IF eng.pc = "status" THEN Goto("cancel") ELSE Abort
       \/ Abort /\ Fault /\ UNCHANGED ctx
    /\ Keep /\ UNCHANGED <<miss, watch, owner>>

(* Mutant: the entry is settled without asking what the cancel left. *)
CancelEntry_Trusted ==
    /\ eng.pc = "cancel"
    /\ mkt' = [mkt EXCEPT !.ent = IF @ = "working" THEN "over" ELSE @]
    /\ ctx' = IF ctx.opened THEN [ctx EXCEPT !.working = FALSE]
              ELSE [ctx EXCEPT !.st = "CANCELLED", !.working = FALSE, !.q = 0]
    /\ Goto("settled") /\ NoFault
    /\ UNCHANGED <<rows, act, sends, miss, watch, owner>>

\* The answer of the cancel itself is not used.
CancelEntry ==
    /\ eng.pc = "cancel"
    /\ \/ mkt' = [mkt EXCEPT !.ent = IF @ = "working" THEN "over" ELSE @] /\ NoFault
       \/ UNCHANGED mkt /\ Fault
    /\ Goto("verify")
    /\ UNCHANGED <<ctx, rows, act, sends, miss, watch, owner>>

EntrySettled ==
    /\ eng.pc = "settled"
    /\ AfterEntry
    /\ Store /\ UNCHANGED <<mkt, miss, watch, owner>> /\ NoFault

-----------------------------------------------------------------------------
(* Signals                                                                 *)

\* claimInstruction and the routes; a close of a pending entry cancels first.
Take(s, op, pc) ==
    /\ eng.pc = "idle" /\ act[s] = "new"
    /\ act' = [act EXCEPT ![s] = "open"]
    /\ eng' = [eng EXCEPT !.pc = pc, !.op = op, !.sig = s]
    /\ UNCHANGED <<ctx, rows, mkt, sends, miss, watch, owner>> /\ NoFault

TakeExit(s) ==
    \/ ctx.st \in Holding /\ Take(s, "exit", "intent")
    \/ ctx.st = "ENTRY_PENDING" /\ Take(s, "cancelled-exit", "latch")
TakeCancel(s) == (ctx.st = "ENTRY_PENDING" \/ ctx.working) /\ Take(s, "cancel", "latch")
TakeMove(s) == ctx.st \in Holding /\ Take(s, "move", "latch")

\* legacyExitIntent: the row of the signal decides whether it may be sent.
Intent ==
    /\ eng.pc = "intent"
    /\ \/ /\ rows[eng.sig] \in {"none", "INTENT"}
          /\ rows' = [rows EXCEPT ![eng.sig] = "INTENT"]
          /\ Goto("latch") /\ UNCHANGED act
       \/ /\ rows[eng.sig] \in {"SENT", "NOT_NEEDED"}
          /\ Done /\ UNCHANGED rows
       \/ /\ rows[eng.sig] \in {"SENDING", "SEND_FAILED"}
          /\ Abort /\ UNCHANGED <<rows, act>>
    /\ UNCHANGED <<ctx, mkt, sends, miss, watch, owner>> /\ NoFault

(* Mutant: the row still says INTENT while the exit is being sent. *)
ReadPosition_NotMarked ==
    /\ eng.pc = "read"
    /\ \/ /\ Seen = 0
          /\ rows' = [rows EXCEPT ![eng.sig] = "NOT_NEEDED"]
          /\ mkt' = [mkt EXCEPT !.stop = 0] /\ Mark("CLOSED") /\ Done /\ NoFault
       \/ /\ Seen > 0
          /\ eng' = [eng EXCEPT !.pc = "send", !.n = Seen]
          /\ UNCHANGED <<ctx, rows, mkt, act>> /\ NoFault
       \/ Abort /\ Fault /\ UNCHANGED <<ctx, rows, act, mkt>>
    /\ UNCHANGED <<sends, miss, watch, owner>>

\* executeLegacyClose: a flat side is taken for the end of the trade.
ReadPosition ==
    /\ eng.pc = "read"
    /\ \/ /\ Seen = 0
          /\ rows' = [rows EXCEPT ![eng.sig] = "NOT_NEEDED"]
          /\ mkt' = [mkt EXCEPT !.stop = 0] /\ Mark("CLOSED") /\ Done /\ NoFault
       \/ /\ Seen > 0
          /\ rows' = [rows EXCEPT ![eng.sig] = "SENDING"]
          /\ eng' = [eng EXCEPT !.pc = "send", !.n = Seen]
          /\ UNCHANGED <<ctx, mkt, act>> /\ NoFault
       \/ Abort /\ Fault /\ UNCHANGED <<ctx, rows, act, mkt>>
    /\ UNCHANGED <<sends, miss, watch, owner>>

\* A reduction closes half, and everything when half rounds to all of it.
ExitQty == IF eng.sig \in Closes THEN eng.n ELSE (eng.n + 1) \div 2
Full == ExitQty = eng.n

\* An error proves nothing: the order may have reached the venue.
SendExit ==
    /\ eng.pc = "send"
    /\ \E reached \in BOOLEAN, answered \in BOOLEAN :
        /\ reached \/ ~answered
        /\ IF answered THEN NoFault ELSE Fault
        /\ mkt' = IF reached THEN Settled([mkt EXCEPT !.fly[eng.sig] = ExitQty]) ELSE mkt
        /\ IF answered THEN Goto("sent") /\ UNCHANGED rows
           ELSE Abort /\ rows' = [rows EXCEPT ![eng.sig] = "SEND_FAILED"]
    /\ sends' = [sends EXCEPT ![eng.sig] = Min2(@ + 1, 2)]
    /\ UNCHANGED <<ctx, act, miss, watch, owner>>

\* SENT is written; only a full close asks whether the side is flat now.
ExitSent ==
    /\ eng.pc = "sent"
    /\ rows' = [rows EXCEPT ![eng.sig] = "SENT"]
    /\ IF Full THEN Goto("reread") /\ UNCHANGED ctx
       ELSE ctx' = [ctx EXCEPT !.q = eng.n - ExitQty] /\ Goto("protect")
    /\ UNCHANGED <<act, mkt, sends, miss, watch, owner>> /\ NoFault

(* Mutant: an accepted close releases the protections and ends the trade. *)
ReReadPosition_Accepted ==
    /\ eng.pc = "reread"
    /\ mkt' = [mkt EXCEPT !.stop = 0] /\ Mark("CLOSED") /\ NoFault
    /\ Done
    /\ UNCHANGED <<rows, sends, miss, watch, owner>>

ReReadPosition ==
    /\ eng.pc = "reread"
    /\ \/ Seen = 0 /\ mkt' = [mkt EXCEPT !.stop = 0] /\ Mark("CLOSED") /\ NoFault
       \/ Seen > 0 /\ UNCHANGED mkt /\ Mark("CLOSE_PENDING") /\ NoFault
       \/ UNCHANGED mkt /\ Mark("CLOSE_PENDING") /\ Fault
    /\ Done
    /\ UNCHANGED <<rows, sends, miss, watch, owner>>

\* ExecuteUpdateSLSpec: no position on this read leaves the trade to the pass.
MoveStop ==
    /\ eng.pc = "moveread"
    /\ \/ Seen = 0 /\ Done /\ NoFault
       \/ Seen > 0 /\ Goto("protect") /\ UNCHANGED act /\ NoFault
       \/ Abort /\ Fault /\ UNCHANGED act
    /\ UNCHANGED <<ctx, rows, mkt, sends, miss, watch, owner>>

-----------------------------------------------------------------------------
(* The reconciliation pass                                                 *)

StartPass ==
    /\ eng.pc = "idle" /\ ctx.st # "NONE"
    /\ eng' = [eng EXCEPT !.pc = "recover", !.pass = TRUE,
                          !.left = {s \in Signals : act[s] = "open"}]
    /\ UNCHANGED <<ctx, rows, act, mkt, sends, miss, watch, owner>> /\ NoFault

legacyExitRetryable(s) == rows[s] = "INTENT"

\* recoverPendingActions, for a trade that ended too (recoverOrphanActions).
Recover ==
    /\ eng.pc = "recover"
    /\ \/ \E s \in eng.left :
            LET again(op, pc) ==
                    /\ eng' = [eng EXCEPT !.pc = pc, !.op = op, !.sig = s, !.left = @ \ {s}]
                    /\ UNCHANGED act
                skip == eng' = [eng EXCEPT !.left = @ \ {s}]
                over == ctx.st \in Terminal
            IN \/ s \in Exits /\ legacyExitRetryable(s) /\ again("exit", "intent")
               \/ s \in Exits /\ ~legacyExitRetryable(s) /\ skip /\ UNCHANGED act
               \/ s \in Cancels /\ over /\ ~ctx.working /\ skip /\ act' = [act EXCEPT ![s] = "done"]
               \/ s \in Cancels /\ (over => ctx.working) /\ again("cancel", "latch")
               \/ s \in Moves /\ over /\ skip /\ UNCHANGED act
               \/ s \in Moves /\ ~over /\ again("move", "latch")
       \/ eng.left = {} /\ Goto(IF ctx.st \in Terminal THEN "recheck" ELSE "pass") /\ UNCHANGED act
    /\ UNCHANGED <<ctx, rows, mkt, sends, miss, watch, owner>> /\ NoFault

\* A working entry is booked before the open trade is looked at.
Dispatch ==
    /\ eng.pc = "pass"
    /\ \/ /\ ctx.st = "NEW" /\ EndPass
          /\ IF ctx.submitting THEN UNCHANGED ctx ELSE Mark("INVALID")
       \/ /\ ctx.st = "ENTRY_PENDING" \/ ctx.working
          /\ eng' = [eng EXCEPT !.pc = "status", !.op = "book", !.sw = ctx.st # "ENTRY_PENDING"]
          /\ UNCHANGED ctx
       \/ ctx.st \in Holding /\ ~ctx.working /\ Goto("switch") /\ UNCHANGED ctx
    /\ Keep /\ UNCHANGED <<miss, watch, owner>> /\ NoFault

\* reconcileLegacyEntry: the timeout may have come or not.
Booked ==
    /\ eng.pc = "booked"
    /\ \/ (ctx.working \/ ctx.st = "ENTRY_PENDING") /\ Switch("latch", "expire")
       \/ ~((ctx.working \/ ctx.st = "ENTRY_PENDING") /\ ctx.disabled) /\ EndPass
    /\ Keep /\ UNCHANGED <<ctx, miss, watch, owner>> /\ NoFault

Route ==
    /\ eng.pc = "switch"
    /\ CASE ctx.st = "OPEN" -> Switch("openread", "guard")
         [] ctx.st = "CLOSE_PENDING" -> Switch("pendread", "guard")
         [] OTHER -> EndPass
    /\ Keep /\ UNCHANGED <<ctx, miss, watch, owner>> /\ NoFault

(* Mutant: the pass takes the stop of an open trade for granted. *)
OpenRead_StopAssumed ==
    /\ eng.pc = "openread"
    /\ \/ /\ Seen = 0 /\ NoFault /\ UNCHANGED ctx
          /\ miss' = TRUE
          /\ IF miss THEN Switch("latch", "gone") ELSE EndPass
       \/ /\ Seen > 0 /\ NoFault
          /\ miss' = FALSE
          /\ EndPass /\ ctx' = [ctx EXCEPT !.q = Seen]
       \/ EndPass /\ Fault /\ UNCHANGED <<ctx, miss>>
    /\ Keep /\ UNCHANGED <<watch, owner>>

\* reconcileOpenTrade: two misses in a row, a reduction, or the stop.
OpenRead ==
    /\ eng.pc = "openread"
    /\ \/ /\ Seen = 0 /\ NoFault /\ UNCHANGED ctx
          /\ miss' = TRUE
          /\ IF miss THEN Switch("latch", "gone") ELSE EndPass
       \/ /\ Seen > 0 /\ NoFault
          /\ miss' = FALSE
          /\ IF Seen < ctx.q
             THEN eng' = [eng EXCEPT !.pc = "latch", !.op = "shrunk", !.n = Seen] /\ UNCHANGED ctx
             ELSE Goto("protect") /\ ctx' = [ctx EXCEPT !.q = IF @ = 0 THEN Seen ELSE @]
       \/ EndPass /\ Fault /\ UNCHANGED <<ctx, miss>>
    /\ Keep /\ UNCHANGED <<watch, owner>>

\* The quantity read before the entry was settled is what is recorded.
Reconciled ==
    /\ eng.pc = "reconciled"
    /\ ctx' = [ctx EXCEPT !.q = eng.n]
    /\ Goto("protect")
    /\ Keep /\ UNCHANGED <<miss, watch, owner>> /\ NoFault

Gone ==
    /\ eng.pc = "regone"
    /\ \/ /\ Seen = 0 /\ NoFault
          /\ mkt' = [mkt EXCEPT !.stop = 0] /\ Mark("CLOSED")
          /\ miss' = FALSE /\ watch' = 3
       \/ Seen > 0 /\ NoFault /\ UNCHANGED <<ctx, mkt, miss, watch>>
       \/ Fault /\ UNCHANGED <<ctx, mkt, miss, watch>>
    /\ EndPass
    /\ Store /\ UNCHANGED <<act, owner>>

\* reconcileClosePending: one flat read is enough here.
PendingRead ==
    /\ eng.pc = "pendread"
    /\ \/ Seen = 0 /\ mkt' = [mkt EXCEPT !.stop = 0] /\ Mark("CLOSED") /\ NoFault
       \/ Seen > 0 /\ UNCHANGED <<ctx, mkt>> /\ NoFault
       \/ UNCHANGED <<ctx, mkt>> /\ Fault
    /\ EndPass
    /\ Store /\ UNCHANGED <<act, miss, watch, owner>>

\* recheckClosedTrades; a position of another trade is never adopted.
Recheck ==
    /\ eng.pc = "recheck"
    /\ LET stop == eng' = [eng EXCEPT !.pc = "idle", !.pass = FALSE] IN
       \/ watch = 0 /\ stop /\ NoFault /\ UNCHANGED <<ctx, watch>>
       \/ /\ watch > 0 /\ NoFault
          /\ \/ ctx.st # "CLOSED" /\ watch' = 0 /\ stop /\ UNCHANGED ctx
             \/ ctx.st = "CLOSED" /\ Seen = 0 /\ watch' = watch - 1 /\ stop /\ UNCHANGED ctx
             \/ /\ ctx.st = "CLOSED" /\ Seen > 0 /\ watch' = 0
                /\ IF mkt.alien = 0 /\ Seen = ctx.q
                   THEN Mark("OPEN") /\ Switch("openread", "guard")
                   ELSE UNCHANGED ctx /\ stop
       \/ watch > 0 /\ stop /\ Fault /\ UNCHANGED <<ctx, watch>>
    /\ Keep /\ UNCHANGED <<miss, owner>>

-----------------------------------------------------------------------------
(* The venue, the owner, other trades                                      *)

EntryFills ==
    /\ \/ /\ mkt.ent = "working"
          /\ mkt' = [mkt EXCEPT !.fill = @ + 1, !.pos = @ + 1,
                                !.ent = IF mkt.fill + 1 = Size THEN "over" ELSE @]
       \/ /\ mkt.ent = "flying"
          /\ mkt' = [mkt EXCEPT !.fill = Size, !.pos = @ + Size, !.ent = "over"]
    /\ VenueOnly /\ NoFault /\ UNCHANGED owner

ExitExecutes ==
    /\ \/ \E s \in Exits : mkt.fly[s] > 0 /\ mkt' = Sold([mkt EXCEPT !.fly[s] = 0], mkt.fly[s])
       \/ mkt.all /\ mkt' = Settled([mkt EXCEPT !.pos = 0, !.alien = 0, !.all = FALSE])
    /\ VenueOnly /\ NoFault /\ UNCHANGED owner

StopFires ==
    /\ mkt.stop > 0 /\ mkt.pos > 0
    /\ mkt' = Settled([mkt EXCEPT !.pos = 0, !.stop = 0])
    /\ VenueOnly /\ NoFault /\ UNCHANGED owner

\* A take-profit, a manual reduction, or a new trade once this one is over.
OthersTrade ==
    /\ owner < MaxOwner /\ owner' = owner + 1
    /\ \/ mkt.pos > 0 /\ mkt' = Settled([mkt EXCEPT !.pos = @ - 1])
       \/ ctx.st \in Terminal /\ Seen = 0 /\ EntryOver /\ mkt' = [mkt EXCEPT !.alien = 1]
    /\ VenueOnly /\ NoFault

Crash ==
    /\ eng.pc # "idle" \/ miss \/ watch > 0
    /\ Fault
    /\ eng' = [eng EXCEPT !.pc = "idle", !.op = "", !.sig = NoSig, !.pass = FALSE,
                          !.left = {}, !.sw = FALSE, !.n = 0]
    /\ miss' = FALSE /\ watch' = 0
    /\ UNCHANGED <<ctx, rows, act, mkt, sends, owner>>

-----------------------------------------------------------------------------
Engine ==
    \/ Announce \/ SubmitEntry \/ Accepted \/ Protect \/ PlaceStop \/ Emergency
    \/ Latch \/ EntryStatus \/ CancelEntry \/ EntrySettled
    \/ Intent \/ ReadPosition \/ SendExit \/ ExitSent \/ ReReadPosition \/ MoveStop
    \/ Recover \/ Dispatch \/ Booked \/ Route \/ OpenRead \/ Reconciled \/ Gone
    \/ PendingRead \/ Recheck

Venue == EntryFills \/ ExitExecutes \/ StopFires

Next ==
    \/ Open \/ Engine \/ StartPass \/ Venue \/ OthersTrade \/ Crash
    \/ \E s \in Exits : TakeExit(s)
    \/ \E s \in Cancels : TakeCancel(s)
    \/ \E s \in Moves : TakeMove(s)

Spec == Init /\ [][Next]_vars

-----------------------------------------------------------------------------
TypeOK ==
    /\ ctx.st \in Holding \cup Terminal \cup {"NONE", "NEW", "ENTRY_PENDING"}
    /\ ctx.q \in 0 .. Size + 1 /\ ctx.sl \in 1 .. 2
    /\ \A s \in Exits : rows[s] \in {"none", "INTENT", "SENDING", "SENT", "SEND_FAILED", "NOT_NEEDED"}
    /\ mkt.pos \in 0 .. Size /\ mkt.alien \in 0 .. 1 /\ mkt.stop \in 0 .. 2
    /\ mkt.fill \in 0 .. Size
    /\ (eng.pc = "idle") => (~eng.pass /\ eng.sig = NoSig /\ eng.left = {})
    /\ watch \in 0 .. 3

\* Whatever fails and whenever the process dies, the exit of a signal is sent
\* at most once: a second market order would sell what the first one left.
ExitSentOnce == \A s \in Exits : sends[s] <= 1

\* A trade that ended left nothing behind: its entry order is over, and its
\* position is gone or being closed by an emergency exit.
EndedIsOver ==
    ctx.st \in Terminal => EntryOver /\ (mkt.pos = 0 \/ mkt.all)

\* Nothing the engine does takes the last stop from under a position, other
\* than to place another one: a close that failed or is late keeps its stop.
KeepsLastStop ==
    (mkt.stop > 0 /\ mkt'.stop = 0 /\ mkt.pos > 0 /\ mkt'.pos > 0)
        => eng'.pc \in {"place", "settle-place"}
ClosedBehindStop == [][KeepsLastStop]_vars

\* An exit never sells the position of a trade that came after.
NeverSellsOthers == [][mkt'.alien >= mkt.alien]_vars

EntryExecutes == mkt.ent = "flying" /\ EntryFills
Fairness ==
    /\ WF_vars(Engine) /\ WF_vars(StartPass) /\ WF_vars(ExitExecutes)
    /\ WF_vars(EntryExecutes)

FairSpec == Spec /\ Fairness

\* The position of a trade that holds one does not stay without a stop: it gets one, or
\* ends, or the trade does, which leaves no position behind (EndedIsOver).
Held == ctx.st \in Holding
ProtectedOrFlat == mkt.stop > 0 \/ mkt.pos = 0
Reprotected == []<>(Held => ProtectedOrFlat)

\* The size of an open trade without a working entry is the recorded one.
SizeTracked ==
    (ctx.st = "OPEN" /\ mkt.pos > ctx.q) ~> (ctx.st # "OPEN" \/ mkt.pos <= ctx.q)
=============================================================================
