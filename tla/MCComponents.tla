---------------------------- MODULE MCComponents ----------------------------
(***************************************************************************)
(* Five components that share no state, explored in one run: a behaviour   *)
(* is one of a single part, and part says of which.  Account admission is  *)
(* extended and keeps its variables; the parts that are instances take     *)
(* turns at x1, x2, ... : each names those it uses, in the order in which  *)
(* its module declares them, and those it does not use are 0.              *)
(***************************************************************************)
EXTENDS MCAccountClaim, Integers, Sequences

CONSTANTS
    Symbols, Watched, TTL, Interval, Latency, CacheChanges,      \* PositionCache
    Prices, MaxIds, Grace, Alert, GuardFaults, GuardMoves,       \* StopGuard
    Closes, Reduces, Cancels, Moves, Size, MaxOwner, LegacyFaults,  \* LegacyTrade
    N, Card, Page, Capacity, Buffer, SourceFaults                \* MessageSource

VARIABLES part,
    exchange, real, cache, rd, watch, turns,
    x1, x2, x3, x4, x5, x6, x7, x8, x9, x10, x11, x12, x13, x14, x15, x16, x17,
    x18, x19, x20, x21, x22, x23, x24, x25, x26, x27, x28, x29

from11 == <<x11, x12, x13, x14, x15, x16, x17, x18, x19, x20, x21, x22, x23, x24, x25,
            x26, x27, x28, x29>>
from9  == <<x9, x10, from11>>
xs     == <<x1, x2, x3, x4, x5, x6, x7, x8, from9>>
reads  == <<exchange, real, cache, rd, watch, turns>>
all    == <<part, reads, xs, vars>>

Unused11 ==
    /\ x11 = 0 /\ x12 = 0 /\ x13 = 0 /\ x14 = 0 /\ x15 = 0 /\ x16 = 0 /\ x17 = 0
    /\ x18 = 0 /\ x19 = 0 /\ x20 = 0 /\ x21 = 0 /\ x22 = 0 /\ x23 = 0 /\ x24 = 0
    /\ x25 = 0 /\ x26 = 0 /\ x27 = 0 /\ x28 = 0 /\ x29 = 0
Unused9 == x9 = 0 /\ x10 = 0 /\ Unused11
Unused1 ==
    x1 = 0 /\ x2 = 0 /\ x3 = 0 /\ x4 = 0 /\ x5 = 0 /\ x6 = 0 /\ x7 = 0 /\ x8 = 0 /\ Unused9
Unread == exchange = 0 /\ real = 0 /\ cache = 0 /\ rd = 0 /\ watch = 0 /\ turns = 0

Cache == INSTANCE PositionCache WITH
    MaxChanges <- CacheChanges, venue <- exchange, changes <- turns

Guard == INSTANCE StopGuard_proofs WITH
    MaxFaults <- GuardFaults, MaxMoves <- GuardMoves,
    open <- x1, stops <- x2, ctx <- x3, pc <- x4, target <- x5, miss <- x6,
    faults <- x7, moves <- x8

Legacy == INSTANCE LegacyTrade_proofs WITH
    MaxFaults <- LegacyFaults,
    ctx <- x1, rows <- x2, act <- x3, mkt <- x4, sends <- x5, eng <- x6,
    miss <- x7, watch <- x8, faults <- x9, owner <- x10

Source == INSTANCE MessageSource_proofs WITH
    MaxFaults <- SourceFaults,
    posted <- x1, edited <- x2, gw <- x3, missed <- x4, q <- x5, ckpt <- x6,
    anchor <- x7, cache <- x8, st <- x9, wst <- x10, isReady <- x11,
    onReady <- x12, barrier <- x13, sched <- x14, retry <- x15, rc <- x16,
    cards <- x17, dl <- x18, link <- x19, ask <- x20, sock <- x21, ack <- x22,
    seen <- x23, row <- x24, db <- x25, dlv <- x26, dp <- x27, gst <- x28,
    faults <- x29

ASSUME PartsAssumption ==
    /\ Cache!PositionCacheAssumption /\ Guard!StopGuardAssumption /\ Legacy!LegacyAssumption
    /\ Source!MessageSourceAssumption

\* The two traders are interchangeable, and of an adapter whose cache cannot be
\* invalidated TwoMissesMeanGone promises nothing.
ComponentsInit ==
    /\ Init
    /\ \/ part = "claim" /\ Unread /\ Unused1 /\ (binding[t2] = acA => binding[t1] = acA)
       \/ /\ \A t \in Traders : binding[t] = acA
          /\ \/ part = "cache" /\ Cache!Init /\ exchange.invalidates /\ Unused1
             \/ part = "guard" /\ Guard!Init /\ Unread /\ Unused9
             \/ part = "legacy" /\ Legacy!Init /\ Unread /\ Unused11
             \/ part = "source" /\ Source!Init /\ Unread

OfCache(A)  == part = "cache" /\ A /\ UNCHANGED <<part, xs, vars>>
OfGuard(A)  == part = "guard" /\ A /\ UNCHANGED <<part, reads, from9, vars>>
OfLegacy(A) == part = "legacy" /\ A /\ UNCHANGED <<part, reads, from11, vars>>
OfSource(A) == part = "source" /\ A /\ UNCHANGED <<part, reads, vars>>

ComponentsNext ==
    \/ part = "claim" /\ Next /\ UNCHANGED <<part, reads, xs>>
    \/ OfCache(Cache!Next) \/ OfGuard(Guard!Next)
    \/ OfLegacy(Legacy!Next) \/ OfSource(Source!Next)

\* The fairness of every part.  A behaviour never changes its part, so that one
\* conjunct states the fairness of one action of each.  These actions change no other
\* variables than xs.
ComponentsSpec ==
    /\ ComponentsInit /\ [][ComponentsNext]_all
    /\ WF_xs(OfGuard(Guard!Handler) \/ OfLegacy(Legacy!Engine) \/ OfSource(Source!GatewaySession))
    /\ WF_xs(OfGuard(Guard!Arrive) \/ OfLegacy(Legacy!StartPass) \/ OfSource(Source!OnReady))
    /\ WF_xs(OfGuard(Guard!Fired) \/ OfLegacy(Legacy!ExitExecutes) \/ OfSource(Source!PublishBarrier))
    /\ WF_xs(OfGuard(Guard!CloseEnds) \/ OfLegacy(Legacy!EntryExecutes) \/ OfSource(Source!Connect))
    /\ SF_xs(OfGuard(Guard!Tick))
    /\ WF_xs(OfSource(Source!Configure)) /\ WF_xs(OfSource(Source!Status))
    /\ WF_xs(OfSource(Source!Recovery)) /\ WF_xs(OfSource(Source!RecoveryRetry))
    /\ WF_xs(OfSource(Source!DeliverLoop)) /\ WF_xs(OfSource(Source!Serve))
    /\ WF_xs(OfSource(Source!Dispatch)) /\ WF_xs(OfSource(Source!EndOfStream))

-----------------------------------------------------------------------------
(* The properties of the parts, under their names.  Each is stated, with   *)
(* the code behaviour it is about, where it is defined; SideExclusive and  *)
(* GroundHolds are account admission's own.                                *)

\* Every part is type correct.
PartsTypeOK ==
    /\ TypeOK
    /\ part = "cache" => Cache!TypeOK
    /\ part = "guard" => Guard!TypeOK
    /\ part = "legacy" => Legacy!TypeOK
    /\ part = "source" => Source!TypeOK
\* PositionCache: two misses mean that the position was really gone.
TwoMissesMeanGone == part = "cache" => Cache!TwoMissesMeanGone
\* StopGuard: at no time may two stops of one trade reach the book.
OneStopOut == part = "guard" => Guard!OneStopOut
\* StopGuard: a closed trade leaves no stop of its own behind.
ClosedIsClean == part = "guard" => Guard!ClosedIsClean
\* StopGuard: the recorded stop was on the book, at the recorded price.
RecordIsReal == part = "guard" => Guard!RecordIsReal
\* StopGuard, LegacyTrade: a working stop is cancelled only for one at least as tight,
\* and nothing takes the last stop from under a position.
KeepsStop ==
    /\ part = "guard" => Guard!TighterOnly
    /\ part = "legacy" => Legacy!KeepsLastStop
StopKept == [][KeepsStop]_all
\* LegacyTrade: the exit of a signal is sent at most once.
ExitSentOnce == part = "legacy" => Legacy!ExitSentOnce
\* LegacyTrade: a trade that ended left neither entry order nor position behind.
EndedIsOver == part = "legacy" => Legacy!EndedIsOver
\* MessageSource: the source is never called ready over a hole.
ReadyIsGapless == part = "source" => Source!ReadyIsGapless
\* MessageSource: the revisions of a message are handed over in their order.
RevisionsInOrder == [][part = "source" => Source!NotHandedBack]_all

\* LegacyTrade, StopGuard: the position of a trade that goes on does not stay without a
\* stop, or with one that covers too little: it is protected again or closed.
Reprotected ==
    []<>(/\ part = "legacy" /\ Legacy!Held => Legacy!ProtectedOrFlat
         /\ part = "guard" /\ Guard!Held => Guard!CoveredOrFlat)
\* MessageSource, StopGuard: every message is handled, or the loss is reported; a trade
\* whose position is gone is closed.
Concluded ==
    []<>(/\ part = "source" => Source!NothingOutstanding
         /\ part = "guard" /\ Guard!PositionGone => Guard!ClosedOrOwnersStop)
=============================================================================
