------------ MODULE LegacyTrade_proofs --------------------------------------
(***************************************************************************)
(* Proofs about LegacyTrade, for any signals and any size of the entry.    *)
(* That the exit of a signal is sent at most once is not inductive: it     *)
(* rests on what the handler that is about to send has read of the row     *)
(* (SendsFit).  That a trade which ended left nothing behind rests on what *)
(* every operation knows of the entry once it was settled (SettledFits),   *)
(* and on nothing acting before the context says that the entry stands     *)
(* (EarlyFits).                                                            *)
(***************************************************************************)
EXTENDS LegacyTrade, TLAPS

-----------------------------------------------------------------------------
States == Holding \cup Terminal \cup {"NONE", "NEW", "ENTRY_PENDING"}
RowStates == {"none", "INTENT", "SENDING", "SENT", "SEND_FAILED", "NOT_NEEDED"}
Pcs == {"idle", "announce", "submit", "accepted", "protect", "settle-protect", "place",
        "settle-place", "emergency", "latch", "status", "cancel", "verify", "settled", "intent",
        "read", "send", "sent", "reread", "moveread", "recover", "pass", "booked", "switch",
        "openread", "reconciled", "regone", "pendread", "recheck"}
SignalOps == {"exit", "cancelled-exit", "cancel", "move"}
PassOps == {"book", "expire", "gone", "shrunk", "guard"}
Ops == SignalOps \cup PassOps \cup {"", "market", "limit"}

CtxType == [st : States, q : 0..Size + 1, opened : BOOLEAN, working : BOOLEAN,
            disabled : BOOLEAN, sl : 1..2, submitting : BOOLEAN]
MktType == [ent : {"none", "flying", "working", "over"}, fill : 0..Size, pos : 0..Size,
            alien : 0..1, stop : 0..2, fly : [Exits -> Nat], all : BOOLEAN]
EngType == [pc : Pcs, op : Ops, sig : Signals \cup {NoSig}, pass : BOOLEAN,
            left : SUBSET Signals, sw : BOOLEAN, n : 0..Size + 1]

Typed ==
    /\ ctx \in CtxType /\ mkt \in MktType /\ eng \in EngType
    /\ rows \in [Exits -> RowStates]
    /\ sends \in [Exits -> 0..1]
    /\ act \in [Signals -> {"new", "open", "done"}]
    /\ miss \in BOOLEAN /\ watch \in 0..3

(* Where each operation may be.                                            *)
Cancelling == {"latch", "status", "cancel", "verify", "settle-protect", "settle-place", "settled"}
OpsAt(pc) ==
    IF pc \in {"idle", "recover", "pass", "recheck", "switch"} THEN {""}
    ELSE IF pc \in {"announce", "submit", "accepted"} THEN {"market", "limit"}
    ELSE IF pc \in {"protect", "place"} THEN SignalOps \cup {"market", "guard", "shrunk"}
    ELSE IF pc = "emergency" THEN (SignalOps \cup PassOps \cup {"market"}) \ {"guard"}
    ELSE IF pc \in {"latch", "cancel", "verify"} THEN SignalOps \cup {"expire", "gone", "shrunk"}
    ELSE IF pc \in {"status", "settled", "settle-protect", "settle-place"}
         THEN SignalOps \cup {"expire", "gone", "shrunk", "book"}
    ELSE IF pc \in {"intent", "read", "send", "sent", "reread"} THEN {"exit"}
    ELSE IF pc = "moveread" THEN {"move"}
    ELSE IF pc = "booked" THEN {"book"}
    ELSE IF pc = "reconciled" THEN {"shrunk"}
    ELSE IF pc = "regone" THEN {"gone"}
    ELSE {"guard"}

EngFits ==
    /\ eng.op \in OpsAt(eng.pc)
    /\ eng.op \in {"exit", "cancelled-exit"} => eng.sig \in Exits
    /\ eng.op \in {"cancel", "move"} => eng.sig \in Signals
    /\ eng.op \notin SignalOps => eng.sig = NoSig
    /\ ~ eng.pass => eng.left = {}
    /\ eng.pc = "idle" => ~ eng.pass
    /\ eng.op \in PassOps \/ eng.pc \in {"pass", "switch", "recheck"} => eng.left = {}
    /\ eng.pc \in {"send", "sent"} \/ eng.op = "shrunk" => eng.n > 0

(* The row of a signal is left behind INTENT before its exit is sent.      *)
SendsFit ==
    /\ \A s \in Exits : rows[s] \in {"none", "INTENT"} => sends[s] = 0
    /\ eng.op = "exit" /\ eng.pc \in Cancelling \cup {"read"} => rows[eng.sig] = "INTENT"
    /\ eng.pc = "send" => rows[eng.sig] = "SENDING" /\ sends[eng.sig] = 0

(* Before the context says that the entry stands, nothing acts on it.      *)
Early == {"NONE", "NEW"}
EarlyFits ==
    /\ ctx.st \in Early =>
         /\ \A s \in Signals : act[s] = "new"
         /\ eng.left = {} /\ ~ ctx.working /\ ~ ctx.opened
         /\ eng.op \in {"", "market", "limit"} /\ eng.pc \notin {"protect", "place", "emergency"}
    /\ eng.pc \in {"announce", "submit", "accepted"} => ctx.st = "NEW"
    /\ ctx.st = "NONE" => mkt.ent = "none" /\ eng.pc = "idle"
    /\ ~ ctx.submitting => mkt.ent = "none"
    /\ eng.pc \in {"announce", "submit"} => mkt.ent = "none"
    /\ eng.pc = "submit" => ctx.submitting
    /\ eng.pc = "accepted" => mkt.ent \in IF eng.op = "market" THEN {"flying", "over"} ELSE {"working", "over"}
    /\ mkt.ent \in {"none", "flying"} => mkt.fill = 0
    /\ mkt.ent = "working" => mkt.fill < Size
    /\ mkt.ent = "flying" => ctx.st = "NEW"
    /\ mkt.pos <= mkt.fill
    /\ ctx.st = "ENTRY_PENDING" => ~ ctx.opened

(* The operations that have settled the entry.                             *)
Over(pc, op) ==
    \/ pc \in {"settled", "settle-protect", "settle-place", "read", "send", "sent", "reread", "regone",
               "reconciled", "moveread", "pendread"} /\ op # "book"
    \/ pc \in {"protect", "place", "emergency"} /\ op = "market"

Closing == mkt.pos = 0 \/ mkt.all

(* What the context says of an entry that was accepted.                    *)
StateFits ==
    /\ ctx.st \in Terminal => EntryOver /\ Closing
    /\ ctx.st \in Holding /\ ~ ctx.working => EntryOver
    /\ ctx.st = "CLOSE_PENDING" => EntryOver
    /\ ctx.st \in Holding \cup Terminal /\ ~ ctx.opened => EntryOver /\ mkt.pos = 0
    /\ ctx.st \in Holding /\ ~ ctx.working /\ ctx.q = 0 => Closing

SettledFits ==
    /\ Over(eng.pc, eng.op) => EntryOver /\ ctx.st # "ENTRY_PENDING"
    /\ eng.pc \in {"settle-protect", "settle-place"} => ctx.opened /\ ctx.q > 0
    /\ eng.pc = "settled" /\ eng.op # "book" /\ ctx.q = 0 => Closing

IInv == LegacyAssumption /\ Typed /\ EngFits /\ SendsFit /\ EarlyFits /\ StateFits /\ SettledFits

-----------------------------------------------------------------------------
LEMMA LegacyFacts == IInv => Size \in Nat /\ Size > 0
BY DEF IInv, LegacyAssumption

(* The venue.                                                              *)
LEMMA SettledFacts ==
    ASSUME NEW m \in MktType, Size \in Nat
    PROVE  /\ Settled(m) \in MktType
           /\ Settled(m).ent = m.ent /\ Settled(m).fill = m.fill /\ Settled(m).pos = m.pos
           /\ Settled(m).stop = m.stop
           /\ m.pos = 0 \/ m.all => Settled(m).pos = 0 \/ Settled(m).all
<1>1. m.pos \in Nat /\ m.alien \in Nat
  BY DEF MktType
<1>2. CASE m.pos + m.alien > 0
  BY <1>2 DEF Settled
<1>3. CASE ~ (m.pos + m.alien > 0)
  <2>1. Settled(m) = [m EXCEPT !.fly = [s \in Exits |-> 0], !.all = FALSE]
    BY <1>3 DEF Settled
  <2>2. m.pos = 0
    BY <1>1, <1>3
  <2>3. [s \in Exits |-> 0] \in [Exits -> Nat]
    OBVIOUS
  <2> QED BY <2>1, <2>2, <2>3 DEF MktType
<1> QED BY <1>2, <1>3

LEMMA SoldFacts ==
    ASSUME NEW m \in MktType, NEW n \in Nat, Size \in Nat
    PROVE  /\ Sold(m, n) \in MktType
           /\ Sold(m, n).ent = m.ent /\ Sold(m, n).fill = m.fill /\ Sold(m, n).pos <= m.pos
           /\ Sold(m, n).stop = m.stop
           /\ m.pos = 0 \/ m.all => Sold(m, n).pos = 0 \/ Sold(m, n).all
<1> DEFINE own == Min2(n, m.pos)
           oth == Min2(n - own, m.alien)
           k   == [m EXCEPT !.pos = @ - own, !.alien = @ - oth]
<1>1. own \in Nat /\ own <= m.pos /\ own <= n /\ m.pos \in 0..Size /\ m.alien \in 0..1
  BY DEF Min2, MktType
<1>2. oth \in Nat /\ oth <= m.alien
  <2> HIDE DEF own
  <2> QED BY <1>1 DEF Min2
<1> HIDE DEF own, oth
<1>3. m.pos - own \in 0..Size /\ m.alien - oth \in 0..1 /\ m.pos - own <= m.pos
  BY <1>1, <1>2
<1>4. k \in MktType /\ k.ent = m.ent /\ k.fill = m.fill /\ k.pos <= m.pos /\ k.stop = m.stop
      /\ (m.pos = 0 => k.pos = 0) /\ k.all = m.all
  <2>1. /\ k.ent = m.ent /\ k.fill = m.fill /\ k.pos = m.pos - own /\ k.alien = m.alien - oth
        /\ k.stop = m.stop /\ k.fly = m.fly /\ k.all = m.all
        /\ k \in MktType
    BY <1>3 DEF MktType
  <2> HIDE DEF k
  <2> QED BY <1>1, <1>3, <2>1
<1>5. Sold(m, n) = Settled(k)
  BY DEF Sold, own, oth
<1> HIDE DEF k
<1> QED BY <1>4, <1>5, SettledFacts


(* What every step does to the venue: an entry that is over stays so, and  *)
(* what it left is only sold.                                              *)
MktMove ==
    /\ mkt' \in MktType
    /\ mkt'.pos <= mkt'.fill
    /\ mkt'.ent \in {"none", "flying"} => mkt'.fill = 0
    /\ mkt'.ent = "working" => mkt'.fill < Size
    /\ mkt.ent = "over" => mkt'.ent = "over"
    /\ mkt.ent = "working" => mkt'.ent \in {"working", "over"}
    /\ mkt.ent = "flying" => mkt'.ent \in {"flying", "over"}
    /\ mkt.ent = "none" => eng.pc = "submit" \/ mkt'.ent = "none"
    /\ EntryOver /\ eng.pc # "submit" => /\ EntryOver' /\ mkt'.pos <= mkt.pos
                                         /\ Closing => Closing'

LEMMA SameMkt == IInv /\ mkt' = mkt => MktMove
<1> SUFFICES ASSUME IInv, mkt' = mkt PROVE MktMove
  OBVIOUS
<1>1. mkt.pos \in Nat
  BY LegacyFacts DEF IInv, Typed, MktType
<1>2. (EntryOver <=> EntryOver') /\ (Closing <=> Closing')
  BY DEF EntryOver, Closing
<1>3. /\ mkt.pos <= mkt.fill /\ (mkt.ent \in {"none", "flying"} => mkt.fill = 0)
      /\ mkt.ent = "working" => mkt.fill < Size
      /\ mkt \in MktType
  BY DEF IInv, Typed, EarlyFits
<1>4. mkt'.pos <= mkt.pos
  BY <1>1
<1> QED BY <1>2, <1>3, <1>4 DEF MktMove

LEMMA EaseMkt ==
    ASSUME IInv, mkt' \in MktType, mkt'.pos <= mkt.pos, mkt'.fill = mkt.fill,
           mkt'.ent = mkt.ent \/ (mkt.ent = "working" /\ mkt'.ent = "over"),
           Closing => mkt'.pos = 0 \/ mkt'.all
    PROVE  MktMove
<1>1. mkt.pos \in Nat /\ mkt'.pos \in Nat /\ mkt.fill \in Nat
  BY LegacyFacts DEF IInv, Typed, MktType
<1>2. (Closing => Closing') /\ (EntryOver => EntryOver')
  BY DEF EntryOver, Closing
<1>3. /\ mkt.pos <= mkt.fill /\ (mkt.ent \in {"none", "flying"} => mkt.fill = 0)
      /\ mkt.ent = "working" => mkt.fill < Size
  BY DEF IInv, EarlyFits
<1>4. mkt'.pos <= mkt'.fill
  BY <1>1, <1>3
<1> QED BY <1>2, <1>3, <1>4 DEF MktMove

(* No step takes an entry that is over for a working one again. *)
LEMMA MktStep == IInv /\ [Next]_vars => MktMove
<1> SUFFICES ASSUME IInv, [Next]_vars PROVE MktMove
  OBVIOUS
<1>t. ctx \in CtxType /\ mkt \in MktType /\ eng \in EngType
  BY DEF IInv, Typed
<1>f. EarlyFits
  BY DEF IInv
<1>z. 0 \in 0..Size /\ 0 \in 0..1 /\ 0 \in 0..2 /\ mkt.pos \in 0..Size
  <2>1. mkt.pos \in 0..Size
    BY <1>t DEF MktType
  <2> QED BY <2>1, LegacyFacts
<1>p. 0 <= mkt.pos
  BY <1>z
<1>1. CASE Open
  <2>1. mkt' = mkt
    BY <1>1 DEF Open, vars, Goto, Switch, End, EndPass, Done, Abort, Mark, Keep, Store,
       VenueOnly, NoFault, Fault
  <2> QED BY <2>1, SameMkt
<1>2. CASE Announce
  <2>1. mkt' = mkt
    BY <1>2 DEF Announce, vars, Goto, Switch, End, EndPass, Done, Abort, Mark, Keep, Store,
       VenueOnly, NoFault, Fault
  <2> QED BY <2>1, SameMkt
<1>3. CASE SubmitEntry
  <2>1. mkt.ent = "none" /\ mkt.fill = 0 /\ mkt.pos <= mkt.fill /\ eng.pc = "submit"
    BY <1>3, <1>f DEF SubmitEntry, EarlyFits
  <2> DEFINE e == IF eng.op = "market" THEN "flying" ELSE "working"
  <2>2. e \in {"flying", "working"}
    OBVIOUS
  <2>3. mkt' = mkt \/ mkt' = [mkt EXCEPT !.ent = e]
    BY <1>3 DEF SubmitEntry
  <2> HIDE DEF e
  <2>4. CASE mkt' = [mkt EXCEPT !.ent = e]
    <3>1. mkt' \in MktType /\ mkt'.pos = mkt.pos /\ mkt'.fill = mkt.fill /\ mkt'.ent = e
      BY <2>2, <2>4, <1>t DEF MktType
    <3> QED BY <2>1, <2>2, <3>1, LegacyFacts DEF MktMove
  <2> QED BY <2>3, <2>4, SameMkt
<1>4. CASE Accepted
  <2>1. mkt' = mkt
    BY <1>4 DEF Accepted, vars, Goto, Switch, End, EndPass, Done, Abort, Mark, Keep, Store,
       VenueOnly, NoFault, Fault
  <2> QED BY <2>1, SameMkt
<1>5. CASE Protect
  <2>1. mkt' = mkt \/ mkt' = [mkt EXCEPT !.stop = 0]
    BY <1>5 DEF Protect, Goto, Switch, End, EndPass, Done, Abort, Mark, Keep, Store, VenueOnly,
       NoFault, Fault
  <2>2. CASE mkt' = [mkt EXCEPT !.stop = 0]
    BY <2>2, <1>t, EaseMkt DEF MktType, Closing
  <2> QED BY <2>1, <2>2, SameMkt
<1>6. CASE PlaceStop
  <2>1. Target \in 0..2
    BY <1>t DEF Target, CtxType
  <2>2. mkt' = mkt \/ mkt' = [mkt EXCEPT !.stop = Target]
    BY <1>6 DEF PlaceStop
  <2>3. CASE mkt' = [mkt EXCEPT !.stop = Target]
    BY <2>1, <2>3, <1>t, EaseMkt DEF MktType, Closing
  <2> QED BY <2>2, <2>3, SameMkt
<1>7. CASE Emergency
  <2>1. PICK over \in BOOLEAN :
          mkt' = mkt \/ mkt' = Settled([mkt EXCEPT !.all = TRUE, !.ent = IF over /\ @ = "working" THEN "over" ELSE @])
    BY <1>7 DEF Emergency
  <2> DEFINE e == IF over /\ mkt.ent = "working" THEN "over" ELSE mkt.ent
             m == [mkt EXCEPT !.all = TRUE, !.ent = e]
  <2>2. mkt' = mkt \/ mkt' = Settled(m)
    BY <2>1
  <2>3. m \in MktType /\ m.ent = e /\ m.fill = mkt.fill /\ m.pos = mkt.pos /\ m.all
        /\ e \in {mkt.ent, "over"} /\ (e # mkt.ent => mkt.ent = "working")
    BY <1>t DEF MktType
  <2> HIDE DEF m, e
  <2>4. CASE mkt' = Settled(m)
    <3>1. mkt'.pos <= mkt.pos
      BY <2>3, <2>4, <1>t, LegacyFacts, SettledFacts DEF MktType
    <3> QED BY <2>3, <2>4, <3>1, LegacyFacts, SettledFacts, EaseMkt
  <2> QED BY <2>2, <2>4, SameMkt
<1>8. CASE Latch
  <2>1. mkt' = mkt
    BY <1>8 DEF Latch, vars, Goto, Switch, End, EndPass, Done, Abort, Mark, Keep, Store,
       VenueOnly, NoFault, Fault
  <2> QED BY <2>1, SameMkt
<1>9. CASE EntryStatus
  <2>1. mkt' = mkt
    BY <1>9 DEF EntryStatus, vars, Goto, Switch, End, EndPass, Done, Abort, Mark, Keep, Store,
       VenueOnly, NoFault, Fault
  <2> QED BY <2>1, SameMkt
<1>10. CASE CancelEntry
  <2>1. mkt' = mkt \/ mkt' = [mkt EXCEPT !.ent = IF @ = "working" THEN "over" ELSE @]
    BY <1>10 DEF CancelEntry
  <2>2. CASE mkt' = [mkt EXCEPT !.ent = IF @ = "working" THEN "over" ELSE @]
    BY <2>2, <1>t, EaseMkt DEF MktType, Closing
  <2> QED BY <2>1, <2>2, SameMkt
<1>11. CASE EntrySettled
  <2>1. mkt' = mkt
    BY <1>11 DEF EntrySettled, vars, Goto, Switch, End, EndPass, Done, Abort, Mark, Keep, Store,
       VenueOnly, NoFault, Fault
  <2> QED BY <2>1, SameMkt
<1>12. CASE Intent
  <2>1. mkt' = mkt
    BY <1>12 DEF Intent, vars, Goto, Switch, End, EndPass, Done, Abort, Mark, Keep, Store,
       VenueOnly, NoFault, Fault
  <2> QED BY <2>1, SameMkt
<1>13. CASE ReadPosition
  <2>1. mkt' = mkt \/ mkt' = [mkt EXCEPT !.stop = 0]
    BY <1>13 DEF ReadPosition, Goto, Switch, End, EndPass, Done, Abort, Mark, Keep, Store,
       VenueOnly, NoFault, Fault
  <2>2. CASE mkt' = [mkt EXCEPT !.stop = 0]
    BY <2>2, <1>t, EaseMkt DEF MktType, Closing
  <2> QED BY <2>1, <2>2, SameMkt
<1>14. CASE SendExit
  <2>1. mkt' = mkt \/ mkt' = Settled([mkt EXCEPT !.fly[eng.sig] = ExitQty])
    BY <1>14 DEF SendExit
  <2>2. ExitQty \in Nat
    BY <1>t, LegacyFacts DEF ExitQty, EngType
  <2> DEFINE m == [mkt EXCEPT !.fly[eng.sig] = ExitQty]
  <2>3. m \in MktType /\ m.ent = mkt.ent /\ m.fill = mkt.fill /\ m.pos = mkt.pos /\ m.all = mkt.all
    <3> HIDE DEF ExitQty
    <3> QED BY <2>2, <1>t DEF MktType
  <2> HIDE DEF m
  <2>4. CASE mkt' = Settled(m)
    <3>1. mkt'.pos <= mkt.pos
      BY <2>3, <2>4, <1>t, LegacyFacts, SettledFacts DEF MktType
    <3> QED BY <2>3, <2>4, <3>1, LegacyFacts, SettledFacts, EaseMkt DEF Closing
  <2> QED BY <2>1, <2>4, SameMkt DEF m
<1>15. CASE ExitSent
  <2>1. mkt' = mkt
    BY <1>15 DEF ExitSent, vars, Goto, Switch, End, EndPass, Done, Abort, Mark, Keep, Store,
       VenueOnly, NoFault, Fault
  <2> QED BY <2>1, SameMkt
<1>16. CASE ReReadPosition
  <2>1. mkt' = mkt \/ mkt' = [mkt EXCEPT !.stop = 0]
    BY <1>16 DEF ReReadPosition, Goto, Switch, End, EndPass, Done, Abort, Mark, Keep, Store,
       VenueOnly, NoFault, Fault
  <2>2. CASE mkt' = [mkt EXCEPT !.stop = 0]
    BY <2>2, <1>t, EaseMkt DEF MktType, Closing
  <2> QED BY <2>1, <2>2, SameMkt
<1>17. CASE MoveStop
  <2>1. mkt' = mkt
    BY <1>17 DEF MoveStop, vars, Goto, Switch, End, EndPass, Done, Abort, Mark, Keep, Store,
       VenueOnly, NoFault, Fault
  <2> QED BY <2>1, SameMkt
<1>18. CASE Recover
  <2>1. mkt' = mkt
    BY <1>18 DEF Recover, vars, Goto, Switch, End, EndPass, Done, Abort, Mark, Keep, Store,
       VenueOnly, NoFault, Fault
  <2> QED BY <2>1, SameMkt
<1>19. CASE Dispatch
  <2>1. mkt' = mkt
    BY <1>19 DEF Dispatch, vars, Goto, Switch, End, EndPass, Done, Abort, Mark, Keep, Store,
       VenueOnly, NoFault, Fault
  <2> QED BY <2>1, SameMkt
<1>20. CASE Booked
  <2>1. mkt' = mkt
    BY <1>20 DEF Booked, vars, Goto, Switch, End, EndPass, Done, Abort, Mark, Keep, Store,
       VenueOnly, NoFault, Fault
  <2> QED BY <2>1, SameMkt
<1>21. CASE Route
  <2>1. mkt' = mkt
    BY <1>21 DEF Route, vars, Goto, Switch, End, EndPass, Done, Abort, Mark, Keep, Store,
       VenueOnly, NoFault, Fault
  <2> QED BY <2>1, SameMkt
<1>22. CASE OpenRead
  <2>1. mkt' = mkt
    BY <1>22 DEF OpenRead, vars, Goto, Switch, End, EndPass, Done, Abort, Mark, Keep, Store,
       VenueOnly, NoFault, Fault
  <2> QED BY <2>1, SameMkt
<1>23. CASE Reconciled
  <2>1. mkt' = mkt
    BY <1>23 DEF Reconciled, vars, Goto, Switch, End, EndPass, Done, Abort, Mark, Keep, Store,
       VenueOnly, NoFault, Fault
  <2> QED BY <2>1, SameMkt
<1>24. CASE Gone
  <2>1. mkt' = mkt \/ mkt' = [mkt EXCEPT !.stop = 0]
    BY <1>24 DEF Gone, Goto, Switch, End, EndPass, Done, Abort, Mark, Keep, Store, VenueOnly,
       NoFault, Fault
  <2>2. CASE mkt' = [mkt EXCEPT !.stop = 0]
    BY <2>2, <1>t, EaseMkt DEF MktType, Closing
  <2> QED BY <2>1, <2>2, SameMkt
<1>25. CASE PendingRead
  <2>1. mkt' = mkt \/ mkt' = [mkt EXCEPT !.stop = 0]
    BY <1>25 DEF PendingRead, Goto, Switch, End, EndPass, Done, Abort, Mark, Keep, Store,
       VenueOnly, NoFault, Fault
  <2>2. CASE mkt' = [mkt EXCEPT !.stop = 0]
    BY <2>2, <1>t, EaseMkt DEF MktType, Closing
  <2> QED BY <2>1, <2>2, SameMkt
<1>26. CASE Recheck
  <2>1. mkt' = mkt
    BY <1>26 DEF Recheck, vars, Goto, Switch, End, EndPass, Done, Abort, Mark, Keep, Store,
       VenueOnly, NoFault, Fault
  <2> QED BY <2>1, SameMkt
<1>27. CASE StartPass
  <2>1. mkt' = mkt
    BY <1>27 DEF StartPass, vars, Goto, Switch, End, EndPass, Done, Abort, Mark, Keep, Store,
       VenueOnly, NoFault, Fault
  <2> QED BY <2>1, SameMkt
<1>28. CASE EntryFills
  <2>1. mkt.fill \in 0..Size /\ mkt.pos \in 0..Size /\ mkt.pos <= mkt.fill
    BY <1>t, <1>f DEF MktType, EarlyFits
  <2>2. CASE mkt.ent = "working"
    <3> DEFINE e == IF mkt.fill + 1 = Size THEN "over" ELSE mkt.ent
    <3>1. mkt' = [mkt EXCEPT !.fill = @ + 1, !.pos = @ + 1, !.ent = e]
      BY <1>28, <2>2 DEF EntryFills
    <3>2. e \in {"working", "over"}
      BY <2>2
    <3>9. mkt.fill < Size
      BY <2>2, <1>f DEF EarlyFits
    <3>5. e = "working" => mkt.fill + 1 < Size
      BY <2>1, <3>9, LegacyFacts
    <3> HIDE DEF e
    <3>3. mkt.fill + 1 \in 0..Size /\ mkt.pos + 1 \in 0..Size
      BY <2>1, <3>9, LegacyFacts
    <3>4. mkt' \in MktType /\ mkt'.pos = mkt.pos + 1 /\ mkt'.fill = mkt.fill + 1 /\ mkt'.ent = e
      BY <3>1, <3>2, <3>3, <1>t DEF MktType
    <3> QED BY <2>1, <2>2, <3>2, <3>4, <3>5 DEF MktMove, EntryOver
  <2>3. CASE mkt.ent = "flying"
    <3>1. mkt' = [mkt EXCEPT !.fill = Size, !.pos = @ + Size, !.ent = "over"]
      BY <1>28, <2>3 DEF EntryFills
    <3>2. mkt.fill = 0
      BY <2>3, <1>f DEF EarlyFits
    <3>3. mkt.pos + Size = Size /\ Size \in 0..Size
      BY <2>1, <3>2, LegacyFacts
    <3>4. mkt' \in MktType /\ mkt'.pos = Size /\ mkt'.fill = Size /\ mkt'.ent = "over"
      BY <3>1, <3>3, <1>t DEF MktType
    <3> QED BY <2>1, <2>3, <3>3, <3>4 DEF MktMove, EntryOver
  <2> QED BY <1>28, <2>2, <2>3 DEF EntryFills
<1>29. CASE ExitExecutes
  <2>1. ASSUME NEW s \in Exits, mkt' = Sold([mkt EXCEPT !.fly[s] = 0], mkt.fly[s]) PROVE MktMove
    <3> DEFINE m == [mkt EXCEPT !.fly[s] = 0]
    <3>1. m \in MktType /\ m.ent = mkt.ent /\ m.fill = mkt.fill /\ m.pos = mkt.pos /\ m.all = mkt.all
          /\ mkt.fly[s] \in Nat
      BY <1>t DEF MktType
    <3>2. mkt' = Sold(m, mkt.fly[s])
      BY <2>1
    <3> HIDE DEF m
    <3> QED BY <3>1, <3>2, LegacyFacts, SoldFacts, EaseMkt DEF Closing
  <2>2. CASE mkt' = Settled([mkt EXCEPT !.pos = 0, !.alien = 0, !.all = FALSE])
    <3> DEFINE m == [mkt EXCEPT !.pos = 0, !.alien = 0, !.all = FALSE]
    <3>1. m \in MktType /\ m.ent = mkt.ent /\ m.fill = mkt.fill /\ m.pos = 0 /\ 0 <= mkt.pos
      BY <1>z, <1>p, <1>t DEF MktType
    <3>2. mkt' = Settled(m)
      BY <2>2
    <3> HIDE DEF m
    <3> QED BY <3>1, <3>2, LegacyFacts, SettledFacts, EaseMkt DEF Closing
  <2> QED BY <1>29, <2>1, <2>2 DEF ExitExecutes
<1>30. CASE StopFires
  <2> DEFINE m == [mkt EXCEPT !.pos = 0, !.stop = 0]
  <2>1. m \in MktType /\ m.ent = mkt.ent /\ m.fill = mkt.fill /\ m.pos = 0 /\ 0 <= mkt.pos
    BY <1>z, <1>p, <1>t DEF MktType
  <2>2. mkt' = Settled(m)
    BY <1>30 DEF StopFires
  <2> HIDE DEF m
  <2> QED BY <2>1, <2>2, LegacyFacts, SettledFacts, EaseMkt DEF Closing
<1>31. CASE OthersTrade
  <2>1. CASE mkt.pos > 0 /\ mkt' = Settled([mkt EXCEPT !.pos = @ - 1])
    <3> DEFINE m == [mkt EXCEPT !.pos = @ - 1]
    <3>1. m \in MktType /\ m.ent = mkt.ent /\ m.fill = mkt.fill /\ m.pos <= mkt.pos
          /\ (Closing => m.pos = 0 \/ m.all)
      BY <2>1, <1>t, LegacyFacts DEF MktType, Closing
    <3>2. mkt' = Settled(m)
      BY <2>1
    <3> HIDE DEF m
    <3> QED BY <3>1, <3>2, LegacyFacts, SettledFacts, EaseMkt
  <2>2. CASE mkt' = [mkt EXCEPT !.alien = 1]
    BY <2>2, <1>t, EaseMkt DEF MktType, Closing
  <2> QED BY <1>31, <2>1, <2>2 DEF OthersTrade
<1>32. CASE Crash
  <2>1. mkt' = mkt
    BY <1>32 DEF Crash, vars, Goto, Switch, End, EndPass, Done, Abort, Mark, Keep, Store,
       VenueOnly, NoFault, Fault
  <2> QED BY <2>1, SameMkt
<1>33. ASSUME NEW s \in Exits, TakeExit(s) PROVE MktMove
  <2>1. mkt' = mkt
    BY <1>33 DEF TakeExit, Take
  <2> QED BY <2>1, SameMkt
<1>34. ASSUME NEW s \in Cancels, TakeCancel(s) PROVE MktMove
  <2>1. mkt' = mkt
    BY <1>34 DEF TakeCancel, Take
  <2> QED BY <2>1, SameMkt
<1>35. ASSUME NEW s \in Moves, TakeMove(s) PROVE MktMove
  <2>1. mkt' = mkt
    BY <1>35 DEF TakeMove, Take
  <2> QED BY <2>1, SameMkt
<1>36. CASE UNCHANGED vars
  <2>1. mkt' = mkt
    BY <1>36 DEF vars, Goto, Switch, End, EndPass, Done, Abort, Mark, Keep, Store, VenueOnly,
       NoFault, Fault
  <2> QED BY <2>1, SameMkt
<1> QED BY <1>1, <1>2, <1>3, <1>4, <1>5, <1>6, <1>7, <1>8, <1>9, <1>10, <1>11, <1>12, <1>13,
           <1>14, <1>15, <1>16, <1>17, <1>18, <1>19, <1>20, <1>21, <1>22, <1>23, <1>24, <1>25,
           <1>26, <1>27, <1>28, <1>29, <1>30, <1>31, <1>32, <1>33, <1>34, <1>35, <1>36 DEF Next,
           Engine, Venue

(* How an operation may go on, as the next stages see it.                  *)
LEMMA AfterStopCases ==
    ASSUME eng.op \in OpsAt("protect"), AfterStop
    PROVE  \/ eng.op = "cancelled-exit" /\ Switch("intent", "exit") /\ act' = act
           \/ eng.op \in {"shrunk", "guard"} /\ EndPass /\ act' = act
           \/ eng.op = "market" /\ End /\ act' = act
           \/ eng.op \in {"exit", "cancel", "move"} /\ Done
BY DEF AfterStop, OpsAt, SignalOps

LEMMA AfterEntryCases ==
    ASSUME eng.op \in OpsAt("settled"), AfterEntry
    PROVE  \/ eng.op = "exit" /\ Goto("read") /\ UNCHANGED <<ctx, act>>
           \/ eng.op = "move" /\ Goto("moveread") /\ UNCHANGED <<ctx, act>>
           \/ eng.op = "gone" /\ Goto("regone") /\ UNCHANGED <<ctx, act>>
           \/ eng.op = "shrunk" /\ Goto("reconciled") /\ UNCHANGED <<ctx, act>>
           \/ eng.op = "book" /\ Goto("booked") /\ UNCHANGED <<ctx, act>>
           \/ /\ eng.op = "expire" /\ EndPass /\ UNCHANGED act
              /\ (ctx.opened /\ UNCHANGED ctx) \/ (~ ctx.opened /\ Mark("EXPIRED"))
           \/ /\ eng.op \in {"cancel", "cancelled-exit"} /\ ctx.opened /\ ctx.q > 0
              /\ Goto("protect") /\ UNCHANGED <<ctx, act>>
           \/ /\ eng.op \in {"cancel", "cancelled-exit"} /\ ~ (ctx.opened /\ ctx.q > 0)
              /\ Mark("CANCELLED") /\ Done
<1>1. eng.op \in {"exit", "move", "gone", "shrunk", "book", "expire", "cancel", "cancelled-exit"}
  BY DEF OpsAt, SignalOps
<1>2. CASE eng.op = "exit"
  BY <1>2 DEF AfterEntry
<1>3. CASE eng.op = "move"
  BY <1>3 DEF AfterEntry
<1>4. CASE eng.op = "gone"
  BY <1>4 DEF AfterEntry
<1>5. CASE eng.op = "shrunk"
  BY <1>5 DEF AfterEntry
<1>6. CASE eng.op = "book"
  BY <1>6 DEF AfterEntry
<1>7. CASE eng.op = "expire"
  BY <1>7 DEF AfterEntry
<1>8. CASE eng.op = "cancel"
  BY <1>8 DEF AfterEntry
<1>9. CASE eng.op = "cancelled-exit"
  BY <1>9 DEF AfterEntry
<1> QED BY <1>1, <1>2, <1>3, <1>4, <1>5, <1>6, <1>7, <1>8, <1>9


EngGoes == eng' \in EngType /\ EngFits'

(* The ways an operation goes on.                                          *)
LEMMA Ends ==
    ASSUME IInv, End
    PROVE  EngGoes /\ eng'.pc \in {"idle", "recover"} /\ eng'.op = ""
<1>1. eng \in EngType /\ EngFits /\ "" \in Ops /\ 0 \in 0..Size + 1
  BY LegacyFacts DEF IInv, Typed, Ops
<1> DEFINE pc == IF eng.pass THEN "recover" ELSE "idle"
<1>2. /\ pc \in Pcs /\ pc \in {"idle", "recover"}
      /\ pc = "idle" => ~ eng.pass
      /\ "" \in OpsAt(pc) /\ "" \notin SignalOps /\ "" \notin PassOps
  BY DEF Pcs, OpsAt, SignalOps, PassOps
<1>3. eng' = [eng EXCEPT !.pc = pc, !.op = "", !.sig = NoSig, !.n = 0]
  BY DEF End
<1> HIDE DEF pc
<1>4. /\ eng' \in EngType /\ eng'.pc = pc /\ eng'.op = "" /\ eng'.sig = NoSig /\ eng'.n = 0
      /\ eng'.pass = eng.pass /\ eng'.left = eng.left
  BY <1>1, <1>2, <1>3 DEF EngType
<1>5. EngFits'
  BY <1>1, <1>2, <1>4 DEF EngFits
<1> QED BY <1>2, <1>4, <1>5 DEF EngGoes

LEMMA PassGoes ==
    ASSUME IInv, EndPass, eng.op \in PassOps \/ eng.pc \in {"pass", "switch", "recheck"}
    PROVE  EngGoes /\ eng'.pc \in {"switch", "recheck"} /\ eng'.op = ""
<1>1. eng \in EngType /\ EngFits /\ "" \in Ops /\ 0 \in 0..Size + 1 /\ FALSE \in BOOLEAN
  BY LegacyFacts DEF IInv, Typed, Ops
<1> DEFINE pc == IF eng.sw THEN "switch" ELSE "recheck"
<1>2. /\ pc \in Pcs /\ pc \in {"switch", "recheck"}
      /\ "" \in OpsAt(pc) /\ "" \notin SignalOps /\ "" \notin PassOps
  BY DEF Pcs, OpsAt, SignalOps, PassOps
<1>3. eng' = [eng EXCEPT !.pc = pc, !.op = "", !.sw = FALSE, !.n = 0]
  BY DEF EndPass
<1> HIDE DEF pc
<1>4. /\ eng' \in EngType /\ eng'.pc = pc /\ eng'.op = "" /\ eng'.sig = eng.sig /\ eng'.n = 0
      /\ eng'.pass = eng.pass /\ eng'.left = eng.left
  BY <1>1, <1>2, <1>3 DEF EngType
<1>5. eng.left = {}
  BY <1>1 DEF EngFits
<1>6. eng.sig = NoSig
  BY <1>1 DEF EngFits, OpsAt, SignalOps, PassOps
<1>7. EngFits'
  BY <1>2, <1>4, <1>5, <1>6 DEF EngFits
<1> QED BY <1>2, <1>4, <1>7 DEF EngGoes

LEMMA Aborts ==
    ASSUME IInv, Abort
    PROVE  EngGoes /\ eng'.pc \in {"idle", "recover", "switch", "recheck"} /\ eng'.op = ""
BY Ends, PassGoes DEF Abort, PassOps

LEMMA Goes ==
    ASSUME IInv, NEW pc \in Pcs, Goto(pc), eng.op \in OpsAt(pc), pc # "idle",
           pc \in {"send", "sent"} => eng.n > 0,
           pc \in {"pass", "switch", "recheck"} => eng.left = {}
    PROVE  EngGoes /\ eng'.pc = pc /\ eng'.op = eng.op /\ eng'.n = eng.n /\ eng'.sig = eng.sig
<1>1. eng \in EngType /\ EngFits
  BY DEF IInv, Typed
<1>2. /\ eng' \in EngType /\ eng'.pc = pc /\ eng'.op = eng.op /\ eng'.sig = eng.sig
      /\ eng'.n = eng.n /\ eng'.pass = eng.pass /\ eng'.left = eng.left
  BY <1>1 DEF EngType, Goto
<1>3. EngFits'
  BY <1>1, <1>2 DEF EngFits
<1> QED BY <1>2, <1>3 DEF EngGoes

LEMMA Switches ==
    ASSUME IInv, NEW pc \in Pcs, NEW op \in Ops, Switch(pc, op), op \in OpsAt(pc),
           pc \notin {"idle", "pass", "switch", "recheck", "send", "sent"}, op # "shrunk",
           op \in {"exit", "cancelled-exit"} => eng.sig \in Exits,
           op \in {"cancel", "move"} => eng.sig \in Signals,
           op \notin SignalOps => eng.sig = NoSig,
           op \in PassOps => eng.left = {}
    PROVE  EngGoes /\ eng'.pc = pc /\ eng'.op = op /\ eng'.sig = eng.sig
<1>1. eng \in EngType /\ EngFits /\ 0 \in 0..Size + 1
  BY LegacyFacts DEF IInv, Typed
<1>2. /\ eng' \in EngType /\ eng'.pc = pc /\ eng'.op = op /\ eng'.sig = eng.sig
      /\ eng'.pass = eng.pass /\ eng'.left = eng.left
  BY <1>1 DEF EngType, Switch
<1>3. EngFits'
  BY <1>1, <1>2 DEF EngFits
<1> QED BY <1>2, <1>3 DEF EngGoes

LEMMA SeenFacts ==
    IInv => /\ Seen \in 0..Size + 1 /\ mkt.pos \in Nat /\ mkt.pos <= Seen
            /\ Seen = 0 => mkt.pos = 0
<1> SUFFICES ASSUME IInv
             PROVE  /\ Seen \in 0..Size + 1 /\ mkt.pos \in Nat /\ mkt.pos <= Seen
                    /\ Seen = 0 => mkt.pos = 0
  OBVIOUS
<1>1. mkt.pos \in 0..Size /\ mkt.alien \in 0..1 /\ Size \in Nat
  BY LegacyFacts DEF IInv, Typed, MktType
<1> DEFINE x == mkt.pos
           y == mkt.alien
<1>2. x \in 0..Size /\ y \in 0..1 /\ Size \in Nat
  BY <1>1
<1>3. Seen = x + y
  BY DEF Seen
<1> HIDE DEF x, y
<1>4. x + y \in 0..Size + 1 /\ x \in Nat /\ x <= x + y /\ (x + y = 0 => x = 0)
  BY <1>2
<1> QED BY <1>3, <1>4 DEF x

LEMMA StopGoes ==
    ASSUME IInv, AfterStop, eng.op \in OpsAt("protect")
    PROVE  EngGoes
<1>1. CASE eng.op = "cancelled-exit" /\ Switch("intent", "exit")
  <2>1. "intent" \in Pcs /\ "exit" \in Ops /\ "exit" \in OpsAt("intent") /\ "exit" \in SignalOps
        /\ "exit" \notin PassOps
    BY DEF Pcs, Ops, OpsAt, SignalOps, PassOps
  <2>2. eng.sig \in Exits
    BY <1>1 DEF IInv, EngFits
  <2> QED BY <1>1, <2>1, <2>2, Switches
<1>2. CASE eng.op \in {"shrunk", "guard"} /\ EndPass
  BY <1>2, PassGoes DEF PassOps
<1>3. CASE End
  BY <1>3, Ends
<1>4. CASE Done
  BY <1>4, Ends DEF Done
<1> QED BY <1>1, <1>2, <1>3, <1>4, AfterStopCases

LEMMA EntryGoes ==
    ASSUME IInv, AfterEntry, eng.pc = "settled"
    PROVE  EngGoes
<1>e. eng.op \in OpsAt("settled")
  BY DEF IInv, EngFits
<1>1. CASE \/ eng.op = "exit" /\ Goto("read")
           \/ eng.op = "move" /\ Goto("moveread")
           \/ eng.op = "gone" /\ Goto("regone")
           \/ eng.op = "shrunk" /\ Goto("reconciled")
           \/ eng.op = "book" /\ Goto("booked")
           \/ eng.op \in {"cancel", "cancelled-exit"} /\ Goto("protect")
  <2>1. PICK pc \in {"read", "moveread", "regone", "reconciled", "booked", "protect"} :
          Goto(pc) /\ eng.op \in OpsAt(pc)
    BY <1>1 DEF OpsAt, SignalOps
  <2>2. pc \in Pcs /\ pc \notin {"idle", "send", "sent", "pass", "switch", "recheck"}
    BY DEF Pcs
  <2> QED BY <2>1, <2>2, Goes
<1>2. CASE eng.op = "expire" /\ EndPass
  BY <1>2, PassGoes DEF PassOps
<1>3. CASE Done
  BY <1>3, Ends DEF Done
<1> QED BY <1>e, <1>1, <1>2, <1>3, AfterEntryCases

LEMMA SameEng == IInv /\ eng' = eng => EngGoes
BY DEF IInv, Typed, EngFits, EngGoes

(* Every step takes the engine on within its operation. *)
LEMMA EngStep == IInv /\ [Next]_vars => EngGoes
<1> SUFFICES ASSUME IInv, [Next]_vars PROVE EngGoes
  OBVIOUS
<1>t. eng \in EngType /\ mkt \in MktType /\ ctx \in CtxType
  BY DEF IInv, Typed
<1>e. EngFits /\ EarlyFits
  BY DEF IInv
<1>1. CASE Open
  <2>1. PICK kind \in {"market", "limit"} : Switch("announce", kind)
    BY <1>1 DEF Open
  <2>2. /\ kind \in Ops /\ kind \in OpsAt("announce") /\ "announce" \in Pcs
        /\ kind \notin SignalOps /\ kind \notin PassOps
    BY DEF Ops, OpsAt, Pcs, SignalOps, PassOps
  <2>3. eng.sig = NoSig
    BY <1>1, <1>e DEF Open, EngFits, OpsAt, SignalOps
  <2> QED BY <2>1, <2>2, <2>3, Switches DEF SignalOps
<1>2. CASE Announce
  <2>1. \/ Goto("submit") /\ eng.op \in OpsAt("submit")
    BY <1>2, <1>t, <1>e DEF Announce, EngFits, OpsAt, SignalOps
  <2>2. CASE Goto("submit") /\ eng.op \in OpsAt("submit")
    BY <2>2, Goes DEF Pcs
  <2> QED BY <2>1, <2>2
<1>3. CASE SubmitEntry
  <2>1. \/ Goto("accepted") /\ eng.op \in OpsAt("accepted")
        \/ End
    BY <1>3, <1>t, <1>e DEF SubmitEntry, EngFits, OpsAt, SignalOps
  <2>2. CASE Goto("accepted") /\ eng.op \in OpsAt("accepted")
    BY <2>2, Goes DEF Pcs
  <2>3. CASE End
    BY <2>3, Ends
  <2> QED BY <2>1, <2>2, <2>3
<1>4. CASE Accepted
  <2>1. \/ Goto("protect") /\ eng.op \in OpsAt("protect")
        \/ End
    BY <1>4, <1>t, <1>e DEF Accepted, EngFits, OpsAt, SignalOps
  <2>2. CASE Goto("protect") /\ eng.op \in OpsAt("protect")
    BY <2>2, Goes DEF Pcs
  <2>3. CASE End
    BY <2>3, Ends
  <2> QED BY <2>1, <2>2, <2>3
<1>5. CASE Protect
  <2>1. CASE eng.pc = "protect" /\ AfterStop
    BY <2>1, <1>e, StopGoes DEF EngFits
  <2>2. CASE \/ eng.pc = "settle-protect" /\ Goto("settled")
             \/ eng.pc = "protect" /\ Goto("place")
             \/ eng.pc = "settle-protect" /\ Goto("settle-place")
    <3>1. PICK pc \in {"settled", "place", "settle-place"} : Goto(pc) /\ eng.op \in OpsAt(pc)
      BY <2>2, <1>e DEF EngFits, OpsAt
    <3> QED BY <3>1, Goes DEF Pcs
  <2>3. CASE Abort
    BY <2>3, Aborts
  <2> QED BY <1>5, <2>1, <2>2, <2>3 DEF Protect
<1>6. CASE PlaceStop
  <2>1. CASE eng.pc = "place" /\ AfterStop
    <3>1. eng.op \in OpsAt("protect")
      BY <2>1, <1>e DEF EngFits, OpsAt
    <3> QED BY <2>1, <3>1, StopGoes
  <2>2. CASE \/ eng.pc = "settle-place" /\ Goto("settled")
             \/ eng.pc = "settle-place" /\ Goto("emergency")
             \/ eng.op = "market" /\ Goto("emergency")
    <3>1. PICK pc \in {"settled", "emergency"} : Goto(pc) /\ eng.op \in OpsAt(pc)
      BY <2>2, <1>e DEF EngFits, OpsAt, SignalOps, PassOps
    <3> QED BY <3>1, Goes DEF Pcs
  <2>3. CASE Abort
    BY <2>3, Aborts
  <2> QED BY <1>6, <2>1, <2>2, <2>3 DEF PlaceStop
<1>7. CASE Emergency
  <2>1. \/ Abort
    BY <1>7, <1>t, <1>e DEF Emergency, EngFits, OpsAt, SignalOps
  <2>2. CASE Abort
    BY <2>2, Aborts
  <2> QED BY <2>1, <2>2
<1>8. CASE Latch
  <2>1. \/ Goto("status") /\ eng.op \in OpsAt("status")
        \/ Goto("settled") /\ eng.op \in OpsAt("settled")
    BY <1>8, <1>t, <1>e DEF Latch, EngFits, OpsAt, SignalOps
  <2>2. CASE Goto("status") /\ eng.op \in OpsAt("status")
    BY <2>2, Goes DEF Pcs
  <2>3. CASE Goto("settled") /\ eng.op \in OpsAt("settled")
    BY <2>3, Goes DEF Pcs
  <2> QED BY <2>1, <2>2, <2>3
<1>9. CASE EntryStatus
  <2>1. \/ Goto("settled") /\ eng.op \in OpsAt("settled")
        \/ Goto("settle-protect") /\ eng.op \in OpsAt("settle-protect")
        \/ Goto("cancel") /\ eng.op \in OpsAt("cancel")
        \/ Abort
    BY <1>9, <1>t, <1>e DEF EntryStatus, EngFits, OpsAt, SignalOps, SettleEntry
  <2>2. CASE Goto("settled") /\ eng.op \in OpsAt("settled")
    BY <2>2, Goes DEF Pcs
  <2>3. CASE Goto("settle-protect") /\ eng.op \in OpsAt("settle-protect")
    BY <2>3, Goes DEF Pcs
  <2>4. CASE Goto("cancel") /\ eng.op \in OpsAt("cancel")
    BY <2>4, Goes DEF Pcs
  <2>5. CASE Abort
    BY <2>5, Aborts
  <2> QED BY <2>1, <2>2, <2>3, <2>4, <2>5
<1>10. CASE CancelEntry
  <2>1. \/ Goto("verify") /\ eng.op \in OpsAt("verify")
    BY <1>10, <1>t, <1>e DEF CancelEntry, EngFits, OpsAt, SignalOps
  <2>2. CASE Goto("verify") /\ eng.op \in OpsAt("verify")
    BY <2>2, Goes DEF Pcs
  <2> QED BY <2>1, <2>2
<1>11. CASE EntrySettled
  BY <1>11, EntryGoes DEF EntrySettled
<1>12. CASE Intent
  <2>1. \/ Goto("latch") /\ eng.op \in OpsAt("latch")
        \/ Done
        \/ Abort
    BY <1>12, <1>t, <1>e DEF Intent, EngFits, OpsAt, SignalOps
  <2>2. CASE Goto("latch") /\ eng.op \in OpsAt("latch")
    BY <2>2, Goes DEF Pcs
  <2>3. CASE Done
    BY <2>3, Ends DEF Done
  <2>4. CASE Abort
    BY <2>4, Aborts
  <2> QED BY <2>1, <2>2, <2>3, <2>4
<1>13. CASE ReadPosition
  <2>1. CASE Seen > 0 /\ eng' = [eng EXCEPT !.pc = "send", !.n = Seen]
    <3>1. /\ eng' \in EngType /\ eng'.pc = "send" /\ eng'.op = eng.op /\ eng'.sig = eng.sig
          /\ eng'.n = Seen /\ eng'.pass = eng.pass /\ eng'.left = eng.left
      BY <2>1, <1>t, SeenFacts DEF EngType, Pcs
    <3>2. eng.op = "exit"
      BY <1>13, <1>e DEF ReadPosition, EngFits, OpsAt
    <3> QED BY <2>1, <3>1, <3>2, <1>e DEF EngFits, EngGoes, OpsAt, SignalOps, PassOps
  <2>2. CASE Done
    BY <2>2, Ends DEF Done
  <2>3. CASE Abort
    BY <2>3, Aborts
  <2> QED BY <1>13, <2>1, <2>2, <2>3 DEF ReadPosition
<1>14. CASE SendExit
  <2>1. \/ Goto("sent") /\ eng.op \in OpsAt("sent") /\ eng.n > 0
        \/ Abort
    BY <1>14, <1>t, <1>e DEF SendExit, EngFits, OpsAt, SignalOps
  <2>2. CASE Goto("sent") /\ eng.op \in OpsAt("sent") /\ eng.n > 0
    BY <2>2, Goes DEF Pcs
  <2>3. CASE Abort
    BY <2>3, Aborts
  <2> QED BY <2>1, <2>2, <2>3
<1>15. CASE ExitSent
  <2>1. \/ Goto("reread") /\ eng.op \in OpsAt("reread")
        \/ Goto("protect") /\ eng.op \in OpsAt("protect")
    BY <1>15, <1>t, <1>e DEF ExitSent, EngFits, OpsAt, SignalOps
  <2>2. CASE Goto("reread") /\ eng.op \in OpsAt("reread")
    BY <2>2, Goes DEF Pcs
  <2>3. CASE Goto("protect") /\ eng.op \in OpsAt("protect")
    BY <2>3, Goes DEF Pcs
  <2> QED BY <2>1, <2>2, <2>3
<1>16. CASE ReReadPosition
  <2>1. \/ Done
    BY <1>16, <1>t, <1>e DEF ReReadPosition, EngFits, OpsAt, SignalOps
  <2>2. CASE Done
    BY <2>2, Ends DEF Done
  <2> QED BY <2>1, <2>2
<1>17. CASE MoveStop
  <2>1. \/ Goto("protect") /\ eng.op \in OpsAt("protect")
        \/ Done
        \/ Abort
    BY <1>17, <1>t, <1>e DEF MoveStop, EngFits, OpsAt, SignalOps
  <2>2. CASE Goto("protect") /\ eng.op \in OpsAt("protect")
    BY <2>2, Goes DEF Pcs
  <2>3. CASE Done
    BY <2>3, Ends DEF Done
  <2>4. CASE Abort
    BY <2>4, Aborts
  <2> QED BY <2>1, <2>2, <2>3, <2>4
<1>18. CASE Recover
  <2>0. eng.pc = "recover" /\ eng.op = "" /\ eng.left \subseteq Signals
    BY <1>18, <1>t, <1>e DEF Recover, EngFits, OpsAt, EngType
  <2>1. ASSUME NEW s \in eng.left, NEW op \in {"exit", "cancel", "move"}, NEW pc \in {"intent", "latch"},
               op = "exit" => s \in Exits, (op = "exit") = (pc = "intent"),
               eng' = [eng EXCEPT !.pc = pc, !.op = op, !.sig = s, !.left = @ \ {s}]
        PROVE  EngGoes
    <3>1. /\ pc \in Pcs /\ op \in Ops /\ op \in OpsAt(pc) /\ op \in SignalOps /\ op \notin PassOps
          /\ pc \notin {"idle", "pass", "switch", "recheck", "send", "sent"}
          /\ op \notin {"shrunk", "cancelled-exit"}
      BY <2>1 DEF Pcs, Ops, OpsAt, SignalOps, PassOps
    <3>2. /\ eng' \in EngType /\ eng'.pc = pc /\ eng'.op = op /\ eng'.sig = s
          /\ eng'.pass = eng.pass /\ eng'.left = eng.left \ {s}
      BY <2>0, <2>1, <3>1, <1>t DEF EngType
    <3>3. ~ eng'.pass => eng'.left = {}
      BY <3>2, <1>e DEF EngFits
    <3> QED BY <2>0, <2>1, <3>1, <3>2, <3>3 DEF EngFits, EngGoes
  <2>2. ASSUME NEW s \in eng.left, eng' = [eng EXCEPT !.left = @ \ {s}]
        PROVE  EngGoes
    <3>1. /\ eng' \in EngType /\ eng'.pc = eng.pc /\ eng'.op = eng.op /\ eng'.sig = eng.sig
          /\ eng'.n = eng.n /\ eng'.pass = eng.pass /\ eng'.left = eng.left \ {s}
      BY <2>2, <1>t DEF EngType
    <3>2. eng.left = {} => eng'.left = {}
      BY <3>1
    <3> QED BY <3>1, <3>2, <1>e DEF EngFits, EngGoes
  <2>3. CASE eng.left = {} /\ Goto(IF ctx.st \in Terminal THEN "recheck" ELSE "pass")
    <3>1. PICK pc \in {"recheck", "pass"} : Goto(pc) /\ eng.op \in OpsAt(pc)
      BY <2>0, <2>3 DEF OpsAt
    <3> QED BY <2>3, <3>1, Goes DEF Pcs
  <2>4. ASSUME NEW s \in eng.left,
               \/ s \in Exits /\ eng' = [eng EXCEPT !.pc = "intent", !.op = "exit", !.sig = s, !.left = @ \ {s}]
               \/ eng' = [eng EXCEPT !.left = @ \ {s}]
               \/ eng' = [eng EXCEPT !.pc = "latch", !.op = "cancel", !.sig = s, !.left = @ \ {s}]
               \/ eng' = [eng EXCEPT !.pc = "latch", !.op = "move", !.sig = s, !.left = @ \ {s}]
        PROVE  EngGoes
    BY <2>1, <2>2, <2>4
  <2> QED BY <1>18, <2>3, <2>4 DEF Recover
<1>19. CASE Dispatch
  <2>0. eng.pc = "pass" /\ eng.op = "" /\ eng.left = {} /\ eng.sig = NoSig
    BY <1>19, <1>e DEF Dispatch, EngFits, OpsAt, SignalOps
  <2>1. CASE EndPass
    BY <2>0, <2>1, PassGoes
  <2>2. CASE eng' = [eng EXCEPT !.pc = "status", !.op = "book", !.sw = ctx.st # "ENTRY_PENDING"]
    <3>1. PICK b \in BOOLEAN : eng' = [eng EXCEPT !.pc = "status", !.op = "book", !.sw = b]
      BY <2>2
    <3>2. "status" \in Pcs /\ "book" \in Ops /\ "book" \in OpsAt("status") /\ "book" \notin SignalOps
      BY DEF Pcs, Ops, OpsAt, SignalOps, PassOps
    <3>3. /\ eng' \in EngType /\ eng'.pc = "status" /\ eng'.op = "book" /\ eng'.sig = NoSig
          /\ eng'.left = {}
      BY <2>0, <3>1, <3>2, <1>t DEF EngType
    <3> QED BY <3>2, <3>3 DEF EngFits, EngGoes
  <2>3. CASE Goto("switch")
    BY <2>0, <2>3, Goes DEF Pcs, OpsAt
  <2> QED BY <1>19, <2>1, <2>2, <2>3 DEF Dispatch
<1>20. CASE Booked
  <2>0. eng.op = "book" /\ eng.left = {} /\ eng.sig = NoSig
    BY <1>20, <1>e DEF Booked, EngFits, OpsAt, SignalOps, PassOps
  <2>1. CASE EndPass
    BY <2>0, <2>1, PassGoes DEF PassOps
  <2>2. CASE Switch("latch", "expire")
    <3>1. /\ "latch" \in Pcs /\ "expire" \in Ops /\ "expire" \in OpsAt("latch") /\ "expire" \notin SignalOps
      BY DEF Pcs, Ops, OpsAt, SignalOps, PassOps
    <3> QED BY <2>0, <2>2, <3>1, Switches DEF SignalOps
  <2> QED BY <1>20, <2>1, <2>2 DEF Booked
<1>21. CASE Route
  <2>0. eng.pc = "switch" /\ eng.left = {} /\ eng.sig = NoSig
    BY <1>21, <1>e DEF Route, EngFits, OpsAt, SignalOps
  <2>1. CASE EndPass
    BY <2>0, <2>1, PassGoes
  <2>2. CASE Switch("openread", "guard")
    <3>1. /\ "openread" \in Pcs /\ "guard" \in Ops /\ "guard" \in OpsAt("openread") /\ "guard" \notin SignalOps
      BY DEF Pcs, Ops, OpsAt, SignalOps, PassOps
    <3> QED BY <2>0, <2>2, <3>1, Switches DEF SignalOps
  <2>3. CASE Switch("pendread", "guard")
    <3>1. /\ "pendread" \in Pcs /\ "guard" \in Ops /\ "guard" \in OpsAt("pendread") /\ "guard" \notin SignalOps
      BY DEF Pcs, Ops, OpsAt, SignalOps, PassOps
    <3> QED BY <2>0, <2>3, <3>1, Switches DEF SignalOps
  <2> QED BY <1>21, <2>1, <2>2, <2>3 DEF Route
<1>22. CASE OpenRead
  <2>0. eng.op = "guard" /\ eng.left = {} /\ eng.sig = NoSig
    BY <1>22, <1>e DEF OpenRead, EngFits, OpsAt, SignalOps, PassOps
  <2>1. CASE EndPass
    BY <2>0, <2>1, PassGoes DEF PassOps
  <2>2. CASE Switch("latch", "gone")
    <3>1. /\ "latch" \in Pcs /\ "gone" \in Ops /\ "gone" \in OpsAt("latch") /\ "gone" \notin SignalOps
      BY DEF Pcs, Ops, OpsAt, SignalOps, PassOps
    <3> QED BY <2>0, <2>2, <3>1, Switches DEF SignalOps
  <2>3. CASE Seen > 0 /\ eng' = [eng EXCEPT !.pc = "latch", !.op = "shrunk", !.n = Seen]
    <3>1. "latch" \in Pcs /\ "shrunk" \in Ops /\ "shrunk" \in OpsAt("latch") /\ "shrunk" \notin SignalOps
      BY DEF Pcs, Ops, OpsAt, SignalOps, PassOps
    <3>2. /\ eng' \in EngType /\ eng'.pc = "latch" /\ eng'.op = "shrunk" /\ eng'.sig = NoSig
          /\ eng'.left = {} /\ eng'.n = Seen
      BY <2>0, <2>3, <3>1, <1>t, SeenFacts DEF EngType
    <3> QED BY <2>3, <3>1, <3>2 DEF EngFits, EngGoes
  <2>4. CASE Goto("protect")
    BY <2>0, <2>4, Goes DEF Pcs, OpsAt
  <2> QED BY <1>22, <2>1, <2>2, <2>3, <2>4 DEF OpenRead
<1>23. CASE Reconciled
  <2>1. \/ Goto("protect") /\ eng.op \in OpsAt("protect")
    BY <1>23, <1>t, <1>e DEF Reconciled, EngFits, OpsAt, SignalOps
  <2>2. CASE Goto("protect") /\ eng.op \in OpsAt("protect")
    BY <2>2, Goes DEF Pcs
  <2> QED BY <2>1, <2>2
<1>24. CASE Gone
  <2>1. \/ EndPass
    BY <1>24, <1>t, <1>e DEF Gone, EngFits, OpsAt, SignalOps
  <2>2. CASE EndPass
    BY <2>2, <1>24, <1>e, PassGoes DEF Gone, EngFits, OpsAt, PassOps
  <2> QED BY <2>1, <2>2
<1>25. CASE PendingRead
  <2>1. \/ EndPass
    BY <1>25, <1>t, <1>e DEF PendingRead, EngFits, OpsAt, SignalOps
  <2>2. CASE EndPass
    BY <2>2, <1>25, <1>e, PassGoes DEF PendingRead, EngFits, OpsAt, PassOps
  <2> QED BY <2>1, <2>2
<1>26. CASE Recheck
  <2>0. eng.op = "" /\ eng.left = {} /\ eng.sig = NoSig
    BY <1>26, <1>e DEF Recheck, EngFits, OpsAt, SignalOps
  <2>1. CASE eng' = [eng EXCEPT !.pc = "idle", !.pass = FALSE]
    <3>1. "idle" \in Pcs /\ "" \in OpsAt("idle") /\ "" \notin SignalOps
      BY DEF Pcs, OpsAt, SignalOps
    <3>2. /\ eng' \in EngType /\ eng'.pc = "idle" /\ eng'.op = "" /\ eng'.sig = NoSig
          /\ eng'.left = {} /\ ~ eng'.pass
      BY <2>0, <2>1, <3>1, <1>t DEF EngType
    <3> QED BY <3>1, <3>2 DEF EngFits, EngGoes
  <2>2. CASE Switch("openread", "guard")
    <3>1. /\ "openread" \in Pcs /\ "guard" \in Ops /\ "guard" \in OpsAt("openread") /\ "guard" \notin SignalOps
      BY DEF Pcs, Ops, OpsAt, SignalOps, PassOps
    <3> QED BY <2>0, <2>2, <3>1, Switches DEF SignalOps
  <2> QED BY <1>26, <2>1, <2>2 DEF Recheck
<1>27. CASE StartPass
  <2>0. eng.op = "" /\ eng.sig = NoSig
    BY <1>27, <1>e DEF StartPass, EngFits, OpsAt, SignalOps
  <2>1. PICK S \in SUBSET Signals : eng' = [eng EXCEPT !.pc = "recover", !.pass = TRUE, !.left = S]
    BY <1>27 DEF StartPass
  <2>2. "recover" \in Pcs /\ "" \in OpsAt("recover") /\ "" \notin SignalOps /\ "" \notin PassOps
    BY DEF Pcs, OpsAt, SignalOps, PassOps
  <2>3. /\ eng' \in EngType /\ eng'.pc = "recover" /\ eng'.op = "" /\ eng'.sig = NoSig
        /\ eng'.pass
    BY <2>0, <2>1, <2>2, <1>t DEF EngType
  <2> QED BY <2>2, <2>3 DEF EngFits, EngGoes
<1>28. CASE EntryFills
  <2>1. eng' = eng
    BY <1>28 DEF EntryFills, vars, VenueOnly
  <2> QED BY <2>1, SameEng
<1>29. CASE ExitExecutes
  <2>1. eng' = eng
    BY <1>29 DEF ExitExecutes, vars, VenueOnly
  <2> QED BY <2>1, SameEng
<1>30. CASE StopFires
  <2>1. eng' = eng
    BY <1>30 DEF StopFires, vars, VenueOnly
  <2> QED BY <2>1, SameEng
<1>31. CASE OthersTrade
  <2>1. eng' = eng
    BY <1>31 DEF OthersTrade, vars, VenueOnly
  <2> QED BY <2>1, SameEng
<1>32. CASE Crash
  <2>1. eng' = [eng EXCEPT !.pc = "idle", !.op = "", !.sig = NoSig, !.pass = FALSE, !.left = {},
                           !.sw = FALSE, !.n = 0]
    BY <1>32 DEF Crash
  <2>2. "idle" \in Pcs /\ "" \in Ops /\ "" \in OpsAt("idle") /\ "" \notin SignalOps /\ 0 \in 0..Size + 1
    BY LegacyFacts DEF Pcs, Ops, OpsAt, SignalOps
  <2>3. /\ eng' \in EngType /\ eng'.pc = "idle" /\ eng'.op = "" /\ eng'.sig = NoSig
        /\ eng'.left = {} /\ ~ eng'.pass
    BY <2>1, <2>2, <1>t DEF EngType
  <2> QED BY <2>2, <2>3 DEF EngFits, EngGoes
<1>33. ASSUME NEW s \in Exits, TakeExit(s) PROVE EngGoes
  <2>1. PICK op \in {"exit", "cancelled-exit"}, pc \in {"intent", "latch"} :
          /\ op \in OpsAt(pc)
          /\ eng' = [eng EXCEPT !.pc = pc, !.op = op, !.sig = s] /\ eng.pc = "idle"
    BY <1>33 DEF TakeExit, Take, OpsAt, SignalOps
  <2>2. op \in Ops /\ op \in SignalOps /\ op \notin PassOps /\ pc \in Pcs /\ s \in Signals
        /\ (op \in {"exit", "cancelled-exit"} => s \in Exits)
    BY DEF Ops, SignalOps, PassOps, Pcs, Signals
  <2>3. /\ eng' \in EngType /\ eng'.pc = pc /\ eng'.op = op /\ eng'.sig = s
        /\ eng'.pass = eng.pass /\ eng'.left = eng.left
    BY <2>1, <2>2, <1>t DEF EngType
  <2>4. ~ eng'.pass => eng'.left = {}
    BY <2>3, <1>e DEF EngFits
  <2> QED BY <2>1, <2>2, <2>3, <2>4 DEF EngFits, EngGoes
<1>34. ASSUME NEW s \in Cancels, TakeCancel(s) PROVE EngGoes
  <2>1. PICK op \in {"cancel"}, pc \in {"intent", "latch"} :
          /\ op \in OpsAt(pc)
          /\ eng' = [eng EXCEPT !.pc = pc, !.op = op, !.sig = s] /\ eng.pc = "idle"
    BY <1>34 DEF TakeCancel, Take, OpsAt, SignalOps
  <2>2. op \in Ops /\ op \in SignalOps /\ op \notin PassOps /\ pc \in Pcs /\ s \in Signals
        /\ (op \in {"exit", "cancelled-exit"} => s \in Exits)
    BY DEF Ops, SignalOps, PassOps, Pcs, Signals
  <2>3. /\ eng' \in EngType /\ eng'.pc = pc /\ eng'.op = op /\ eng'.sig = s
        /\ eng'.pass = eng.pass /\ eng'.left = eng.left
    BY <2>1, <2>2, <1>t DEF EngType
  <2>4. ~ eng'.pass => eng'.left = {}
    BY <2>3, <1>e DEF EngFits
  <2> QED BY <2>1, <2>2, <2>3, <2>4 DEF EngFits, EngGoes
<1>35. ASSUME NEW s \in Moves, TakeMove(s) PROVE EngGoes
  <2>1. PICK op \in {"move"}, pc \in {"intent", "latch"} :
          /\ op \in OpsAt(pc)
          /\ eng' = [eng EXCEPT !.pc = pc, !.op = op, !.sig = s] /\ eng.pc = "idle"
    BY <1>35 DEF TakeMove, Take, OpsAt, SignalOps
  <2>2. op \in Ops /\ op \in SignalOps /\ op \notin PassOps /\ pc \in Pcs /\ s \in Signals
        /\ (op \in {"exit", "cancelled-exit"} => s \in Exits)
    BY DEF Ops, SignalOps, PassOps, Pcs, Signals
  <2>3. /\ eng' \in EngType /\ eng'.pc = pc /\ eng'.op = op /\ eng'.sig = s
        /\ eng'.pass = eng.pass /\ eng'.left = eng.left
    BY <2>1, <2>2, <1>t DEF EngType
  <2>4. ~ eng'.pass => eng'.left = {}
    BY <2>3, <1>e DEF EngFits
  <2> QED BY <2>1, <2>2, <2>3, <2>4 DEF EngFits, EngGoes
<1>36. CASE UNCHANGED vars
  <2>1. eng' = eng
    BY <1>36 DEF vars, vars, VenueOnly
  <2> QED BY <2>1, SameEng
<1> QED BY <1>1, <1>2, <1>3, <1>4, <1>5, <1>6, <1>7, <1>8, <1>9, <1>10, <1>11, <1>12, <1>13,
           <1>14, <1>15, <1>16, <1>17, <1>18, <1>19, <1>20, <1>21, <1>22, <1>23, <1>24, <1>25,
           <1>26, <1>27, <1>28, <1>29, <1>30, <1>31, <1>32, <1>33, <1>34, <1>35, <1>36 DEF Next,
           Engine, Venue

(* The exit of a reduction is no more than what was read.                  *)
LEMMA QtyFacts ==
    IInv /\ eng.n > 0 => /\ ExitQty \in Nat /\ ExitQty <= eng.n
                         /\ ~ Full => eng.n - ExitQty \in 1..Size + 1
<1> SUFFICES ASSUME IInv, eng.n > 0
             PROVE  /\ ExitQty \in Nat /\ ExitQty <= eng.n
                    /\ ~ Full => eng.n - ExitQty \in 1..Size + 1
  OBVIOUS
<1> DEFINE n == eng.n
           q == ExitQty
<1>1. n \in 0..Size + 1 /\ n > 0 /\ Size \in Nat
  BY LegacyFacts DEF IInv, Typed, EngType
<1>2. q = n \/ q = (n + 1) \div 2
  BY DEF ExitQty
<1> HIDE DEF n, q
<1>3. q \in Nat /\ q <= n /\ (q # n => n - q \in 1..Size + 1)
  BY <1>1, <1>2
<1> QED BY <1>3 DEF n, q, Full

TypesMove ==
    /\ ctx' \in CtxType
    /\ act' \in [Signals -> {"new", "open", "done"}]
    /\ miss' \in BOOLEAN /\ watch' \in 0..3

(* Every step keeps the context and the journal of their types. *)
LEMMA TypeStep == IInv /\ [Next]_vars => TypesMove
<1> SUFFICES ASSUME IInv, [Next]_vars PROVE TypesMove
  OBVIOUS
<1>t. /\ eng \in EngType /\ ctx \in CtxType /\ act \in [Signals -> {"new", "open", "done"}]
      /\ miss \in BOOLEAN /\ watch \in 0..3
  BY DEF IInv, Typed
<1>z. Size \in Nat /\ Size > 0 /\ Size \in 0..Size + 1 /\ 0 \in 0..3 /\ 3 \in 0..3
  BY LegacyFacts
<1>m. mkt.stop \in 0..2 /\ mkt.fill \in 0..Size + 1 /\ mkt \in MktType
  <2>1. mkt.stop \in 0..2 /\ mkt.fill \in 0..Size /\ mkt \in MktType
    BY DEF IInv, Typed, MktType
  <2> QED BY <2>1, LegacyFacts
<1>d. Done => act' \in [Signals -> {"new", "open", "done"}]
  BY <1>t DEF Done
<1>n. eng.n \in 0..Size + 1
  BY <1>t DEF EngType
<1>1. CASE Open
  BY <1>1, <1>t DEF Open, vars, Take, Goto, Switch, End, EndPass, Done, Abort, Mark, Keep,
     Store, VenueOnly, NoFault, Fault, TypesMove, CtxType, States, Holding, Terminal
<1>2. CASE Announce
  BY <1>2, <1>t DEF Announce, vars, Take, Goto, Switch, End, EndPass, Done, Abort, Mark, Keep,
     Store, VenueOnly, NoFault, Fault, TypesMove, CtxType, States, Holding, Terminal
<1>3. CASE SubmitEntry
  BY <1>3, <1>t DEF SubmitEntry, vars, Take, Goto, Switch, End, EndPass, Done, Abort, Mark,
     Keep, Store, VenueOnly, NoFault, Fault, TypesMove, CtxType, States, Holding, Terminal
<1>4. CASE Accepted
  <2>1. act' = act /\ miss' = miss /\ watch' = watch
    BY <1>4 DEF Accepted
  <2>2. \/ ctx' = [ctx EXCEPT !.st = "OPEN", !.q = Size, !.opened = TRUE]
        \/ ctx' = [ctx EXCEPT !.st = "ENTRY_PENDING", !.working = TRUE]
    BY <1>4 DEF Accepted
  <2> QED BY <2>1, <2>2, <1>t, <1>z DEF TypesMove, CtxType, States, Holding
<1>5. CASE Protect
  <2>t. Target \in 1..2
    BY <1>t DEF Target, CtxType
  <2>o. eng.op \in OpsAt("protect") \/ eng.pc \notin {"protect", "place"}
    BY DEF IInv, EngFits, OpsAt
  <2>1. miss' = miss /\ watch' = watch
    BY <1>5 DEF Protect
  <2>2. act' = act \/ Done
    BY <1>5, <2>o, AfterStopCases DEF Protect
  <2>3. ctx' = ctx \/ (mkt.stop >= Target /\ ctx' = [ctx EXCEPT !.sl = mkt.stop])
    BY <1>5 DEF Protect
  <2>4. mkt.stop >= Target => mkt.stop \in 1..2
    <3> DEFINE x == Target
    <3>1. x \in 1..2
      BY <2>t
    <3> HIDE DEF x
    <3>2. mkt.stop >= x => mkt.stop \in 1..2
      BY <3>1, <1>m
    <3> QED BY <3>2 DEF x
  <2> QED BY <2>1, <2>2, <2>3, <2>4, <1>t, <1>d DEF TypesMove, CtxType
<1>6. CASE PlaceStop
  <2>t. Target \in 1..2
    BY <1>t DEF Target, CtxType
  <2>o. eng.op \in OpsAt("protect") \/ eng.pc \notin {"protect", "place"}
    BY DEF IInv, EngFits, OpsAt
  <2>1. miss' = miss /\ watch' = watch
    BY <1>6 DEF PlaceStop
  <2>2. act' = act \/ Done
    BY <1>6, <2>o, AfterStopCases DEF PlaceStop
  <2>3. ctx' = ctx \/ ctx' = [ctx EXCEPT !.sl = Target]
    BY <1>6 DEF PlaceStop
  <2> QED BY <2>t, <2>1, <2>2, <2>3, <1>t, <1>d DEF TypesMove, CtxType
<1>7. CASE Emergency
  BY <1>7, <1>t DEF Emergency, vars, Take, Goto, Switch, End, EndPass, Done, Abort, Mark, Keep,
     Store, VenueOnly, NoFault, Fault, TypesMove, CtxType, States, Holding, Terminal
<1>8. CASE Latch
  BY <1>8, <1>t DEF Latch, vars, Take, Goto, Switch, End, EndPass, Done, Abort, Mark, Keep,
     Store, VenueOnly, NoFault, Fault, TypesMove, CtxType, States, Holding, Terminal
<1>9. CASE EntryStatus
  <2>1. act' = act /\ miss' = miss /\ watch' = watch
    BY <1>9 DEF EntryStatus, Keep
  <2>2. PICK over \in BOOLEAN, q \in {Seen, mkt.fill} :
          \/ ctx' = ctx
          \/ ctx' = [ctx EXCEPT !.st = "CANCELLED", !.working = FALSE, !.q = 0]
          \/ ctx' = [ctx EXCEPT !.st = "OPEN", !.working = ~over, !.opened = TRUE, !.q = q]
    BY <1>9 DEF EntryStatus, SettleEntry
  <2>3. q \in 0..Size + 1 /\ 0 \in 0..Size + 1
    BY <1>m, <1>z, SeenFacts
  <2> QED BY <2>1, <2>2, <2>3, <1>t DEF TypesMove, CtxType, States, Holding, Terminal
<1>10. CASE CancelEntry
  BY <1>10, <1>t DEF CancelEntry, vars, Take, Goto, Switch, End, EndPass, Done, Abort, Mark,
     Keep, Store, VenueOnly, NoFault, Fault, TypesMove, CtxType, States, Holding, Terminal
<1>11. CASE EntrySettled
  <2>1. miss' = miss /\ watch' = watch
    BY <1>11 DEF EntrySettled
  <2>2. eng.op \in OpsAt("settled")
    BY <1>11 DEF EntrySettled, IInv, EngFits
  <2>3. (act' = act \/ Done) /\ (ctx' = ctx \/ \E st \in {"EXPIRED", "CANCELLED"} : ctx' = [ctx EXCEPT !.st = st])
    BY <1>11, <2>2, AfterEntryCases DEF EntrySettled, Mark
  <2> QED BY <2>1, <2>3, <1>t, <1>d DEF TypesMove, CtxType, States, Terminal
<1>12. CASE Intent
  BY <1>12, <1>t DEF Intent, vars, Take, Goto, Switch, End, EndPass, Done, Abort, Mark, Keep,
     Store, VenueOnly, NoFault, Fault, TypesMove, CtxType, States, Holding, Terminal
<1>13. CASE ReadPosition
  BY <1>13, <1>t DEF ReadPosition, vars, Take, Goto, Switch, End, EndPass, Done, Abort, Mark,
     Keep, Store, VenueOnly, NoFault, Fault, TypesMove, CtxType, States, Holding, Terminal
<1>14. CASE SendExit
  BY <1>14, <1>t DEF SendExit, vars, Take, Goto, Switch, End, EndPass, Done, Abort, Mark, Keep,
     Store, VenueOnly, NoFault, Fault, TypesMove, CtxType, States, Holding, Terminal
<1>15. CASE ExitSent
  <2>1. act' = act /\ miss' = miss /\ watch' = watch
    BY <1>15 DEF ExitSent
  <2>2. CASE ctx' = ctx
    BY <2>1, <2>2, <1>t DEF TypesMove
  <2>3. CASE ~ Full /\ ctx' = [ctx EXCEPT !.q = eng.n - ExitQty]
    <3>1. eng.n > 0
      BY <1>15 DEF ExitSent, IInv, EngFits
    <3>2. eng.n - ExitQty \in 1..Size + 1
      BY <2>3, <3>1, QtyFacts
    <3> DEFINE q == eng.n - ExitQty
    <3>3. q \in 0..Size + 1 /\ ctx' = [ctx EXCEPT !.q = q]
      BY <2>3, <3>2, <1>z
    <3> HIDE DEF q
    <3> QED BY <2>1, <3>3, <1>t DEF TypesMove, CtxType
  <2> QED BY <1>15, <2>2, <2>3 DEF ExitSent
<1>16. CASE ReReadPosition
  BY <1>16, <1>t DEF ReReadPosition, vars, Take, Goto, Switch, End, EndPass, Done, Abort, Mark,
     Keep, Store, VenueOnly, NoFault, Fault, TypesMove, CtxType, States, Holding, Terminal
<1>17. CASE MoveStop
  BY <1>17, <1>t DEF MoveStop, vars, Take, Goto, Switch, End, EndPass, Done, Abort, Mark, Keep,
     Store, VenueOnly, NoFault, Fault, TypesMove, CtxType, States, Holding, Terminal
<1>18. CASE Recover
  <2>1. ctx' = ctx /\ miss' = miss /\ watch' = watch
    BY <1>18 DEF Recover
  <2>2. act' = act \/ \E s \in eng.left : act' = [act EXCEPT ![s] = "done"]
    BY <1>18 DEF Recover
  <2>3. act' \in [Signals -> {"new", "open", "done"}]
    BY <2>2, <1>t
  <2> QED BY <2>1, <2>3, <1>t DEF TypesMove
<1>19. CASE Dispatch
  BY <1>19, <1>t DEF Dispatch, vars, Take, Goto, Switch, End, EndPass, Done, Abort, Mark, Keep,
     Store, VenueOnly, NoFault, Fault, TypesMove, CtxType, States, Holding, Terminal
<1>20. CASE Booked
  BY <1>20, <1>t DEF Booked, vars, Take, Goto, Switch, End, EndPass, Done, Abort, Mark, Keep,
     Store, VenueOnly, NoFault, Fault, TypesMove, CtxType, States, Holding, Terminal
<1>21. CASE Route
  BY <1>21, <1>t DEF Route, vars, Take, Goto, Switch, End, EndPass, Done, Abort, Mark, Keep,
     Store, VenueOnly, NoFault, Fault, TypesMove, CtxType, States, Holding, Terminal
<1>22. CASE OpenRead
  <2>1. PICK q \in {ctx.q, Seen} : ctx' = ctx \/ ctx' = [ctx EXCEPT !.q = q]
    BY <1>22 DEF OpenRead
  <2>2. act' = act /\ miss' \in BOOLEAN /\ watch' = watch
    BY <1>22, <1>t DEF OpenRead, Keep
  <2>3. q \in 0..Size + 1
    BY <1>t, SeenFacts DEF CtxType
  <2> QED BY <2>1, <2>2, <2>3, <1>t DEF TypesMove, CtxType
<1>23. CASE Reconciled
  <2>1. act' = act /\ miss' = miss /\ watch' = watch /\ ctx' = [ctx EXCEPT !.q = eng.n]
    BY <1>23 DEF Reconciled, Keep
  <2> QED BY <2>1, <1>t, <1>n DEF TypesMove, CtxType
<1>24. CASE Gone
  <2>1. act' = act /\ miss' \in {miss, FALSE} /\ watch' \in {watch, 3} /\ ctx' \in {ctx, [ctx EXCEPT !.st = "CLOSED"]}
    BY <1>24 DEF Gone, Mark
  <2> QED BY <2>1, <1>t, <1>z DEF TypesMove, CtxType, States, Terminal
<1>25. CASE PendingRead
  BY <1>25, <1>t DEF PendingRead, vars, Take, Goto, Switch, End, EndPass, Done, Abort, Mark,
     Keep, Store, VenueOnly, NoFault, Fault, TypesMove, CtxType, States, Holding, Terminal
<1>26. CASE Recheck
  BY <1>26, <1>t DEF Recheck, vars, Take, Goto, Switch, End, EndPass, Done, Abort, Mark, Keep,
     Store, VenueOnly, NoFault, Fault, TypesMove, CtxType, States, Holding, Terminal
<1>27. CASE StartPass
  BY <1>27, <1>t DEF StartPass, vars, Take, Goto, Switch, End, EndPass, Done, Abort, Mark, Keep,
     Store, VenueOnly, NoFault, Fault, TypesMove, CtxType, States, Holding, Terminal
<1>28. CASE EntryFills
  BY <1>28, <1>t DEF EntryFills, vars, Take, Goto, Switch, End, EndPass, Done, Abort, Mark,
     Keep, Store, VenueOnly, NoFault, Fault, TypesMove, CtxType, States, Holding, Terminal
<1>29. CASE ExitExecutes
  BY <1>29, <1>t DEF ExitExecutes, vars, Take, Goto, Switch, End, EndPass, Done, Abort, Mark,
     Keep, Store, VenueOnly, NoFault, Fault, TypesMove, CtxType, States, Holding, Terminal
<1>30. CASE StopFires
  BY <1>30, <1>t DEF StopFires, vars, Take, Goto, Switch, End, EndPass, Done, Abort, Mark, Keep,
     Store, VenueOnly, NoFault, Fault, TypesMove, CtxType, States, Holding, Terminal
<1>31. CASE OthersTrade
  BY <1>31, <1>t DEF OthersTrade, vars, Take, Goto, Switch, End, EndPass, Done, Abort, Mark,
     Keep, Store, VenueOnly, NoFault, Fault, TypesMove, CtxType, States, Holding, Terminal
<1>32. CASE Crash
  <2>1. ctx' = ctx /\ act' = act /\ miss' = FALSE /\ watch' = 0
    BY <1>32 DEF Crash
  <2> QED BY <2>1, <1>t, <1>z DEF TypesMove
<1>33. ASSUME NEW s \in Exits, TakeExit(s) PROVE TypesMove
  BY <1>33, <1>t DEF TakeExit, vars, Take, Goto, Switch, End, EndPass, Done, Abort, Mark, Keep,
     Store, VenueOnly, NoFault, Fault, TypesMove, CtxType, States, Holding, Terminal
<1>34. ASSUME NEW s \in Cancels, TakeCancel(s) PROVE TypesMove
  BY <1>34, <1>t DEF TakeCancel, vars, Take, Goto, Switch, End, EndPass, Done, Abort, Mark,
     Keep, Store, VenueOnly, NoFault, Fault, TypesMove, CtxType, States, Holding, Terminal
<1>35. ASSUME NEW s \in Moves, TakeMove(s) PROVE TypesMove
  BY <1>35, <1>t DEF TakeMove, vars, Take, Goto, Switch, End, EndPass, Done, Abort, Mark, Keep,
     Store, VenueOnly, NoFault, Fault, TypesMove, CtxType, States, Holding, Terminal
<1>36. CASE UNCHANGED vars
  BY <1>36, <1>t DEF vars, Take, Goto, Switch, End, EndPass, Done, Abort, Mark, Keep, Store,
     VenueOnly, NoFault, Fault, TypesMove, CtxType, States, Holding, Terminal
<1> QED BY <1>1, <1>2, <1>3, <1>4, <1>5, <1>6, <1>7, <1>8, <1>9, <1>10, <1>11, <1>12, <1>13,
           <1>14, <1>15, <1>16, <1>17, <1>18, <1>19, <1>20, <1>21, <1>22, <1>23, <1>24, <1>25,
           <1>26, <1>27, <1>28, <1>29, <1>30, <1>31, <1>32, <1>33, <1>34, <1>35, <1>36 DEF Next,
           Engine, Venue

SendsMove ==
    /\ rows' \in [Exits -> RowStates] /\ sends' \in [Exits -> 0..1]
    /\ SendsFit'

LEMMA SameSends ==
    ASSUME IInv, rows' = rows, sends' = sends, eng'.pc # "send",
           eng'.op = "exit" /\ eng'.pc \in Cancelling \cup {"read"}
              => eng.op = "exit" /\ eng.pc \in Cancelling \cup {"read"} /\ eng'.sig = eng.sig
    PROVE  SendsMove
BY DEF IInv, Typed, SendsFit, SendsMove


LEMMA SendsStay == IInv /\ rows' = rows /\ sends' = sends /\ eng' = eng => SendsMove
BY DEF IInv, Typed, SendsFit, SendsMove

(* Where an operation that ends, or leaves its pass, is next.              *)
LEMMA Rests ==
    ASSUME eng \in EngType, End \/ EndPass \/ Abort \/ Done
    PROVE  eng'.op = "" /\ eng'.pc \in {"idle", "recover", "switch", "recheck"}
<1>1. CASE End
  BY <1>1 DEF End, EngType
<1>2. CASE EndPass
  BY <1>2 DEF EndPass, EngType
<1> QED BY <1>1, <1>2 DEF Abort, Done

(* A handler sends the exit of a signal only behind the row it has marked. *)
LEMMA SendStep == IInv /\ [Next]_vars => SendsMove
<1> SUFFICES ASSUME IInv, [Next]_vars PROVE SendsMove
  OBVIOUS
<1>t. eng \in EngType
  BY DEF IInv, Typed
<1>o. eng.op \in OpsAt(eng.pc)
  BY DEF IInv, EngFits
<1>r. SendsFit /\ rows \in [Exits -> RowStates] /\ sends \in [Exits -> 0..1]
  BY DEF IInv, Typed
<1>1. CASE Open
  <2>1. rows' = rows /\ sends' = sends
    BY <1>1 DEF Open, vars, VenueOnly, Keep, Store, Take
  <2>2. /\ eng'.pc # "send"
        /\ eng'.op = "exit" /\ eng'.pc \in Cancelling \cup {"read"}
             => eng.op = "exit" /\ eng.pc \in Cancelling \cup {"read"} /\ eng'.sig = eng.sig
    BY <1>1, <1>t, <1>o DEF Open, vars, Take, Goto, Switch, End, EndPass, Done, Abort, Mark,
       Keep, Store, VenueOnly, NoFault, Fault, EngType, OpsAt, Cancelling
  <2> QED BY <2>1, <2>2, SameSends
<1>2. CASE Announce
  <2>1. rows' = rows /\ sends' = sends
    BY <1>2 DEF Announce, vars, VenueOnly, Keep, Store, Take
  <2>2. /\ eng'.pc # "send"
        /\ eng'.op = "exit" /\ eng'.pc \in Cancelling \cup {"read"}
             => eng.op = "exit" /\ eng.pc \in Cancelling \cup {"read"} /\ eng'.sig = eng.sig
    BY <1>2, <1>t, <1>o DEF Announce, vars, Take, Goto, Switch, End, EndPass, Done, Abort, Mark,
       Keep, Store, VenueOnly, NoFault, Fault, EngType, OpsAt, Cancelling
  <2> QED BY <2>1, <2>2, SameSends
<1>3. CASE SubmitEntry
  <2>1. rows' = rows /\ sends' = sends
    BY <1>3 DEF SubmitEntry, vars, VenueOnly, Keep, Store, Take
  <2>2. /\ eng'.pc # "send"
        /\ eng'.op = "exit" /\ eng'.pc \in Cancelling \cup {"read"}
             => eng.op = "exit" /\ eng.pc \in Cancelling \cup {"read"} /\ eng'.sig = eng.sig
    BY <1>3, <1>t, <1>o DEF SubmitEntry, vars, Take, Goto, Switch, End, EndPass, Done, Abort,
       Mark, Keep, Store, VenueOnly, NoFault, Fault, EngType, OpsAt, Cancelling
  <2> QED BY <2>1, <2>2, SameSends
<1>4. CASE Accepted
  <2>1. rows' = rows /\ sends' = sends
    BY <1>4 DEF Accepted, vars, VenueOnly, Keep, Store, Take
  <2>2. /\ eng'.pc # "send"
        /\ eng'.op = "exit" /\ eng'.pc \in Cancelling \cup {"read"}
             => eng.op = "exit" /\ eng.pc \in Cancelling \cup {"read"} /\ eng'.sig = eng.sig
    BY <1>4, <1>t, <1>o DEF Accepted, vars, Take, Goto, Switch, End, EndPass, Done, Abort, Mark,
       Keep, Store, VenueOnly, NoFault, Fault, EngType, OpsAt, Cancelling
  <2> QED BY <2>1, <2>2, SameSends
<1>5. CASE Protect
  <2>1. rows' = rows /\ sends' = sends
    BY <1>5 DEF Protect, vars, VenueOnly, Keep, Store, Take
  <2>2. /\ eng'.pc # "send"
        /\ eng'.op = "exit" /\ eng'.pc \in Cancelling \cup {"read"}
             => eng.op = "exit" /\ eng.pc \in Cancelling \cup {"read"} /\ eng'.sig = eng.sig
    <3>1. CASE eng.pc = "protect" /\ AfterStop
      <4>1. Switch("intent", "exit") \/ End \/ EndPass \/ Done
        BY <3>1, <1>o, AfterStopCases
      <4>2. CASE Switch("intent", "exit")
        BY <4>2, <1>t DEF Switch, EngType, Cancelling
      <4> QED BY <4>1, <4>2, <1>t, Rests
    <3>2. CASE Goto("settled") /\ eng.pc = "settle-protect"
      BY <3>2, <1>t DEF Goto, EngType, Cancelling
    <3>3. CASE Goto(IF eng.pc = "protect" THEN "place" ELSE "settle-place")
      BY <1>5, <3>3, <1>t DEF Protect, Goto, EngType, Cancelling
    <3> QED BY <1>5, <3>1, <3>2, <3>3, <1>t, Rests DEF Protect, Cancelling
  <2> QED BY <2>1, <2>2, SameSends
<1>6. CASE PlaceStop
  <2>1. rows' = rows /\ sends' = sends
    BY <1>6 DEF PlaceStop, vars, VenueOnly, Keep, Store, Take
  <2>2. /\ eng'.pc # "send"
        /\ eng'.op = "exit" /\ eng'.pc \in Cancelling \cup {"read"}
             => eng.op = "exit" /\ eng.pc \in Cancelling \cup {"read"} /\ eng'.sig = eng.sig
    <3>1. CASE eng.pc = "place" /\ AfterStop
      <4>1. eng.op \in OpsAt("protect")
        BY <3>1, <1>o DEF OpsAt
      <4>2. Switch("intent", "exit") \/ End \/ EndPass \/ Done
        BY <3>1, <4>1, AfterStopCases
      <4>3. CASE Switch("intent", "exit")
        BY <4>3, <1>t DEF Switch, EngType, Cancelling
      <4> QED BY <4>2, <4>3, <1>t, Rests
    <3>2. CASE Goto("settled") /\ eng.pc = "settle-place"
      BY <3>2, <1>t DEF Goto, EngType, Cancelling
    <3>3. CASE Goto("emergency")
      BY <1>6, <3>3, <1>t DEF Goto, EngType, Cancelling
    <3> QED BY <1>6, <3>1, <3>2, <3>3, <1>t, Rests DEF PlaceStop, Cancelling
  <2> QED BY <2>1, <2>2, SameSends
<1>7. CASE Emergency
  <2>1. rows' = rows /\ sends' = sends
    BY <1>7 DEF Emergency, vars, VenueOnly, Keep, Store, Take
  <2>2. /\ eng'.pc # "send"
        /\ eng'.op = "exit" /\ eng'.pc \in Cancelling \cup {"read"}
             => eng.op = "exit" /\ eng.pc \in Cancelling \cup {"read"} /\ eng'.sig = eng.sig
    BY <1>7, <1>t, <1>o DEF Emergency, vars, Take, Goto, Switch, End, EndPass, Done, Abort,
       Mark, Keep, Store, VenueOnly, NoFault, Fault, EngType, OpsAt, Cancelling
  <2> QED BY <2>1, <2>2, SameSends
<1>8. CASE Latch
  <2>1. rows' = rows /\ sends' = sends
    BY <1>8 DEF Latch, vars, VenueOnly, Keep, Store, Take
  <2>2. /\ eng'.pc # "send"
        /\ eng'.op = "exit" /\ eng'.pc \in Cancelling \cup {"read"}
             => eng.op = "exit" /\ eng.pc \in Cancelling \cup {"read"} /\ eng'.sig = eng.sig
    BY <1>8, <1>t, <1>o DEF Latch, vars, Take, Goto, Switch, End, EndPass, Done, Abort, Mark,
       Keep, Store, VenueOnly, NoFault, Fault, EngType, OpsAt, Cancelling
  <2> QED BY <2>1, <2>2, SameSends
<1>9. CASE EntryStatus
  <2>1. rows' = rows /\ sends' = sends
    BY <1>9 DEF EntryStatus, vars, VenueOnly, Keep, Store, Take
  <2>2. /\ eng'.pc # "send"
        /\ eng'.op = "exit" /\ eng'.pc \in Cancelling \cup {"read"}
             => eng.op = "exit" /\ eng.pc \in Cancelling \cup {"read"} /\ eng'.sig = eng.sig
    <3>1. CASE \/ Goto("settled") \/ Goto("settle-protect") \/ Goto("cancel")
      BY <1>9, <3>1, <1>t DEF EntryStatus, Goto, EngType, Cancelling
    <3> QED BY <1>9, <3>1, <1>t, Rests DEF EntryStatus, SettleEntry
  <2> QED BY <2>1, <2>2, SameSends
<1>10. CASE CancelEntry
  <2>1. rows' = rows /\ sends' = sends
    BY <1>10 DEF CancelEntry, vars, VenueOnly, Keep, Store, Take
  <2>2. /\ eng'.pc # "send"
        /\ eng'.op = "exit" /\ eng'.pc \in Cancelling \cup {"read"}
             => eng.op = "exit" /\ eng.pc \in Cancelling \cup {"read"} /\ eng'.sig = eng.sig
    BY <1>10, <1>t, <1>o DEF CancelEntry, vars, Take, Goto, Switch, End, EndPass, Done, Abort,
       Mark, Keep, Store, VenueOnly, NoFault, Fault, EngType, OpsAt, Cancelling
  <2> QED BY <2>1, <2>2, SameSends
<1>11. CASE EntrySettled
  <2>1. rows' = rows /\ sends' = sends
    BY <1>11 DEF EntrySettled, vars, VenueOnly, Keep, Store, Take
  <2>2. /\ eng'.pc # "send"
        /\ eng'.op = "exit" /\ eng'.pc \in Cancelling \cup {"read"}
             => eng.op = "exit" /\ eng.pc \in Cancelling \cup {"read"} /\ eng'.sig = eng.sig
    <3>1. eng.pc = "settled" /\ eng.op \in OpsAt("settled")
      BY <1>11, <1>o DEF EntrySettled
    <3>2. \/ eng.op = "exit" /\ Goto("read")
          \/ eng.op # "exit" /\ \E pc \in {"moveread", "regone", "reconciled", "booked", "protect"} : Goto(pc)
          \/ EndPass \/ Done
      BY <1>11, <3>1, AfterEntryCases DEF EntrySettled
    <3>3. CASE eng.op = "exit" /\ Goto("read")
      BY <3>1, <3>3, <1>t DEF Goto, EngType, Cancelling
    <3>4. CASE eng.op # "exit" /\ \E pc \in {"moveread", "regone", "reconciled", "booked", "protect"} : Goto(pc)
      BY <3>4, <1>t DEF Goto, EngType
    <3> QED BY <3>2, <3>3, <3>4, <1>t, Rests
  <2> QED BY <2>1, <2>2, SameSends
<1>12. CASE Intent
  <2>0. eng.op = "exit" /\ eng.sig \in Exits
    BY <1>12, <1>o DEF Intent, OpsAt, IInv, EngFits
  <2>1. CASE Goto("latch") /\ rows[eng.sig] \in {"none", "INTENT"} /\ rows' = [rows EXCEPT ![eng.sig] = "INTENT"]
    <3>1. eng'.pc = "latch" /\ eng'.op = "exit" /\ eng'.sig = eng.sig
      BY <2>0, <2>1, <1>t DEF Goto, EngType
    <3>2. sends' = sends
      BY <1>12 DEF Intent
    <3> QED BY <2>0, <2>1, <3>1, <3>2, <1>r DEF SendsMove, SendsFit, RowStates
  <2>2. CASE rows' = rows /\ (Done \/ Abort)
    <3>1. sends' = sends
      BY <1>12 DEF Intent
    <3> QED BY <2>2, <3>1, <1>t, Rests, SameSends DEF Cancelling
  <2> QED BY <1>12, <2>1, <2>2 DEF Intent
<1>13. CASE ReadPosition
  <2>0. eng.op = "exit" /\ eng.sig \in Exits /\ rows[eng.sig] = "INTENT" /\ sends' = sends
        /\ sends[eng.sig] = 0
    BY <1>13, <1>o, <1>r DEF ReadPosition, OpsAt, IInv, EngFits, SendsFit
  <2>1. CASE rows' = [rows EXCEPT ![eng.sig] = "SENDING"] /\ eng' = [eng EXCEPT !.pc = "send", !.n = Seen]
    <3>1. eng'.pc = "send" /\ eng'.op = "exit" /\ eng'.sig = eng.sig
      BY <2>0, <2>1, <1>t DEF EngType
    <3> QED BY <2>0, <2>1, <3>1, <1>r DEF SendsMove, SendsFit, RowStates, Cancelling
  <2>2. CASE Done /\ rows' = [rows EXCEPT ![eng.sig] = "NOT_NEEDED"]
    <3>1. eng'.op = "" /\ eng'.pc # "send"
      BY <2>2, <1>t, Rests
    <3> QED BY <2>0, <2>2, <3>1, <1>r DEF SendsMove, SendsFit, RowStates
  <2>3. CASE Abort /\ rows' = rows
    BY <2>0, <2>3, <1>t, Rests, SameSends
  <2> QED BY <1>13, <2>1, <2>2, <2>3 DEF ReadPosition
<1>14. CASE SendExit
  <2>0. eng.op = "exit" /\ eng.sig \in Exits /\ rows[eng.sig] = "SENDING" /\ sends[eng.sig] = 0
    BY <1>14, <1>o, <1>r DEF SendExit, OpsAt, IInv, EngFits, SendsFit
  <2>1. sends' = [sends EXCEPT ![eng.sig] = 1]
    BY <1>14, <2>0 DEF SendExit, Min2
  <2>2. rows' = rows \/ rows' = [rows EXCEPT ![eng.sig] = "SEND_FAILED"]
    BY <1>14 DEF SendExit
  <2>3. eng'.pc = "sent" \/ (eng'.op = "" /\ eng'.pc # "send")
    <3>1. CASE Goto("sent")
      BY <3>1, <1>t DEF Goto, EngType
    <3> QED BY <1>14, <3>1, <1>t, Rests DEF SendExit
  <2>4. /\ rows' \in [Exits -> RowStates] /\ sends' \in [Exits -> 0..1]
        /\ \A s \in Exits : rows'[s] \in {"none", "INTENT"} => sends'[s] = 0
    <3>1. 1 \in 0..1
      OBVIOUS
    <3>2. rows' \in [Exits -> RowStates] /\ rows'[eng.sig] \in {"SENDING", "SEND_FAILED"}
          /\ \A s \in Exits \ {eng.sig} : rows'[s] = rows[s]
      BY <2>0, <2>2, <1>r DEF RowStates
    <3>3. sends' \in [Exits -> 0..1] /\ \A s \in Exits \ {eng.sig} : sends'[s] = sends[s]
      BY <2>0, <2>1, <3>1, <1>r
    <3> QED BY <2>0, <3>2, <3>3, <1>r DEF SendsFit
  <2> QED BY <2>3, <2>4 DEF SendsMove, SendsFit, Cancelling
<1>15. CASE ExitSent
  <2>0. eng.op = "exit" /\ eng.sig \in Exits /\ sends' = sends /\ rows' = [rows EXCEPT ![eng.sig] = "SENT"]
    BY <1>15, <1>o DEF ExitSent, OpsAt, IInv, EngFits
  <2>1. eng'.pc \in {"reread", "protect"}
    BY <1>15, <1>t DEF ExitSent, Goto, EngType
  <2> QED BY <2>0, <2>1, <1>r DEF SendsMove, SendsFit, RowStates, Cancelling
<1>16. CASE ReReadPosition
  <2>1. rows' = rows /\ sends' = sends
    BY <1>16 DEF ReReadPosition, vars, VenueOnly, Keep, Store, Take
  <2>2. /\ eng'.pc # "send"
        /\ eng'.op = "exit" /\ eng'.pc \in Cancelling \cup {"read"}
             => eng.op = "exit" /\ eng.pc \in Cancelling \cup {"read"} /\ eng'.sig = eng.sig
    BY <1>16, <1>t, <1>o DEF ReReadPosition, vars, Take, Goto, Switch, End, EndPass, Done,
       Abort, Mark, Keep, Store, VenueOnly, NoFault, Fault, EngType, OpsAt, Cancelling
  <2> QED BY <2>1, <2>2, SameSends
<1>17. CASE MoveStop
  <2>1. rows' = rows /\ sends' = sends
    BY <1>17 DEF MoveStop, vars, VenueOnly, Keep, Store, Take
  <2>2. /\ eng'.pc # "send"
        /\ eng'.op = "exit" /\ eng'.pc \in Cancelling \cup {"read"}
             => eng.op = "exit" /\ eng.pc \in Cancelling \cup {"read"} /\ eng'.sig = eng.sig
    BY <1>17, <1>t, <1>o DEF MoveStop, vars, Take, Goto, Switch, End, EndPass, Done, Abort,
       Mark, Keep, Store, VenueOnly, NoFault, Fault, EngType, OpsAt, Cancelling
  <2> QED BY <2>1, <2>2, SameSends
<1>18. CASE Recover
  <2>1. rows' = rows /\ sends' = sends
    BY <1>18 DEF Recover, vars, VenueOnly, Keep, Store, Take
  <2>2. /\ eng'.pc # "send"
        /\ eng'.op = "exit" /\ eng'.pc \in Cancelling \cup {"read"}
             => eng.op = "exit" /\ eng.pc \in Cancelling \cup {"read"} /\ eng'.sig = eng.sig
    <3>1. \/ eng'.pc # "recover" /\ eng'.pc \in {"intent", "recheck", "pass"}
          \/ eng'.op # "exit" /\ eng'.pc # "send"
      BY <1>18, <1>t, <1>o DEF Recover, Goto, EngType, OpsAt
    <3> QED BY <3>1 DEF Cancelling
  <2> QED BY <2>1, <2>2, SameSends
<1>19. CASE Dispatch
  <2>1. rows' = rows /\ sends' = sends
    BY <1>19 DEF Dispatch, vars, VenueOnly, Keep, Store, Take
  <2>2. /\ eng'.pc # "send"
        /\ eng'.op = "exit" /\ eng'.pc \in Cancelling \cup {"read"}
             => eng.op = "exit" /\ eng.pc \in Cancelling \cup {"read"} /\ eng'.sig = eng.sig
    BY <1>19, <1>t, <1>o DEF Dispatch, vars, Take, Goto, Switch, End, EndPass, Done, Abort,
       Mark, Keep, Store, VenueOnly, NoFault, Fault, EngType, OpsAt, Cancelling
  <2> QED BY <2>1, <2>2, SameSends
<1>20. CASE Booked
  <2>1. rows' = rows /\ sends' = sends
    BY <1>20 DEF Booked, vars, VenueOnly, Keep, Store, Take
  <2>2. /\ eng'.pc # "send"
        /\ eng'.op = "exit" /\ eng'.pc \in Cancelling \cup {"read"}
             => eng.op = "exit" /\ eng.pc \in Cancelling \cup {"read"} /\ eng'.sig = eng.sig
    BY <1>20, <1>t, <1>o DEF Booked, vars, Take, Goto, Switch, End, EndPass, Done, Abort, Mark,
       Keep, Store, VenueOnly, NoFault, Fault, EngType, OpsAt, Cancelling
  <2> QED BY <2>1, <2>2, SameSends
<1>21. CASE Route
  <2>1. rows' = rows /\ sends' = sends
    BY <1>21 DEF Route, vars, VenueOnly, Keep, Store, Take
  <2>2. /\ eng'.pc # "send"
        /\ eng'.op = "exit" /\ eng'.pc \in Cancelling \cup {"read"}
             => eng.op = "exit" /\ eng.pc \in Cancelling \cup {"read"} /\ eng'.sig = eng.sig
    BY <1>21, <1>t, <1>o DEF Route, vars, Take, Goto, Switch, End, EndPass, Done, Abort, Mark,
       Keep, Store, VenueOnly, NoFault, Fault, EngType, OpsAt, Cancelling
  <2> QED BY <2>1, <2>2, SameSends
<1>22. CASE OpenRead
  <2>1. rows' = rows /\ sends' = sends
    BY <1>22 DEF OpenRead, vars, VenueOnly, Keep, Store, Take
  <2>2. /\ eng'.pc # "send"
        /\ eng'.op = "exit" /\ eng'.pc \in Cancelling \cup {"read"}
             => eng.op = "exit" /\ eng.pc \in Cancelling \cup {"read"} /\ eng'.sig = eng.sig
    BY <1>22, <1>t, <1>o DEF OpenRead, vars, Take, Goto, Switch, End, EndPass, Done, Abort,
       Mark, Keep, Store, VenueOnly, NoFault, Fault, EngType, OpsAt, Cancelling
  <2> QED BY <2>1, <2>2, SameSends
<1>23. CASE Reconciled
  <2>1. rows' = rows /\ sends' = sends
    BY <1>23 DEF Reconciled, vars, VenueOnly, Keep, Store, Take
  <2>2. /\ eng'.pc # "send"
        /\ eng'.op = "exit" /\ eng'.pc \in Cancelling \cup {"read"}
             => eng.op = "exit" /\ eng.pc \in Cancelling \cup {"read"} /\ eng'.sig = eng.sig
    BY <1>23, <1>t, <1>o DEF Reconciled, vars, Take, Goto, Switch, End, EndPass, Done, Abort,
       Mark, Keep, Store, VenueOnly, NoFault, Fault, EngType, OpsAt, Cancelling
  <2> QED BY <2>1, <2>2, SameSends
<1>24. CASE Gone
  <2>1. rows' = rows /\ sends' = sends
    BY <1>24 DEF Gone, vars, VenueOnly, Keep, Store, Take
  <2>2. /\ eng'.pc # "send"
        /\ eng'.op = "exit" /\ eng'.pc \in Cancelling \cup {"read"}
             => eng.op = "exit" /\ eng.pc \in Cancelling \cup {"read"} /\ eng'.sig = eng.sig
    BY <1>24, <1>t, <1>o DEF Gone, vars, Take, Goto, Switch, End, EndPass, Done, Abort, Mark,
       Keep, Store, VenueOnly, NoFault, Fault, EngType, OpsAt, Cancelling
  <2> QED BY <2>1, <2>2, SameSends
<1>25. CASE PendingRead
  <2>1. rows' = rows /\ sends' = sends
    BY <1>25 DEF PendingRead, vars, VenueOnly, Keep, Store, Take
  <2>2. /\ eng'.pc # "send"
        /\ eng'.op = "exit" /\ eng'.pc \in Cancelling \cup {"read"}
             => eng.op = "exit" /\ eng.pc \in Cancelling \cup {"read"} /\ eng'.sig = eng.sig
    BY <1>25, <1>t, <1>o DEF PendingRead, vars, Take, Goto, Switch, End, EndPass, Done, Abort,
       Mark, Keep, Store, VenueOnly, NoFault, Fault, EngType, OpsAt, Cancelling
  <2> QED BY <2>1, <2>2, SameSends
<1>26. CASE Recheck
  <2>1. rows' = rows /\ sends' = sends
    BY <1>26 DEF Recheck, vars, VenueOnly, Keep, Store, Take
  <2>2. /\ eng'.pc # "send"
        /\ eng'.op = "exit" /\ eng'.pc \in Cancelling \cup {"read"}
             => eng.op = "exit" /\ eng.pc \in Cancelling \cup {"read"} /\ eng'.sig = eng.sig
    BY <1>26, <1>t, <1>o DEF Recheck, vars, Take, Goto, Switch, End, EndPass, Done, Abort, Mark,
       Keep, Store, VenueOnly, NoFault, Fault, EngType, OpsAt, Cancelling
  <2> QED BY <2>1, <2>2, SameSends
<1>27. CASE StartPass
  <2>1. rows' = rows /\ sends' = sends
    BY <1>27 DEF StartPass, vars, VenueOnly, Keep, Store, Take
  <2>2. /\ eng'.pc # "send"
        /\ eng'.op = "exit" /\ eng'.pc \in Cancelling \cup {"read"}
             => eng.op = "exit" /\ eng.pc \in Cancelling \cup {"read"} /\ eng'.sig = eng.sig
    BY <1>27, <1>t, <1>o DEF StartPass, vars, Take, Goto, Switch, End, EndPass, Done, Abort,
       Mark, Keep, Store, VenueOnly, NoFault, Fault, EngType, OpsAt, Cancelling
  <2> QED BY <2>1, <2>2, SameSends
<1>28. CASE EntryFills
  <2>1. rows' = rows /\ sends' = sends /\ eng' = eng
    BY <1>28 DEF EntryFills, VenueOnly
  <2> QED BY <2>1, SendsStay
<1>29. CASE ExitExecutes
  <2>1. rows' = rows /\ sends' = sends /\ eng' = eng
    BY <1>29 DEF ExitExecutes, VenueOnly
  <2> QED BY <2>1, SendsStay
<1>30. CASE StopFires
  <2>1. rows' = rows /\ sends' = sends /\ eng' = eng
    BY <1>30 DEF StopFires, VenueOnly
  <2> QED BY <2>1, SendsStay
<1>31. CASE OthersTrade
  <2>1. rows' = rows /\ sends' = sends /\ eng' = eng
    BY <1>31 DEF OthersTrade, VenueOnly
  <2> QED BY <2>1, SendsStay
<1>32. CASE Crash
  <2>1. rows' = rows /\ sends' = sends
    BY <1>32 DEF Crash, vars, VenueOnly, Keep, Store, Take
  <2>2. /\ eng'.pc # "send"
        /\ eng'.op = "exit" /\ eng'.pc \in Cancelling \cup {"read"}
             => eng.op = "exit" /\ eng.pc \in Cancelling \cup {"read"} /\ eng'.sig = eng.sig
    BY <1>32, <1>t, <1>o DEF Crash, vars, Take, Goto, Switch, End, EndPass, Done, Abort, Mark,
       Keep, Store, VenueOnly, NoFault, Fault, EngType, OpsAt, Cancelling
  <2> QED BY <2>1, <2>2, SameSends
<1>33. ASSUME NEW s \in Exits, TakeExit(s) PROVE SendsMove
  <2>1. rows' = rows /\ sends' = sends
    BY <1>33 DEF TakeExit, vars, VenueOnly, Keep, Store, Take
  <2>2. /\ eng'.pc # "send"
        /\ eng'.op = "exit" /\ eng'.pc \in Cancelling \cup {"read"}
             => eng.op = "exit" /\ eng.pc \in Cancelling \cup {"read"} /\ eng'.sig = eng.sig
    BY <1>33, <1>t, <1>o DEF TakeExit, vars, Take, Goto, Switch, End, EndPass, Done, Abort,
       Mark, Keep, Store, VenueOnly, NoFault, Fault, EngType, OpsAt, Cancelling
  <2> QED BY <2>1, <2>2, SameSends
<1>34. ASSUME NEW s \in Cancels, TakeCancel(s) PROVE SendsMove
  <2>1. rows' = rows /\ sends' = sends
    BY <1>34 DEF TakeCancel, vars, VenueOnly, Keep, Store, Take
  <2>2. /\ eng'.pc # "send"
        /\ eng'.op = "exit" /\ eng'.pc \in Cancelling \cup {"read"}
             => eng.op = "exit" /\ eng.pc \in Cancelling \cup {"read"} /\ eng'.sig = eng.sig
    BY <1>34, <1>t, <1>o DEF TakeCancel, vars, Take, Goto, Switch, End, EndPass, Done, Abort,
       Mark, Keep, Store, VenueOnly, NoFault, Fault, EngType, OpsAt, Cancelling
  <2> QED BY <2>1, <2>2, SameSends
<1>35. ASSUME NEW s \in Moves, TakeMove(s) PROVE SendsMove
  <2>1. rows' = rows /\ sends' = sends
    BY <1>35 DEF TakeMove, vars, VenueOnly, Keep, Store, Take
  <2>2. /\ eng'.pc # "send"
        /\ eng'.op = "exit" /\ eng'.pc \in Cancelling \cup {"read"}
             => eng.op = "exit" /\ eng.pc \in Cancelling \cup {"read"} /\ eng'.sig = eng.sig
    BY <1>35, <1>t, <1>o DEF TakeMove, vars, Take, Goto, Switch, End, EndPass, Done, Abort,
       Mark, Keep, Store, VenueOnly, NoFault, Fault, EngType, OpsAt, Cancelling
  <2> QED BY <2>1, <2>2, SameSends
<1>36. CASE UNCHANGED vars
  <2>1. rows' = rows /\ sends' = sends /\ eng' = eng
    BY <1>36 DEF vars
  <2> QED BY <2>1, SendsStay
<1> QED BY <1>1, <1>2, <1>3, <1>4, <1>5, <1>6, <1>7, <1>8, <1>9, <1>10, <1>11, <1>12, <1>13,
           <1>14, <1>15, <1>16, <1>17, <1>18, <1>19, <1>20, <1>21, <1>22, <1>23, <1>24, <1>25,
           <1>26, <1>27, <1>28, <1>29, <1>30, <1>31, <1>32, <1>33, <1>34, <1>35, <1>36 DEF Next,
           Engine, Venue

(* A step of an operation that acts on an entry which stands.              *)
LEMMA LateStep ==
    ASSUME IInv, MktMove, ctx.st \notin Early, ctx'.st \notin Early,
           ctx'.submitting = ctx.submitting, eng.pc # "submit",
           eng'.pc \notin {"announce", "submit", "accepted"},
           ctx'.st = "ENTRY_PENDING" => ~ ctx'.opened
    PROVE  EarlyFits'
<1>1. /\ mkt.ent # "flying" /\ (~ ctx.submitting => mkt.ent = "none")
      /\ mkt.ent \in {"none", "flying", "working", "over"}
  BY DEF IInv, EarlyFits, Early, Typed, MktType
<1>2. mkt'.ent # "flying" /\ (mkt.ent = "none" => mkt'.ent = "none")
  BY <1>1 DEF MktMove
<1>3. /\ mkt'.pos <= mkt'.fill /\ (mkt'.ent \in {"none", "flying"} => mkt'.fill = 0)
      /\ mkt'.ent = "working" => mkt'.fill < Size
  BY DEF MktMove
<1> QED BY <1>1, <1>2, <1>3 DEF EarlyFits, Early

(* A step that leaves the context and the engine alone.                    *)
LEMMA EarlyStays ==
    ASSUME IInv, MktMove, ctx' = ctx, act' = act, eng' = eng, eng.pc = "submit" => mkt'.ent = mkt.ent
    PROVE  EarlyFits'
<1>1. mkt.ent \in {"none", "flying", "working", "over"}
  BY DEF IInv, Typed, MktType
<1>2. /\ mkt.ent = "none" => mkt'.ent = "none"
      /\ mkt'.ent = "flying" => mkt.ent = "flying"
      /\ mkt.ent \in {"flying", "over"} => mkt'.ent \in {"flying", "over"}
      /\ mkt.ent \in {"working", "over"} => mkt'.ent \in {"working", "over"}
  BY <1>1 DEF MktMove
<1>3. /\ mkt'.pos <= mkt'.fill /\ (mkt'.ent \in {"none", "flying"} => mkt'.fill = 0)
      /\ mkt'.ent = "working" => mkt'.fill < Size
  BY DEF MktMove
<1> QED BY <1>1, <1>2, <1>3 DEF IInv, EarlyFits


(* A step of the venue or of others that leaves the entry order alone.     *)
LEMMA SameEntry ==
    IInv /\ (ExitExecutes \/ StopFires \/ OthersTrade) => mkt'.ent = mkt.ent
<1> SUFFICES ASSUME IInv, ExitExecutes \/ StopFires \/ OthersTrade PROVE mkt'.ent = mkt.ent
  OBVIOUS
<1>t. mkt \in MktType /\ 0 \in 0..Size /\ 0 \in 0..1 /\ 0 \in 0..2 /\ Size \in Nat
  BY LegacyFacts DEF IInv, Typed
<1>1. ASSUME NEW s \in Exits, mkt' = Sold([mkt EXCEPT !.fly[s] = 0], mkt.fly[s]) PROVE mkt'.ent = mkt.ent
  <2> DEFINE m == [mkt EXCEPT !.fly[s] = 0]
  <2>1. m \in MktType /\ m.ent = mkt.ent /\ mkt.fly[s] \in Nat
    BY <1>t DEF MktType
  <2>2. mkt' = Sold(m, mkt.fly[s])
    BY <1>1
  <2> HIDE DEF m
  <2> QED BY <2>1, <2>2, <1>t, SoldFacts
<1>2. ASSUME NEW m \in MktType, m.ent = mkt.ent, mkt' = Settled(m) PROVE mkt'.ent = mkt.ent
  BY <1>2, <1>t, SettledFacts
<1>3. CASE mkt' = Settled([mkt EXCEPT !.pos = 0, !.alien = 0, !.all = FALSE])
  <2> DEFINE m == [mkt EXCEPT !.pos = 0, !.alien = 0, !.all = FALSE]
  <2>1. m \in MktType /\ m.ent = mkt.ent
    BY <1>t DEF MktType
  <2> QED BY <1>2, <1>3, <2>1
<1>4. CASE mkt' = Settled([mkt EXCEPT !.pos = 0, !.stop = 0])
  <2> DEFINE m == [mkt EXCEPT !.pos = 0, !.stop = 0]
  <2>1. m \in MktType /\ m.ent = mkt.ent
    BY <1>t DEF MktType
  <2> QED BY <1>2, <1>4, <2>1
<1>5. CASE mkt.pos > 0 /\ mkt' = Settled([mkt EXCEPT !.pos = @ - 1])
  <2> DEFINE m == [mkt EXCEPT !.pos = @ - 1]
  <2>1. m \in MktType /\ m.ent = mkt.ent
    BY <1>t, <1>5 DEF MktType
  <2> QED BY <1>2, <1>5, <2>1
<1>6. CASE mkt' = [mkt EXCEPT !.alien = 1]
  BY <1>6, <1>t DEF MktType
<1> QED BY <1>1, <1>3, <1>4, <1>5, <1>6 DEF ExitExecutes, StopFires, OthersTrade

(* Nothing acts on an entry before the context says that it stands. *)
LEMMA EarlyStep == IInv /\ [Next]_vars => EarlyFits'
<1> SUFFICES ASSUME IInv, [Next]_vars PROVE EarlyFits'
  OBVIOUS
<1>t. eng \in EngType /\ ctx \in CtxType
  BY DEF IInv, Typed
<1>o. eng.op \in OpsAt(eng.pc)
  BY DEF IInv, EngFits
<1>f. EarlyFits
  BY DEF IInv
<1>m. MktMove
  BY MktStep
<1>1. CASE Open
  <2>1. /\ eng'.pc = "announce" /\ eng'.op \in {"market", "limit"} /\ eng'.left = eng.left
        /\ act' = act /\ mkt' = mkt
    BY <1>1, <1>t DEF Open, Switch, EngType
  <2>2. ctx'.st = "NEW" /\ ctx'.submitting = ctx.submitting /\ ctx'.opened = ctx.opened /\ ctx'.working = ctx.working
    BY <1>1, <1>t DEF Open, Mark, CtxType
  <2>3. ctx.st = "NONE"
    BY <1>1 DEF Open
  <2> QED BY <2>1, <2>2, <2>3, <1>f DEF EarlyFits, Early
<1>2. CASE Announce
  <2>1. /\ eng.pc = "announce" /\ eng'.pc = "submit" /\ eng'.op = eng.op /\ eng'.left = eng.left
        /\ act' = act /\ mkt' = mkt
    BY <1>2, <1>t DEF Announce, Goto, EngType
  <2>2. ctx'.st = ctx.st /\ ctx'.submitting /\ ctx'.opened = ctx.opened /\ ctx'.working = ctx.working
    BY <1>2, <1>t DEF Announce, CtxType
  <2> QED BY <2>1, <2>2, <1>f DEF EarlyFits, Early
<1>3. CASE SubmitEntry
  <2>0. eng.pc = "submit" /\ eng.op \in {"market", "limit"} /\ ctx' = ctx /\ act' = act
    BY <1>3, <1>o DEF SubmitEntry, OpsAt
  <2>1. /\ ctx.st = "NEW" /\ mkt.ent = "none" /\ ctx.submitting /\ ~ ctx.opened
        /\ eng.left = {}
    BY <2>0, <1>f DEF EarlyFits, Early
  <2> DEFINE e == IF eng.op = "market" THEN "flying" ELSE "working"
  <2>2. \/ mkt' = [mkt EXCEPT !.ent = e] /\ Goto("accepted")
        \/ mkt' \in {mkt, [mkt EXCEPT !.ent = e]} /\ End
    BY <1>3 DEF SubmitEntry
  <2>3. /\ eng'.left = {}
        /\ \/ eng'.pc = "accepted" /\ eng'.op = eng.op /\ mkt' = [mkt EXCEPT !.ent = e]
           \/ eng'.pc \in {"idle", "recover"} /\ eng'.op = ""
    <3>1. CASE Goto("accepted") /\ mkt' = [mkt EXCEPT !.ent = e]
      BY <3>1, <2>1, <1>t DEF Goto, EngType
    <3>2. CASE End
      BY <3>2, <2>1, <1>t DEF End, EngType
    <3> QED BY <2>2, <3>1, <3>2
  <2>4. mkt' = [mkt EXCEPT !.ent = e] => mkt'.ent = e
    BY <1>t DEF MktType
  <2>5. /\ eng'.pc \notin {"announce", "submit", "protect", "place", "emergency"}
        /\ eng'.op \in {"", "market", "limit"}
        /\ eng'.pc = "accepted" => mkt'.ent \in IF eng'.op = "market" THEN {"flying", "over"} ELSE {"working", "over"}
    BY <2>0, <2>3, <2>4
  <2>6. \A s \in Signals : act[s] = "new"
    BY <2>1, <1>f DEF EarlyFits, Early
  <2>7. ~ ctx.working
    BY <2>1, <1>f DEF EarlyFits, Early
  <2> HIDE DEF e
  <2> QED BY <2>0, <2>1, <2>3, <2>5, <2>6, <2>7, <1>m DEF MktMove, EarlyFits, Early
<1>4. CASE Accepted
  <2>1. eng.pc = "accepted" /\ ctx.st = "NEW" /\ act' = act /\ mkt' = mkt /\ mkt.ent \in {"working", "over"}
    BY <1>4, <1>f DEF Accepted, EarlyFits
  <2>2. CASE ctx' = [ctx EXCEPT !.st = "OPEN", !.q = Size, !.opened = TRUE] /\ Goto("protect")
    <3>1. ctx'.st = "OPEN" /\ ctx'.submitting = ctx.submitting
      BY <2>2, <1>t DEF CtxType
    <3>2. eng'.pc = "protect"
      BY <2>2, <1>t DEF Goto, EngType
    <3> QED BY <2>1, <3>1, <3>2, <1>f DEF EarlyFits, Early
  <2>3. CASE ctx' = [ctx EXCEPT !.st = "ENTRY_PENDING", !.working = TRUE] /\ End
    <3>1. ctx'.st = "ENTRY_PENDING" /\ ctx'.submitting = ctx.submitting /\ ctx'.opened = ctx.opened
      BY <2>3, <1>t DEF CtxType
    <3>2. eng'.pc \in {"idle", "recover"}
      BY <2>3, <1>t DEF End, EngType
    <3> QED BY <2>1, <3>1, <3>2, <1>f DEF EarlyFits, Early
  <2> QED BY <1>4, <2>2, <2>3 DEF Accepted
<1>5. CASE Protect
  <2>1. ctx.st \notin Early /\ eng.pc # "submit"
    BY <1>5, <1>o, <1>f DEF Protect, Take, Early, EarlyFits, OpsAt, SignalOps, PassOps, Holding
  <2>2. /\ ctx'.st \notin Early /\ ctx'.submitting = ctx.submitting
        /\ ctx'.st = "ENTRY_PENDING" => ~ ctx'.opened
    BY <1>5, <2>1, <1>t, <1>f DEF Protect, Take, Mark, Early, EarlyFits, CtxType
  <2>3. eng'.pc \notin {"announce", "submit", "accepted"}
    <3>1. CASE eng.pc = "protect" /\ AfterStop
      <4>1. Switch("intent", "exit") \/ End \/ EndPass \/ Done
        BY <3>1, <1>o, AfterStopCases
      <4>2. CASE Switch("intent", "exit")
        BY <4>2, <1>t DEF Switch, EngType
      <4> QED BY <4>1, <4>2, <1>t, Rests
    <3>2. CASE \E pc \in {"settled", "place", "settle-place"} : Goto(pc)
      BY <3>2, <1>t DEF Goto, EngType
    <3> QED BY <1>5, <3>1, <3>2, <1>t, Rests DEF Protect
  <2> QED BY <2>1, <2>2, <2>3, <1>m, LateStep
<1>6. CASE PlaceStop
  <2>1. ctx.st \notin Early /\ eng.pc # "submit"
    BY <1>6, <1>o, <1>f DEF PlaceStop, Take, Early, EarlyFits, OpsAt, SignalOps, PassOps,
       Holding
  <2>2. /\ ctx'.st \notin Early /\ ctx'.submitting = ctx.submitting
        /\ ctx'.st = "ENTRY_PENDING" => ~ ctx'.opened
    BY <1>6, <2>1, <1>t, <1>f DEF PlaceStop, Take, Mark, Early, EarlyFits, CtxType
  <2>p. OpsAt("place") = OpsAt("protect")
    BY DEF OpsAt
  <2>3. eng'.pc \notin {"announce", "submit", "accepted"}
    <3>1. CASE eng.pc = "place" /\ AfterStop
      <4>1. Switch("intent", "exit") \/ End \/ EndPass \/ Done
        BY <3>1, <1>o, <2>p, AfterStopCases
      <4>2. CASE Switch("intent", "exit")
        BY <4>2, <1>t DEF Switch, EngType
      <4> QED BY <4>1, <4>2, <1>t, Rests
    <3>2. CASE \E pc \in {"settled", "emergency"} : Goto(pc)
      BY <3>2, <1>t DEF Goto, EngType
    <3> QED BY <1>6, <3>1, <3>2, <1>t, Rests DEF PlaceStop
  <2> QED BY <2>1, <2>2, <2>3, <1>m, LateStep
<1>7. CASE Emergency
  <2>1. ctx.st \notin Early /\ eng.pc # "submit"
    BY <1>7, <1>o, <1>f DEF Emergency, Take, Early, EarlyFits, OpsAt, SignalOps, PassOps,
       Holding
  <2>2. /\ ctx'.st \notin Early /\ ctx'.submitting = ctx.submitting
        /\ ctx'.st = "ENTRY_PENDING" => ~ ctx'.opened
    BY <1>7, <2>1, <1>t, <1>f DEF Emergency, Take, Mark, Early, EarlyFits, CtxType
  <2>3. eng'.pc \notin {"announce", "submit", "accepted"}
    BY <1>7, <1>t, Rests DEF Emergency, Take, Goto, Switch, EngType
  <2> QED BY <2>1, <2>2, <2>3, <1>m, LateStep
<1>8. CASE Latch
  <2>1. ctx.st \notin Early /\ eng.pc # "submit"
    BY <1>8, <1>o, <1>f DEF Latch, Take, Early, EarlyFits, OpsAt, SignalOps, PassOps, Holding
  <2>2. /\ ctx'.st \notin Early /\ ctx'.submitting = ctx.submitting
        /\ ctx'.st = "ENTRY_PENDING" => ~ ctx'.opened
    BY <1>8, <2>1, <1>t, <1>f DEF Latch, Take, Mark, Early, EarlyFits, CtxType
  <2>3. eng'.pc \notin {"announce", "submit", "accepted"}
    BY <1>8, <1>t, Rests DEF Latch, Take, Goto, Switch, EngType
  <2> QED BY <2>1, <2>2, <2>3, <1>m, LateStep
<1>9. CASE EntryStatus
  <2>1. ctx.st \notin Early /\ eng.pc # "submit"
    BY <1>9, <1>o, <1>f DEF EntryStatus, Take, Early, EarlyFits, OpsAt, SignalOps, PassOps,
       Holding
  <2>2. /\ ctx'.st \notin Early /\ ctx'.submitting = ctx.submitting
        /\ ctx'.st = "ENTRY_PENDING" => ~ ctx'.opened
    BY <1>9, <2>1, <1>t, <1>f DEF EntryStatus, Take, Mark, Early, EarlyFits, CtxType,
       SettleEntry
  <2>3. eng'.pc \notin {"announce", "submit", "accepted"}
    BY <1>9, <1>t, Rests DEF EntryStatus, Take, Goto, Switch, EngType, SettleEntry
  <2> QED BY <2>1, <2>2, <2>3, <1>m, LateStep
<1>10. CASE CancelEntry
  <2>1. ctx.st \notin Early /\ eng.pc # "submit"
    BY <1>10, <1>o, <1>f DEF CancelEntry, Take, Early, EarlyFits, OpsAt, SignalOps, PassOps,
       Holding
  <2>2. /\ ctx'.st \notin Early /\ ctx'.submitting = ctx.submitting
        /\ ctx'.st = "ENTRY_PENDING" => ~ ctx'.opened
    BY <1>10, <2>1, <1>t, <1>f DEF CancelEntry, Take, Mark, Early, EarlyFits, CtxType
  <2>3. eng'.pc \notin {"announce", "submit", "accepted"}
    BY <1>10, <1>t, Rests DEF CancelEntry, Take, Goto, Switch, EngType
  <2> QED BY <2>1, <2>2, <2>3, <1>m, LateStep
<1>11. CASE EntrySettled
  <2>1. ctx.st \notin Early /\ eng.pc # "submit"
    BY <1>11, <1>o, <1>f DEF EntrySettled, Take, Early, EarlyFits, OpsAt, SignalOps, PassOps,
       Holding
  <2>s. eng.op \in OpsAt("settled") /\ AfterEntry
    BY <1>11, <1>o DEF EntrySettled
  <2>e. ctx' = ctx \/ ctx' = [ctx EXCEPT !.st = "EXPIRED"] \/ ctx' = [ctx EXCEPT !.st = "CANCELLED"]
    BY <2>s, AfterEntryCases DEF Mark
  <2>2. /\ ctx'.st \notin Early /\ ctx'.submitting = ctx.submitting
        /\ ctx'.st = "ENTRY_PENDING" => ~ ctx'.opened
    BY <2>1, <2>e, <1>t, <1>f DEF Early, EarlyFits, CtxType
  <2>g. EndPass \/ Done \/ \E pc \in {"read", "moveread", "regone", "reconciled", "booked", "protect"} : Goto(pc)
    BY <2>s, AfterEntryCases
  <2>3. eng'.pc \notin {"announce", "submit", "accepted"}
    BY <2>g, <1>t, Rests DEF Goto, EngType
  <2> QED BY <2>1, <2>2, <2>3, <1>m, LateStep
<1>12. CASE Intent
  <2>1. ctx.st \notin Early /\ eng.pc # "submit"
    BY <1>12, <1>o, <1>f DEF Intent, Take, Early, EarlyFits, OpsAt, SignalOps, PassOps, Holding
  <2>2. /\ ctx'.st \notin Early /\ ctx'.submitting = ctx.submitting
        /\ ctx'.st = "ENTRY_PENDING" => ~ ctx'.opened
    BY <1>12, <2>1, <1>t, <1>f DEF Intent, Take, Mark, Early, EarlyFits, CtxType
  <2>3. eng'.pc \notin {"announce", "submit", "accepted"}
    BY <1>12, <1>t, Rests DEF Intent, Take, Goto, Switch, EngType
  <2> QED BY <2>1, <2>2, <2>3, <1>m, LateStep
<1>13. CASE ReadPosition
  <2>1. ctx.st \notin Early /\ eng.pc # "submit"
    BY <1>13, <1>o, <1>f DEF ReadPosition, Take, Early, EarlyFits, OpsAt, SignalOps, PassOps,
       Holding
  <2>2. /\ ctx'.st \notin Early /\ ctx'.submitting = ctx.submitting
        /\ ctx'.st = "ENTRY_PENDING" => ~ ctx'.opened
    BY <1>13, <2>1, <1>t, <1>f DEF ReadPosition, Take, Mark, Early, EarlyFits, CtxType
  <2>3. eng'.pc \notin {"announce", "submit", "accepted"}
    BY <1>13, <1>t, Rests DEF ReadPosition, Take, Goto, Switch, EngType
  <2> QED BY <2>1, <2>2, <2>3, <1>m, LateStep
<1>14. CASE SendExit
  <2>1. ctx.st \notin Early /\ eng.pc # "submit"
    BY <1>14, <1>o, <1>f DEF SendExit, Take, Early, EarlyFits, OpsAt, SignalOps, PassOps,
       Holding
  <2>2. /\ ctx'.st \notin Early /\ ctx'.submitting = ctx.submitting
        /\ ctx'.st = "ENTRY_PENDING" => ~ ctx'.opened
    BY <1>14, <2>1, <1>t, <1>f DEF SendExit, Take, Mark, Early, EarlyFits, CtxType
  <2>3. eng'.pc \notin {"announce", "submit", "accepted"}
    BY <1>14, <1>t, Rests DEF SendExit, Take, Goto, Switch, EngType
  <2> QED BY <2>1, <2>2, <2>3, <1>m, LateStep
<1>15. CASE ExitSent
  <2>1. ctx.st \notin Early /\ eng.pc # "submit"
    BY <1>15, <1>o, <1>f DEF ExitSent, Take, Early, EarlyFits, OpsAt, SignalOps, PassOps,
       Holding
  <2>2. /\ ctx'.st \notin Early /\ ctx'.submitting = ctx.submitting
        /\ ctx'.st = "ENTRY_PENDING" => ~ ctx'.opened
    BY <1>15, <2>1, <1>t, <1>f DEF ExitSent, Take, Mark, Early, EarlyFits, CtxType
  <2>3. eng'.pc \notin {"announce", "submit", "accepted"}
    BY <1>15, <1>t, Rests DEF ExitSent, Take, Goto, Switch, EngType
  <2> QED BY <2>1, <2>2, <2>3, <1>m, LateStep
<1>16. CASE ReReadPosition
  <2>1. ctx.st \notin Early /\ eng.pc # "submit"
    BY <1>16, <1>o, <1>f DEF ReReadPosition, Take, Early, EarlyFits, OpsAt, SignalOps, PassOps,
       Holding
  <2>2. /\ ctx'.st \notin Early /\ ctx'.submitting = ctx.submitting
        /\ ctx'.st = "ENTRY_PENDING" => ~ ctx'.opened
    BY <1>16, <2>1, <1>t, <1>f DEF ReReadPosition, Take, Mark, Early, EarlyFits, CtxType
  <2>3. eng'.pc \notin {"announce", "submit", "accepted"}
    BY <1>16, <1>t, Rests DEF ReReadPosition, Take, Goto, Switch, EngType
  <2> QED BY <2>1, <2>2, <2>3, <1>m, LateStep
<1>17. CASE MoveStop
  <2>1. ctx.st \notin Early /\ eng.pc # "submit"
    BY <1>17, <1>o, <1>f DEF MoveStop, Take, Early, EarlyFits, OpsAt, SignalOps, PassOps,
       Holding
  <2>2. /\ ctx'.st \notin Early /\ ctx'.submitting = ctx.submitting
        /\ ctx'.st = "ENTRY_PENDING" => ~ ctx'.opened
    BY <1>17, <2>1, <1>t, <1>f DEF MoveStop, Take, Mark, Early, EarlyFits, CtxType
  <2>3. eng'.pc \notin {"announce", "submit", "accepted"}
    BY <1>17, <1>t, Rests DEF MoveStop, Take, Goto, Switch, EngType
  <2> QED BY <2>1, <2>2, <2>3, <1>m, LateStep
<1>18. CASE Recover
  <2>0. eng.pc \in {"recover", "pass", "switch", "recheck"} /\ mkt' = mkt /\ ctx.st # "NONE"
    BY <1>18, <1>f DEF Recover, Keep, EarlyFits
  <2>l. ASSUME ctx.st \notin Early PROVE EarlyFits'
    <3>1. ctx' = ctx /\ (ctx.st = "ENTRY_PENDING" => ~ ctx.opened)
      BY <1>18, <1>f DEF Recover, Keep, EarlyFits
    <3>2. eng'.pc \notin {"announce", "submit", "accepted"}
      BY <1>18, <1>t DEF Recover, Goto, EngType
    <3> QED BY <2>l, <2>0, <3>1, <3>2, <1>m, LateStep
  <2>n. ASSUME ctx.st = "NEW" PROVE EarlyFits'
    <3>0. /\ eng.left = {} /\ ~ ctx.working /\ ~ ctx.opened
          /\ \A s \in Signals : act[s] = "new"
      BY <2>n, <1>f DEF EarlyFits, Early
    <3>3. /\ Goto(IF ctx.st \in Terminal THEN "recheck" ELSE "pass")
          /\ ctx' = ctx /\ act' = act
      BY <1>18, <3>0 DEF Recover
    <3>1. ctx' = ctx /\ act' = act
      BY <3>3
    <3>2. eng'.left = {} /\ eng'.pc \in {"recheck", "pass"} /\ eng'.op \in {"", "market", "limit"}
      BY <1>18, <3>0, <3>3, <1>t, <1>o DEF Recover, Goto, EngType, OpsAt
    <3> QED BY <2>n, <2>0, <3>0, <3>1, <3>2, <1>f DEF EarlyFits, Early
  <2> QED BY <2>0, <2>l, <2>n DEF Early
<1>19. CASE Dispatch
  <2>0. eng.pc \in {"recover", "pass", "switch", "recheck"} /\ mkt' = mkt /\ ctx.st # "NONE"
    BY <1>19, <1>f DEF Dispatch, Keep, EarlyFits
  <2>l. ASSUME ctx.st \notin Early PROVE EarlyFits'
    <3>3. ctx' = ctx
      BY <1>19, <2>l DEF Dispatch, Early
    <3>1. ctx' = ctx /\ (ctx.st = "ENTRY_PENDING" => ~ ctx.opened)
      BY <3>3, <1>f DEF EarlyFits
    <3>2. eng'.pc \notin {"announce", "submit", "accepted"}
      BY <1>19, <1>t, Rests DEF Dispatch, Goto, EngType
    <3> QED BY <2>l, <2>0, <3>1, <3>2, <1>m, LateStep
  <2>n. ASSUME ctx.st = "NEW" PROVE EarlyFits'
    <3>0. /\ eng.left = {} /\ ~ ctx.working /\ ~ ctx.opened
          /\ \A s \in Signals : act[s] = "new"
      BY <2>n, <1>f DEF EarlyFits, Early
    <3>3. EndPass /\ ctx' = (IF ctx.submitting THEN ctx ELSE [ctx EXCEPT !.st = "INVALID"]) /\ act' = act
      BY <1>19, <2>n, <3>0 DEF Dispatch, Mark, Keep, Holding
    <3>1. /\ ctx'.st \in {"NEW", "INVALID"} /\ ctx'.submitting = ctx.submitting
          /\ ctx'.opened = ctx.opened /\ ctx'.working = ctx.working /\ act' = act
          /\ ctx'.st = "INVALID" => ~ ctx.submitting
      BY <3>3, <2>n, <1>t DEF CtxType
    <3>2. eng'.left = {} /\ eng'.pc \in {"recheck", "switch"} /\ eng'.op = ""
      BY <3>0, <3>3, <1>t DEF EndPass, EngType
    <3> QED BY <2>n, <2>0, <3>0, <3>1, <3>2, <1>f DEF EarlyFits, Early
  <2> QED BY <2>0, <2>l, <2>n DEF Early
<1>20. CASE Booked
  <2>1. ctx.st \notin Early /\ eng.pc # "submit"
    BY <1>20, <1>o, <1>f DEF Booked, Take, Early, EarlyFits, OpsAt, SignalOps, PassOps, Holding
  <2>2. /\ ctx'.st \notin Early /\ ctx'.submitting = ctx.submitting
        /\ ctx'.st = "ENTRY_PENDING" => ~ ctx'.opened
    BY <1>20, <2>1, <1>t, <1>f DEF Booked, Take, Mark, Early, EarlyFits, CtxType
  <2>3. eng'.pc \notin {"announce", "submit", "accepted"}
    BY <1>20, <1>t, Rests DEF Booked, Take, Goto, Switch, EngType
  <2> QED BY <2>1, <2>2, <2>3, <1>m, LateStep
<1>21. CASE Route
  <2>0. eng.pc \in {"recover", "pass", "switch", "recheck"} /\ mkt' = mkt /\ ctx.st # "NONE"
    BY <1>21, <1>f DEF Route, Keep, EarlyFits
  <2>l. ASSUME ctx.st \notin Early PROVE EarlyFits'
    <3>1. ctx' = ctx /\ (ctx.st = "ENTRY_PENDING" => ~ ctx.opened)
      BY <1>21, <1>f DEF Route, Keep, EarlyFits
    <3>2. eng'.pc \notin {"announce", "submit", "accepted"}
      BY <1>21, <1>t, Rests DEF Route, Switch, EngType
    <3> QED BY <2>l, <2>0, <3>1, <3>2, <1>m, LateStep
  <2>n. ASSUME ctx.st = "NEW" PROVE EarlyFits'
    <3>0. /\ eng.left = {} /\ ~ ctx.working /\ ~ ctx.opened
          /\ \A s \in Signals : act[s] = "new"
      BY <2>n, <1>f DEF EarlyFits, Early
    <3>3. EndPass /\ ctx' = ctx /\ act' = act
      BY <1>21, <2>n DEF Route, Keep
    <3>1. ctx' = ctx /\ act' = act
      BY <3>3
    <3>2. eng'.left = {} /\ eng'.pc \in {"recheck", "switch"} /\ eng'.op = ""
      BY <3>0, <3>3, <1>t DEF EndPass, EngType
    <3> QED BY <2>n, <2>0, <3>0, <3>1, <3>2, <1>f DEF EarlyFits, Early
  <2> QED BY <2>0, <2>l, <2>n DEF Early
<1>22. CASE OpenRead
  <2>1. ctx.st \notin Early /\ eng.pc # "submit"
    BY <1>22, <1>o, <1>f DEF OpenRead, Take, Early, EarlyFits, OpsAt, SignalOps, PassOps,
       Holding
  <2>2. /\ ctx'.st \notin Early /\ ctx'.submitting = ctx.submitting
        /\ ctx'.st = "ENTRY_PENDING" => ~ ctx'.opened
    BY <1>22, <2>1, <1>t, <1>f DEF OpenRead, Take, Mark, Early, EarlyFits, CtxType
  <2>3. eng'.pc \notin {"announce", "submit", "accepted"}
    BY <1>22, <1>t, Rests DEF OpenRead, Take, Goto, Switch, EngType
  <2> QED BY <2>1, <2>2, <2>3, <1>m, LateStep
<1>23. CASE Reconciled
  <2>1. ctx.st \notin Early /\ eng.pc # "submit"
    BY <1>23, <1>o, <1>f DEF Reconciled, Take, Early, EarlyFits, OpsAt, SignalOps, PassOps,
       Holding
  <2>2. /\ ctx'.st \notin Early /\ ctx'.submitting = ctx.submitting
        /\ ctx'.st = "ENTRY_PENDING" => ~ ctx'.opened
    BY <1>23, <2>1, <1>t, <1>f DEF Reconciled, Take, Mark, Early, EarlyFits, CtxType
  <2>3. eng'.pc \notin {"announce", "submit", "accepted"}
    BY <1>23, <1>t, Rests DEF Reconciled, Take, Goto, Switch, EngType
  <2> QED BY <2>1, <2>2, <2>3, <1>m, LateStep
<1>24. CASE Gone
  <2>1. ctx.st \notin Early /\ eng.pc # "submit"
    BY <1>24, <1>o, <1>f DEF Gone, Take, Early, EarlyFits, OpsAt, SignalOps, PassOps, Holding
  <2>2. /\ ctx'.st \notin Early /\ ctx'.submitting = ctx.submitting
        /\ ctx'.st = "ENTRY_PENDING" => ~ ctx'.opened
    BY <1>24, <2>1, <1>t, <1>f DEF Gone, Take, Mark, Early, EarlyFits, CtxType
  <2>3. eng'.pc \notin {"announce", "submit", "accepted"}
    BY <1>24, <1>t, Rests DEF Gone, Take, Goto, Switch, EngType
  <2> QED BY <2>1, <2>2, <2>3, <1>m, LateStep
<1>25. CASE PendingRead
  <2>1. ctx.st \notin Early /\ eng.pc # "submit"
    BY <1>25, <1>o, <1>f DEF PendingRead, Take, Early, EarlyFits, OpsAt, SignalOps, PassOps,
       Holding
  <2>2. /\ ctx'.st \notin Early /\ ctx'.submitting = ctx.submitting
        /\ ctx'.st = "ENTRY_PENDING" => ~ ctx'.opened
    BY <1>25, <2>1, <1>t, <1>f DEF PendingRead, Take, Mark, Early, EarlyFits, CtxType
  <2>3. eng'.pc \notin {"announce", "submit", "accepted"}
    BY <1>25, <1>t, Rests DEF PendingRead, Take, Goto, Switch, EngType
  <2> QED BY <2>1, <2>2, <2>3, <1>m, LateStep
<1>26. CASE Recheck
  <2>0. eng.pc \in {"recover", "pass", "switch", "recheck"} /\ mkt' = mkt /\ ctx.st # "NONE"
    BY <1>26, <1>f DEF Recheck, Keep, EarlyFits
  <2>l. ASSUME ctx.st \notin Early PROVE EarlyFits'
    <3>1. /\ ctx'.st \notin Early /\ ctx'.submitting = ctx.submitting
          /\ ctx'.st = "ENTRY_PENDING" => ~ ctx'.opened
      BY <1>26, <2>l, <1>t, <1>f DEF Recheck, Mark, CtxType, EarlyFits, Early
    <3>2. eng'.pc \notin {"announce", "submit", "accepted"}
      BY <1>26, <1>t DEF Recheck, Switch, EngType
    <3> QED BY <2>l, <2>0, <3>1, <3>2, <1>m, LateStep
  <2>n. ASSUME ctx.st = "NEW" PROVE EarlyFits'
    <3>0. /\ eng.left = {} /\ ~ ctx.working /\ ~ ctx.opened
          /\ \A s \in Signals : act[s] = "new"
      BY <2>n, <1>f DEF EarlyFits, Early
    <3>3. /\ eng' = [eng EXCEPT !.pc = "idle", !.pass = FALSE]
          /\ ctx' = ctx /\ act' = act
      BY <1>26, <2>n DEF Recheck, Keep
    <3>1. ctx' = ctx /\ act' = act
      BY <3>3
    <3>2. eng'.left = {} /\ eng'.pc = "idle" /\ eng'.op \in {"", "market", "limit"}
      BY <1>26, <3>0, <3>3, <1>t, <1>o DEF Recheck, EngType, OpsAt
    <3> QED BY <2>n, <2>0, <3>0, <3>1, <3>2, <1>f DEF EarlyFits, Early
  <2> QED BY <2>0, <2>l, <2>n DEF Early
<1>27. CASE StartPass
  BY <1>27, <1>t, <1>o, <1>f, <1>m DEF StartPass, EarlyFits, MktMove, Goto, Switch, End,
     EndPass, Done, Abort, Mark, Keep, Store, VenueOnly, NoFault, Fault, CtxType, EngType,
     OpsAt, Early
<1>28. CASE EntryFills
  <2>1. ctx' = ctx /\ act' = act /\ eng' = eng
    BY <1>28 DEF EntryFills, VenueOnly
  <2>2. eng.pc # "submit"
    BY <1>28, <1>f DEF EntryFills, EarlyFits
  <2> QED BY <2>1, <2>2, <1>m, EarlyStays
<1>29. CASE ExitExecutes
  <2>1. ctx' = ctx /\ act' = act /\ eng' = eng
    BY <1>29 DEF ExitExecutes, VenueOnly
  <2> QED BY <1>29, <2>1, <1>m, SameEntry, EarlyStays
<1>30. CASE StopFires
  <2>1. ctx' = ctx /\ act' = act /\ eng' = eng
    BY <1>30 DEF StopFires, VenueOnly
  <2> QED BY <1>30, <2>1, <1>m, SameEntry, EarlyStays
<1>31. CASE OthersTrade
  <2>1. ctx' = ctx /\ act' = act /\ eng' = eng
    BY <1>31 DEF OthersTrade, VenueOnly
  <2> QED BY <1>31, <2>1, <1>m, SameEntry, EarlyStays
<1>32. CASE Crash
  BY <1>32, <1>t, <1>o, <1>f, <1>m DEF Crash, EarlyFits, MktMove, Goto, Switch, End, EndPass,
     Done, Abort, Mark, Keep, Store, VenueOnly, NoFault, Fault, CtxType, EngType, OpsAt, Early
<1>33. ASSUME NEW s \in Exits, TakeExit(s) PROVE EarlyFits'
  <2>1. ctx.st \notin Early /\ eng.pc # "submit"
    BY <1>33, <1>o, <1>f DEF TakeExit, Take, Early, EarlyFits, OpsAt, SignalOps, PassOps,
       Holding
  <2>2. /\ ctx'.st \notin Early /\ ctx'.submitting = ctx.submitting
        /\ ctx'.st = "ENTRY_PENDING" => ~ ctx'.opened
    BY <1>33, <2>1, <1>t, <1>f DEF TakeExit, Take, Mark, Early, EarlyFits, CtxType
  <2>3. eng'.pc \notin {"announce", "submit", "accepted"}
    BY <1>33, <1>t, Rests DEF TakeExit, Take, Goto, Switch, EngType
  <2> QED BY <2>1, <2>2, <2>3, <1>m, LateStep
<1>34. ASSUME NEW s \in Cancels, TakeCancel(s) PROVE EarlyFits'
  <2>1. ctx.st \notin Early /\ eng.pc # "submit"
    BY <1>34, <1>o, <1>f DEF TakeCancel, Take, Early, EarlyFits, OpsAt, SignalOps, PassOps,
       Holding
  <2>2. /\ ctx'.st \notin Early /\ ctx'.submitting = ctx.submitting
        /\ ctx'.st = "ENTRY_PENDING" => ~ ctx'.opened
    BY <1>34, <2>1, <1>t, <1>f DEF TakeCancel, Take, Mark, Early, EarlyFits, CtxType
  <2>3. eng'.pc \notin {"announce", "submit", "accepted"}
    BY <1>34, <1>t, Rests DEF TakeCancel, Take, Goto, Switch, EngType
  <2> QED BY <2>1, <2>2, <2>3, <1>m, LateStep
<1>35. ASSUME NEW s \in Moves, TakeMove(s) PROVE EarlyFits'
  <2>1. ctx.st \notin Early /\ eng.pc # "submit"
    BY <1>35, <1>o, <1>f DEF TakeMove, Take, Early, EarlyFits, OpsAt, SignalOps, PassOps,
       Holding
  <2>2. /\ ctx'.st \notin Early /\ ctx'.submitting = ctx.submitting
        /\ ctx'.st = "ENTRY_PENDING" => ~ ctx'.opened
    BY <1>35, <2>1, <1>t, <1>f DEF TakeMove, Take, Mark, Early, EarlyFits, CtxType
  <2>3. eng'.pc \notin {"announce", "submit", "accepted"}
    BY <1>35, <1>t, Rests DEF TakeMove, Take, Goto, Switch, EngType
  <2> QED BY <2>1, <2>2, <2>3, <1>m, LateStep
<1>36. CASE UNCHANGED vars
  BY <1>36, <1>m, EarlyStays DEF vars
<1> QED BY <1>1, <1>2, <1>3, <1>4, <1>5, <1>6, <1>7, <1>8, <1>9, <1>10, <1>11, <1>12, <1>13,
           <1>14, <1>15, <1>16, <1>17, <1>18, <1>19, <1>20, <1>21, <1>22, <1>23, <1>24, <1>25,
           <1>26, <1>27, <1>28, <1>29, <1>30, <1>31, <1>32, <1>33, <1>34, <1>35, <1>36 DEF Next,
           Engine, Venue

(* What is known while an operation that has settled the entry goes on.    *)
LEMMA OverFacts ==
    ASSUME IInv, Over(eng.pc, eng.op), MktMove
    PROVE  /\ EntryOver /\ EntryOver' /\ mkt'.pos <= mkt.pos /\ (Closing => Closing')
           /\ ctx.st \in Holding \cup Terminal
<1>1. eng.op \in OpsAt(eng.pc) /\ EarlyFits /\ SettledFits /\ ctx.st \in States
  BY DEF IInv, EngFits, Typed, CtxType
<1>2. EntryOver /\ ctx.st # "ENTRY_PENDING" /\ eng.pc # "submit"
  BY <1>1 DEF SettledFits, Over
<1>3. ctx.st \notin Early
  BY <1>1 DEF Over, EarlyFits, OpsAt, SignalOps, PassOps
<1>4. ctx.st \in Holding \cup Terminal
  BY <1>1, <1>2, <1>3 DEF States, Early
<1> QED BY <1>2, <1>4 DEF MktMove

(* A step that leaves alone what the context says of the entry.            *)
LEMMA StateStays ==
    ASSUME IInv, MktMove, ctx'.st = ctx.st, ctx'.q = ctx.q, ctx'.opened = ctx.opened,
           ctx'.working = ctx.working
    PROVE  StateFits'
<1>1. CASE eng.pc = "submit"
  <2>1. ctx'.st = "NEW"
    BY <1>1 DEF IInv, EarlyFits
  <2> QED BY <2>1 DEF StateFits, Terminal, Holding
<1>2. CASE eng.pc # "submit"
  <2>1. EntryOver => EntryOver' /\ mkt'.pos <= mkt.pos /\ (Closing => Closing')
    BY <1>2 DEF MktMove
  <2>2. mkt.pos \in Nat /\ mkt'.pos \in Nat
    BY LegacyFacts DEF IInv, Typed, MktMove, MktType
  <2>3. mkt.pos = 0 /\ mkt'.pos <= mkt.pos => mkt'.pos = 0
    BY <2>2
  <2> QED BY <2>1, <2>3 DEF IInv, StateFits
<1> QED BY <1>1, <1>2

(* The trade is written off, and its entry is.                             *)
LEMMA StateEnds ==
    ASSUME IInv, MktMove, EntryOver', Closing', ctx'.q = ctx.q,
           ctx'.opened = ctx.opened, ctx.st \in Holding \cup Terminal, mkt'.pos <= mkt.pos
    PROVE  StateFits'
<1>1. mkt.pos \in Nat /\ mkt'.pos \in Nat
  BY LegacyFacts DEF IInv, Typed, MktMove, MktType
<1>2. ~ ctx.opened => mkt.pos = 0
  BY DEF IInv, StateFits
<1>3. mkt.pos = 0 => mkt'.pos = 0
  BY <1>1
<1> QED BY <1>2, <1>3 DEF StateFits

(* What the context says of an accepted entry stays true. *)
LEMMA StateStep == IInv /\ [Next]_vars => StateFits'
<1> SUFFICES ASSUME IInv, [Next]_vars PROVE StateFits'
  OBVIOUS
<1>t. eng \in EngType /\ ctx \in CtxType
  BY DEF IInv, Typed
<1>o. eng.op \in OpsAt(eng.pc)
  BY DEF IInv, EngFits
<1>f. EarlyFits /\ StateFits /\ SettledFits
  BY DEF IInv
<1>m. MktMove
  BY MktStep
<1>1. CASE Open
  <2>1. ctx'.st = "NEW"
    BY <1>1, <1>t DEF Open, Mark, CtxType
  <2> QED BY <2>1 DEF StateFits, Holding, Terminal
<1>2. CASE Announce
  <2>1. ctx'.st = ctx.st /\ ctx'.q = ctx.q /\ ctx'.opened = ctx.opened /\ ctx'.working = ctx.working
    BY <1>2, <1>t DEF Announce, vars, Take, VenueOnly, Keep, CtxType
  <2> QED BY <2>1, <1>m, StateStays
<1>3. CASE SubmitEntry
  <2>1. ctx'.st = ctx.st /\ ctx'.q = ctx.q /\ ctx'.opened = ctx.opened /\ ctx'.working = ctx.working
    BY <1>3, <1>t DEF SubmitEntry, vars, Take, VenueOnly, Keep, CtxType
  <2> QED BY <2>1, <1>m, StateStays
<1>4. CASE Accepted
  <2>1. CASE eng.op = "market" /\ ctx' = [ctx EXCEPT !.st = "OPEN", !.q = Size, !.opened = TRUE]
    <3>1. ctx'.st = "OPEN" /\ ctx'.q = Size /\ ctx'.opened
      BY <2>1, <1>t DEF CtxType
    <3>2. mkt' = mkt /\ mkt.ent = "over"
      BY <1>4, <2>1, <1>f DEF Accepted, EarlyFits
    <3> QED BY <3>1, <3>2, LegacyFacts DEF StateFits, EntryOver, Terminal
  <2>2. CASE ctx' = [ctx EXCEPT !.st = "ENTRY_PENDING", !.working = TRUE]
    <3>1. ctx'.st = "ENTRY_PENDING"
      BY <2>2, <1>t DEF CtxType
    <3> QED BY <3>1 DEF StateFits, Holding, Terminal
  <2> QED BY <1>4, <2>1, <2>2 DEF Accepted
<1>5. CASE Protect
  <2>1. ctx'.st = ctx.st /\ ctx'.q = ctx.q /\ ctx'.opened = ctx.opened /\ ctx'.working = ctx.working
    BY <1>5, <1>t DEF Protect, vars, Take, VenueOnly, Keep, CtxType
  <2> QED BY <2>1, <1>m, StateStays
<1>6. CASE PlaceStop
  <2>1. ctx'.st = ctx.st /\ ctx'.q = ctx.q /\ ctx'.opened = ctx.opened /\ ctx'.working = ctx.working
    BY <1>6, <1>t DEF PlaceStop, vars, Take, VenueOnly, Keep, CtxType
  <2> QED BY <2>1, <1>m, StateStays
<1>7. CASE Emergency
  <2>1. CASE eng.op = "market" /\ ctx' = [ctx EXCEPT !.st = "CLOSED"]
               /\ mkt' = Settled([mkt EXCEPT !.all = TRUE, !.ent = IF eng.op # "market" /\ @ = "working" THEN "over" ELSE @])
    <3>1. /\ EntryOver' /\ mkt'.pos <= mkt.pos /\ ctx.st \in Holding \cup Terminal
      BY <1>7, <2>1, <1>m, OverFacts DEF Emergency, Over
    <3>2. ctx'.q = ctx.q /\ ctx'.opened = ctx.opened
      BY <2>1, <1>t DEF CtxType
    <3>3. Closing'
      <4> DEFINE m == [mkt EXCEPT !.all = TRUE, !.ent = IF eng.op # "market" /\ @ = "working" THEN "over" ELSE @]
      <4>1. m \in MktType /\ m.all
        BY DEF IInv, Typed, MktType
      <4>2. mkt' = Settled(m)
        BY <2>1
      <4> HIDE DEF m
      <4> QED BY <4>1, <4>2, LegacyFacts, SettledFacts DEF Closing
    <3> QED BY <3>1, <3>2, <3>3, <1>m, StateEnds
  <2>2. CASE ctx' = ctx \/ ctx' = [ctx EXCEPT !.disabled = TRUE]
    <3>1. ctx'.st = ctx.st /\ ctx'.q = ctx.q /\ ctx'.opened = ctx.opened /\ ctx'.working = ctx.working
      BY <2>2, <1>t DEF CtxType
    <3> QED BY <3>1, <1>m, StateStays
  <2> QED BY <1>7, <2>1, <2>2 DEF Emergency, Mark
<1>8. CASE Latch
  <2>1. ctx'.st = ctx.st /\ ctx'.q = ctx.q /\ ctx'.opened = ctx.opened /\ ctx'.working = ctx.working
    BY <1>8, <1>t DEF Latch, vars, Take, VenueOnly, Keep, CtxType
  <2> QED BY <2>1, <1>m, StateStays
<1>9. CASE EntryStatus
  <2>0. ctx.st \notin Early /\ mkt.ent # "flying" /\ mkt.ent \in {"none", "flying", "working", "over"}
        /\ mkt' = mkt /\ mkt.pos <= mkt.fill /\ mkt.pos \in Nat
    BY <1>9, <1>o, <1>f, SeenFacts DEF EntryStatus, OpsAt, SignalOps, PassOps, EarlyFits, Early,
       Keep, IInv, Typed, MktType
  <2>9. (EntryOver' <=> EntryOver) /\ (Closing' <=> Closing) /\ mkt'.pos = mkt.pos
    BY <2>0 DEF EntryOver, Closing
  <2>1. CASE ctx' = ctx
    <3>1. ctx'.st = ctx.st /\ ctx'.q = ctx.q /\ ctx'.opened = ctx.opened /\ ctx'.working = ctx.working
      BY <2>1, <1>t DEF CtxType
    <3> QED BY <3>1, <1>m, StateStays
  <2>2. CASE mkt.fill = 0 /\ mkt.ent # "working" /\ ctx' = [ctx EXCEPT !.st = "CANCELLED", !.working = FALSE, !.q = 0]
    <3>1. ctx'.st = "CANCELLED"
      BY <2>2, <1>t DEF CtxType
    <3>2. mkt.pos = 0
      BY <2>0, <2>2
    <3> QED BY <2>0, <2>2, <2>9, <3>1, <3>2 DEF StateFits, EntryOver, Closing, Terminal, Holding
  <2>3. CASE mkt.fill # 0 /\ ctx' = [ctx EXCEPT !.st = "OPEN", !.working = ~(mkt.ent # "working"), !.opened = TRUE,
                                         !.q = IF ctx.opened THEN Seen ELSE mkt.fill]
    <3>1. /\ ctx'.st = "OPEN" /\ ctx'.opened /\ ctx'.working = ~(mkt.ent # "working")
          /\ ctx'.q \in {Seen, mkt.fill}
      BY <2>3, <1>t DEF CtxType
    <3>2. ctx'.q = 0 => mkt.pos = 0
      BY <2>3, <3>1, SeenFacts
    <3> QED BY <2>0, <2>9, <3>1, <3>2 DEF StateFits, EntryOver, Closing, Terminal, Holding
  <2> QED BY <1>9, <2>1, <2>2, <2>3 DEF EntryStatus, SettleEntry
<1>10. CASE CancelEntry
  <2>1. ctx'.st = ctx.st /\ ctx'.q = ctx.q /\ ctx'.opened = ctx.opened /\ ctx'.working = ctx.working
    BY <1>10, <1>t DEF CancelEntry, vars, Take, VenueOnly, Keep, CtxType
  <2> QED BY <2>1, <1>m, StateStays
<1>11. CASE EntrySettled
  <2>1. CASE ctx' = ctx
    <3>1. ctx'.st = ctx.st /\ ctx'.q = ctx.q /\ ctx'.opened = ctx.opened /\ ctx'.working = ctx.working
      BY <2>1, <1>t DEF CtxType
    <3> QED BY <3>1, <1>m, StateStays
  <2>2. CASE eng.op # "book" /\ ((ctx' = [ctx EXCEPT !.st = "EXPIRED"] /\ ~ ctx.opened) \/ (ctx' = [ctx EXCEPT !.st = "CANCELLED"] /\ ~ (ctx.opened /\ ctx.q > 0)))
    <3>0. eng.pc = "settled" /\ eng.op \in OpsAt("settled") /\ AfterEntry
      BY <1>11, <1>o DEF EntrySettled
    <3>1. eng.op # "book"
      BY <2>2
    <3>2. EntryOver' /\ mkt'.pos <= mkt.pos /\ (Closing => Closing') /\ ctx.st \in Holding \cup Terminal
      BY <3>0, <3>1, <1>m, OverFacts DEF Over
    <3>3. ctx'.q = ctx.q /\ ctx'.opened = ctx.opened
      BY <2>2, <1>t DEF CtxType
    <3>4. Closing
      <4>1. ~ ctx.opened => Closing
        BY <3>2, <1>f DEF StateFits, Closing
      <4>2. ~ (ctx.q > 0) => ctx.q = 0
        BY <1>t, LegacyFacts DEF CtxType
      <4>3. ctx.q = 0 => Closing
        BY <3>0, <3>1, <1>f DEF SettledFits
      <4> QED BY <2>2, <4>1, <4>2, <4>3
    <3> QED BY <3>2, <3>3, <3>4, <1>m, StateEnds
  <2>3. eng.op \in OpsAt("settled") /\ AfterEntry
    BY <1>11, <1>o DEF EntrySettled
  <2> QED BY <2>1, <2>2, <2>3, AfterEntryCases DEF Mark
<1>12. CASE Intent
  <2>1. ctx'.st = ctx.st /\ ctx'.q = ctx.q /\ ctx'.opened = ctx.opened /\ ctx'.working = ctx.working
    BY <1>12, <1>t DEF Intent, vars, Take, VenueOnly, Keep, CtxType
  <2> QED BY <2>1, <1>m, StateStays
<1>13. CASE ReadPosition
  <2>1. CASE ctx' = ctx
    <3>1. ctx'.st = ctx.st /\ ctx'.q = ctx.q /\ ctx'.opened = ctx.opened /\ ctx'.working = ctx.working
      BY <2>1, <1>t DEF CtxType
    <3> QED BY <3>1, <1>m, StateStays
  <2>2. CASE Seen = 0 /\ ctx' = [ctx EXCEPT !.st = "CLOSED"]
    <3>1. EntryOver' /\ mkt'.pos <= mkt.pos /\ (Closing => Closing') /\ ctx.st \in Holding \cup Terminal
      BY <1>13, <1>m, <1>o, OverFacts DEF ReadPosition, Over, OpsAt
    <3>2. ctx'.q = ctx.q /\ ctx'.opened = ctx.opened
      BY <2>2, <1>t DEF CtxType
    <3>3. Closing
      BY <2>2, SeenFacts DEF Closing
    <3> QED BY <3>1, <3>2, <3>3, <1>m, StateEnds
  <2> QED BY <1>13, <2>1, <2>2 DEF ReadPosition, Mark
<1>14. CASE SendExit
  <2>1. ctx'.st = ctx.st /\ ctx'.q = ctx.q /\ ctx'.opened = ctx.opened /\ ctx'.working = ctx.working
    BY <1>14, <1>t DEF SendExit, vars, Take, VenueOnly, Keep, CtxType
  <2> QED BY <2>1, <1>m, StateStays
<1>15. CASE ExitSent
  <2>1. CASE ctx' = ctx
    <3>1. ctx'.st = ctx.st /\ ctx'.q = ctx.q /\ ctx'.opened = ctx.opened /\ ctx'.working = ctx.working
      BY <2>1, <1>t DEF CtxType
    <3> QED BY <3>1, <1>m, StateStays
  <2>2. CASE ~ Full /\ ctx' = [ctx EXCEPT !.q = eng.n - ExitQty]
    <3> DEFINE q == eng.n - ExitQty
    <3>0. eng.n > 0
      BY <1>15 DEF ExitSent, IInv, EngFits
    <3>9. q \in 1..Size + 1
      BY <2>2, <3>0, QtyFacts
    <3>8. q # 0
      <4> HIDE DEF q
      <4> QED BY <3>9
    <3>7. ctx' = [ctx EXCEPT !.q = q]
      BY <2>2
    <3> HIDE DEF q
    <3>1. ctx'.st = ctx.st /\ ctx'.q # 0 /\ ctx'.opened = ctx.opened /\ ctx'.working = ctx.working
      BY <3>7, <3>8, <1>t DEF CtxType
    <3>2. /\ mkt' = mkt
      BY <1>15 DEF ExitSent, Keep
    <3>3. (EntryOver' <=> EntryOver) /\ (Closing' <=> Closing) /\ mkt'.pos = mkt.pos
      BY <3>2 DEF EntryOver, Closing
    <3> QED BY <3>1, <3>3, <1>f DEF StateFits, Terminal, Holding
  <2> QED BY <1>15, <2>1, <2>2 DEF ExitSent
<1>16. CASE ReReadPosition
  <2>0. EntryOver' /\ mkt'.pos <= mkt.pos /\ (Closing => Closing') /\ ctx.st \in Holding \cup Terminal
    BY <1>16, <1>m, <1>o, OverFacts DEF ReReadPosition, Over, OpsAt
  <2>1. CASE ctx' = [ctx EXCEPT !.st = "CLOSE_PENDING"]
    <3>1. ctx'.st = "CLOSE_PENDING" /\ ctx'.q = ctx.q /\ ctx'.opened = ctx.opened /\ ctx'.working = ctx.working
      BY <2>1, <1>t DEF CtxType
    <3>2. ~ ctx'.working /\ ctx'.q = 0 => Closing'
      BY <2>0, <3>1, <1>f DEF StateFits
    <3>3. ~ ctx'.opened => mkt'.pos = 0
      <4>1. ~ ctx.opened => mkt.pos = 0
        BY <2>0, <1>f DEF StateFits
      <4>2. mkt.pos \in Nat /\ mkt'.pos \in Nat
        BY <1>m, LegacyFacts DEF IInv, Typed, MktMove, MktType
      <4>3. mkt.pos = 0 => mkt'.pos = 0
        BY <2>0, <4>2
      <4> QED BY <3>1, <4>1, <4>3
    <3> QED BY <2>0, <3>1, <3>2, <3>3 DEF StateFits, Terminal
  <2>2. CASE Seen = 0 /\ ctx' = [ctx EXCEPT !.st = "CLOSED"]
    <3>2. ctx'.q = ctx.q /\ ctx'.opened = ctx.opened
      BY <2>2, <1>t DEF CtxType
    <3>3. Closing
      BY <2>2, SeenFacts DEF Closing
    <3> QED BY <2>0, <3>2, <3>3, <1>m, StateEnds
  <2> QED BY <1>16, <2>1, <2>2 DEF ReReadPosition, Mark
<1>17. CASE MoveStop
  <2>1. ctx'.st = ctx.st /\ ctx'.q = ctx.q /\ ctx'.opened = ctx.opened /\ ctx'.working = ctx.working
    BY <1>17, <1>t DEF MoveStop, vars, Take, VenueOnly, Keep, CtxType
  <2> QED BY <2>1, <1>m, StateStays
<1>18. CASE Recover
  <2>1. ctx'.st = ctx.st /\ ctx'.q = ctx.q /\ ctx'.opened = ctx.opened /\ ctx'.working = ctx.working
    BY <1>18, <1>t DEF Recover, vars, Take, VenueOnly, Keep, CtxType
  <2> QED BY <2>1, <1>m, StateStays
<1>19. CASE Dispatch
  <2>1. CASE ctx' = ctx
    <3>1. ctx'.st = ctx.st /\ ctx'.q = ctx.q /\ ctx'.opened = ctx.opened /\ ctx'.working = ctx.working
      BY <2>1, <1>t DEF CtxType
    <3> QED BY <3>1, <1>m, StateStays
  <2>2. CASE ctx.st = "NEW" /\ ~ ctx.submitting /\ ctx' = [ctx EXCEPT !.st = "INVALID"]
    <3>1. ctx'.st = "INVALID" /\ mkt' = mkt
      BY <1>19, <2>2, <1>t DEF Dispatch, Keep, CtxType
    <3>2. mkt.ent = "none" /\ mkt.pos <= 0 /\ mkt.pos \in Nat
      <4>1. mkt.ent = "none" /\ mkt.fill = 0 /\ mkt.pos <= mkt.fill
        BY <2>2, <1>f DEF EarlyFits
      <4> QED BY <4>1, SeenFacts
    <3>3. mkt.pos = 0
      BY <3>2
    <3> QED BY <3>1, <3>2, <3>3 DEF StateFits, Terminal, Holding, EntryOver, Closing
  <2> QED BY <1>19, <2>1, <2>2 DEF Dispatch, Mark
<1>20. CASE Booked
  <2>1. ctx'.st = ctx.st /\ ctx'.q = ctx.q /\ ctx'.opened = ctx.opened /\ ctx'.working = ctx.working
    BY <1>20, <1>t DEF Booked, vars, Take, VenueOnly, Keep, CtxType
  <2> QED BY <2>1, <1>m, StateStays
<1>21. CASE Route
  <2>1. ctx'.st = ctx.st /\ ctx'.q = ctx.q /\ ctx'.opened = ctx.opened /\ ctx'.working = ctx.working
    BY <1>21, <1>t DEF Route, vars, Take, VenueOnly, Keep, CtxType
  <2> QED BY <2>1, <1>m, StateStays
<1>22. CASE OpenRead
  <2>1. CASE ctx' = ctx
    <3>1. ctx'.st = ctx.st /\ ctx'.q = ctx.q /\ ctx'.opened = ctx.opened /\ ctx'.working = ctx.working
      BY <2>1, <1>t DEF CtxType
    <3> QED BY <3>1, <1>m, StateStays
  <2>2. CASE Seen > 0 /\ ctx' = [ctx EXCEPT !.q = IF @ = 0 THEN Seen ELSE @]
    <3>9. Seen # 0
      <4> DEFINE x == Seen
      <4>1. x \in 0..Size + 1 /\ x > 0 /\ Size \in Nat
        BY <2>2, SeenFacts, LegacyFacts
      <4> HIDE DEF x
      <4>2. x # 0
        BY <4>1
      <4> QED BY <4>2 DEF x
    <3>1. ctx'.st = ctx.st /\ ctx'.q # 0 /\ ctx'.opened = ctx.opened /\ ctx'.working = ctx.working
      BY <2>2, <3>9, <1>t DEF CtxType
    <3>2. /\ mkt' = mkt
      BY <1>22 DEF OpenRead, Keep
    <3>3. (EntryOver' <=> EntryOver) /\ (Closing' <=> Closing) /\ mkt'.pos = mkt.pos
      BY <3>2 DEF EntryOver, Closing
    <3> QED BY <3>1, <3>3, <1>f DEF StateFits, Terminal, Holding
  <2> QED BY <1>22, <2>1, <2>2 DEF OpenRead
<1>23. CASE Reconciled
  <2>1. eng.op = "shrunk" /\ ctx' = [ctx EXCEPT !.q = eng.n] /\ mkt' = mkt
    BY <1>23, <1>o DEF Reconciled, OpsAt, Keep
  <2>2. eng.n > 0 /\ eng.n \in Nat
    BY <2>1, <1>t, LegacyFacts DEF IInv, EngFits, EngType
  <2>3. eng.n # 0
    BY <2>2
  <2>4. ctx'.st = ctx.st /\ ctx'.q # 0 /\ ctx'.opened = ctx.opened /\ ctx'.working = ctx.working
    BY <2>1, <2>3, <1>t DEF CtxType
  <2>5. (EntryOver' <=> EntryOver) /\ (Closing' <=> Closing) /\ mkt'.pos = mkt.pos
    BY <2>1 DEF EntryOver, Closing
  <2> QED BY <2>4, <2>5, <1>f DEF StateFits, Terminal, Holding
<1>24. CASE Gone
  <2>1. CASE ctx' = ctx
    <3>1. ctx'.st = ctx.st /\ ctx'.q = ctx.q /\ ctx'.opened = ctx.opened /\ ctx'.working = ctx.working
      BY <2>1, <1>t DEF CtxType
    <3> QED BY <3>1, <1>m, StateStays
  <2>2. CASE Seen = 0 /\ ctx' = [ctx EXCEPT !.st = "CLOSED"]
    <3>1. EntryOver' /\ mkt'.pos <= mkt.pos /\ (Closing => Closing') /\ ctx.st \in Holding \cup Terminal
      BY <1>24, <1>m, <1>o, OverFacts DEF Gone, Over, OpsAt
    <3>2. ctx'.q = ctx.q /\ ctx'.opened = ctx.opened
      BY <2>2, <1>t DEF CtxType
    <3>3. Closing
      BY <2>2, SeenFacts DEF Closing
    <3> QED BY <3>1, <3>2, <3>3, <1>m, StateEnds
  <2> QED BY <1>24, <2>1, <2>2 DEF Gone, Mark
<1>25. CASE PendingRead
  <2>1. CASE ctx' = ctx
    <3>1. ctx'.st = ctx.st /\ ctx'.q = ctx.q /\ ctx'.opened = ctx.opened /\ ctx'.working = ctx.working
      BY <2>1, <1>t DEF CtxType
    <3> QED BY <3>1, <1>m, StateStays
  <2>2. CASE Seen = 0 /\ ctx' = [ctx EXCEPT !.st = "CLOSED"]
    <3>1. EntryOver' /\ mkt'.pos <= mkt.pos /\ (Closing => Closing') /\ ctx.st \in Holding \cup Terminal
      BY <1>25, <1>m, <1>o, OverFacts DEF PendingRead, Over, OpsAt
    <3>2. ctx'.q = ctx.q /\ ctx'.opened = ctx.opened
      BY <2>2, <1>t DEF CtxType
    <3>3. Closing
      BY <2>2, SeenFacts DEF Closing
    <3> QED BY <3>1, <3>2, <3>3, <1>m, StateEnds
  <2> QED BY <1>25, <2>1, <2>2 DEF PendingRead, Mark
<1>26. CASE Recheck
  <2>1. CASE ctx' = ctx
    <3>1. ctx'.st = ctx.st /\ ctx'.q = ctx.q /\ ctx'.opened = ctx.opened /\ ctx'.working = ctx.working
      BY <2>1, <1>t DEF CtxType
    <3> QED BY <3>1, <1>m, StateStays
  <2>2. CASE ctx.st = "CLOSED" /\ ctx' = [ctx EXCEPT !.st = "OPEN"]
    <3>1. ctx'.st = "OPEN" /\ ctx'.opened = ctx.opened
      BY <2>2, <1>t DEF CtxType
    <3>2. mkt' = mkt
      BY <1>26 DEF Recheck, Keep
    <3>3. (EntryOver' <=> EntryOver) /\ (Closing' <=> Closing) /\ mkt'.pos = mkt.pos
      BY <3>2 DEF EntryOver, Closing
    <3> QED BY <2>2, <3>1, <3>3, <1>f DEF StateFits, Terminal, Holding
  <2> QED BY <1>26, <2>1, <2>2 DEF Recheck, Mark
<1>27. CASE StartPass
  <2>1. ctx'.st = ctx.st /\ ctx'.q = ctx.q /\ ctx'.opened = ctx.opened /\ ctx'.working = ctx.working
    BY <1>27, <1>t DEF StartPass, vars, Take, VenueOnly, Keep, CtxType
  <2> QED BY <2>1, <1>m, StateStays
<1>28. CASE EntryFills
  <2>1. ctx'.st = ctx.st /\ ctx'.q = ctx.q /\ ctx'.opened = ctx.opened /\ ctx'.working = ctx.working
    BY <1>28, <1>t DEF EntryFills, vars, Take, VenueOnly, Keep, CtxType
  <2> QED BY <2>1, <1>m, StateStays
<1>29. CASE ExitExecutes
  <2>1. ctx'.st = ctx.st /\ ctx'.q = ctx.q /\ ctx'.opened = ctx.opened /\ ctx'.working = ctx.working
    BY <1>29, <1>t DEF ExitExecutes, vars, Take, VenueOnly, Keep, CtxType
  <2> QED BY <2>1, <1>m, StateStays
<1>30. CASE StopFires
  <2>1. ctx'.st = ctx.st /\ ctx'.q = ctx.q /\ ctx'.opened = ctx.opened /\ ctx'.working = ctx.working
    BY <1>30, <1>t DEF StopFires, vars, Take, VenueOnly, Keep, CtxType
  <2> QED BY <2>1, <1>m, StateStays
<1>31. CASE OthersTrade
  <2>1. ctx'.st = ctx.st /\ ctx'.q = ctx.q /\ ctx'.opened = ctx.opened /\ ctx'.working = ctx.working
    BY <1>31, <1>t DEF OthersTrade, vars, Take, VenueOnly, Keep, CtxType
  <2> QED BY <2>1, <1>m, StateStays
<1>32. CASE Crash
  <2>1. ctx'.st = ctx.st /\ ctx'.q = ctx.q /\ ctx'.opened = ctx.opened /\ ctx'.working = ctx.working
    BY <1>32, <1>t DEF Crash, vars, Take, VenueOnly, Keep, CtxType
  <2> QED BY <2>1, <1>m, StateStays
<1>33. ASSUME NEW s \in Exits, TakeExit(s) PROVE StateFits'
  <2>1. ctx'.st = ctx.st /\ ctx'.q = ctx.q /\ ctx'.opened = ctx.opened /\ ctx'.working = ctx.working
    BY <1>33, <1>t DEF TakeExit, vars, Take, VenueOnly, Keep, CtxType
  <2> QED BY <2>1, <1>m, StateStays
<1>34. ASSUME NEW s \in Cancels, TakeCancel(s) PROVE StateFits'
  <2>1. ctx'.st = ctx.st /\ ctx'.q = ctx.q /\ ctx'.opened = ctx.opened /\ ctx'.working = ctx.working
    BY <1>34, <1>t DEF TakeCancel, vars, Take, VenueOnly, Keep, CtxType
  <2> QED BY <2>1, <1>m, StateStays
<1>35. ASSUME NEW s \in Moves, TakeMove(s) PROVE StateFits'
  <2>1. ctx'.st = ctx.st /\ ctx'.q = ctx.q /\ ctx'.opened = ctx.opened /\ ctx'.working = ctx.working
    BY <1>35, <1>t DEF TakeMove, vars, Take, VenueOnly, Keep, CtxType
  <2> QED BY <2>1, <1>m, StateStays
<1>36. CASE UNCHANGED vars
  <2>1. ctx'.st = ctx.st /\ ctx'.q = ctx.q /\ ctx'.opened = ctx.opened /\ ctx'.working = ctx.working
    BY <1>36, <1>t DEF vars, vars, Take, VenueOnly, Keep, CtxType
  <2> QED BY <2>1, <1>m, StateStays
<1> QED BY <1>1, <1>2, <1>3, <1>4, <1>5, <1>6, <1>7, <1>8, <1>9, <1>10, <1>11, <1>12, <1>13,
           <1>14, <1>15, <1>16, <1>17, <1>18, <1>19, <1>20, <1>21, <1>22, <1>23, <1>24, <1>25,
           <1>26, <1>27, <1>28, <1>29, <1>30, <1>31, <1>32, <1>33, <1>34, <1>35, <1>36 DEF Next,
           Engine, Venue

OverPcs == {"settled", "settle-protect", "settle-place", "read", "send", "sent", "reread", "regone",
            "reconciled", "moveread", "pendread"}

(* The operation has not settled the entry, or is over.                    *)
LEMMA NotSettled ==
    ASSUME eng'.pc \notin OverPcs,
           eng'.pc \in {"protect", "place", "emergency"} => eng'.op # "market"
    PROVE  SettledFits'
BY DEF SettledFits, Over, OverPcs

LEMMA SettledRests ==
    ASSUME eng'.pc \in {"idle", "recover", "switch", "recheck"} PROVE SettledFits'
BY NotSettled DEF OverPcs

(* An operation that has settled the entry goes on.                        *)
LEMMA StaysSettled ==
    ASSUME IInv, MktMove, Over(eng.pc, eng.op), ctx'.st # "ENTRY_PENDING",
           eng'.pc \notin {"settled", "settle-protect", "settle-place"}
    PROVE  SettledFits'
BY OverFacts DEF SettledFits

(* The engine is where it was.                                             *)
LEMMA SettledStays ==
    ASSUME IInv, MktMove, ctx' = ctx, eng' = eng
    PROVE  SettledFits'
<1>1. Over(eng.pc, eng.op) => EntryOver' /\ (Closing => Closing')
  BY OverFacts
<1>2. eng.pc = "settled" /\ eng.op # "book" => Over(eng.pc, eng.op)
  BY DEF Over
<1> QED BY <1>1, <1>2 DEF SettledFits, IInv, Over

(* An operation that has settled the entry knows what it settled. *)
LEMMA SettledStep == IInv /\ [Next]_vars => SettledFits'
<1> SUFFICES ASSUME IInv, [Next]_vars PROVE SettledFits'
  OBVIOUS
<1>t. eng \in EngType /\ ctx \in CtxType
  BY DEF IInv, Typed
<1>o. eng.op \in OpsAt(eng.pc)
  BY DEF IInv, EngFits
<1>f. EarlyFits /\ StateFits /\ SettledFits
  BY DEF IInv
<1>m. MktMove
  BY MktStep
<1>1. CASE Open
  <2>1. eng'.pc \notin OverPcs /\ (eng'.pc \in {"protect", "place", "emergency"} => eng'.op # "market")
    BY <1>1, <1>t, <1>o, Rests DEF Open, Take, Goto, Switch, EngType, OpsAt, SignalOps, OverPcs
  <2> QED BY <2>1, NotSettled
<1>2. CASE Announce
  <2>1. eng'.pc \notin OverPcs /\ (eng'.pc \in {"protect", "place", "emergency"} => eng'.op # "market")
    BY <1>2, <1>t, <1>o, Rests DEF Announce, Take, Goto, Switch, EngType, OpsAt, SignalOps,
       OverPcs
  <2> QED BY <2>1, NotSettled
<1>3. CASE SubmitEntry
  <2>1. eng'.pc \notin OverPcs /\ (eng'.pc \in {"protect", "place", "emergency"} => eng'.op # "market")
    BY <1>3, <1>t, <1>o, Rests DEF SubmitEntry, Take, Goto, Switch, EngType, OpsAt, SignalOps,
       OverPcs
  <2> QED BY <2>1, NotSettled
<1>4. CASE Accepted
  <2>1. CASE eng.op = "market" /\ ctx' = [ctx EXCEPT !.st = "OPEN", !.q = Size, !.opened = TRUE] /\ Goto("protect")
    <3>1. ctx'.st = "OPEN"
      BY <2>1, <1>t DEF CtxType
    <3>2. mkt' = mkt /\ mkt.ent = "over"
      BY <1>4, <2>1, <1>f DEF Accepted, EarlyFits
    <3>3. eng'.pc = "protect"
      BY <2>1, <1>t DEF Goto, EngType
    <3> QED BY <3>1, <3>2, <3>3 DEF SettledFits, EntryOver
  <2>2. CASE End
    BY <2>2, <1>t, Rests, SettledRests
  <2> QED BY <1>4, <2>1, <2>2 DEF Accepted
<1>5. CASE Protect
  <2>0. MktMove /\ (ctx' = ctx \/ ctx' = [ctx EXCEPT !.sl = mkt.stop])
    BY <1>5, <1>m DEF Protect
  <2>c. ctx'.st = ctx.st /\ ctx'.q = ctx.q /\ ctx'.opened = ctx.opened
    BY <2>0, <1>t DEF CtxType
  <2>1. CASE eng.pc = "protect" /\ AfterStop
    <3>1. Switch("intent", "exit") \/ End \/ EndPass \/ Done
      BY <2>1, <1>o, AfterStopCases
    <3>2. CASE Switch("intent", "exit")
      BY <3>2, <1>t, NotSettled DEF Switch, EngType, OverPcs
    <3> QED BY <3>1, <3>2, <1>t, Rests, SettledRests
  <2>2. CASE eng.pc = "settle-protect" /\ Goto("settled")
    <3>1. eng'.pc = "settled" /\ eng'.op = eng.op
      BY <2>2, <1>t DEF Goto, EngType
    <3>2. ctx.opened /\ ctx.q > 0 /\ ctx.q \in Nat
      BY <2>2, <1>f, <1>t, LegacyFacts DEF SettledFits, CtxType
    <3>3. ctx'.q # 0
      BY <2>c, <3>2
    <3>4. eng.op # "book" => EntryOver' /\ ctx.st # "ENTRY_PENDING"
      BY <2>2, <1>m, <1>f, OverFacts DEF Over, SettledFits
    <3> QED BY <2>c, <3>1, <3>3, <3>4 DEF SettledFits, Over
  <2>3. CASE eng.pc = "settle-protect" /\ Goto("settle-place")
    <3>1. eng'.pc = "settle-place" /\ eng'.op = eng.op
      BY <2>3, <1>t DEF Goto, EngType
    <3>2. ctx.opened /\ ctx.q > 0
      BY <2>3, <1>f DEF SettledFits
    <3>4. eng.op # "book" => EntryOver' /\ ctx.st # "ENTRY_PENDING"
      BY <2>3, <1>m, <1>f, OverFacts DEF Over, SettledFits
    <3> QED BY <2>c, <3>1, <3>2, <3>4 DEF SettledFits, Over
  <2>4. CASE eng.pc = "protect" /\ Goto("place")
    <3>1. eng'.pc = "place" /\ eng'.op = eng.op
      BY <2>4, <1>t DEF Goto, EngType
    <3>2. CASE eng.op = "market"
      <4>1. Over(eng.pc, eng.op)
        BY <2>4, <3>2 DEF Over
      <4> QED BY <2>c, <3>1, <4>1, <1>m, <1>f, StaysSettled DEF SettledFits
    <3>3. CASE eng.op # "market"
      BY <3>1, <3>3, NotSettled DEF OverPcs
    <3> QED BY <3>2, <3>3
  <2>5. CASE Abort
    BY <2>5, <1>t, Rests, SettledRests
  <2> QED BY <1>5, <2>1, <2>2, <2>3, <2>4, <2>5 DEF Protect
<1>6. CASE PlaceStop
  <2>0. ctx' = ctx \/ ctx' = [ctx EXCEPT !.sl = Target]
    BY <1>6 DEF PlaceStop
  <2>c. ctx'.st = ctx.st /\ ctx'.q = ctx.q /\ ctx'.opened = ctx.opened
    BY <2>0, <1>t DEF CtxType
  <2>1. CASE eng.pc = "place" /\ AfterStop
    <3>0. eng.op \in OpsAt("protect")
      BY <2>1, <1>o DEF OpsAt
    <3>1. Switch("intent", "exit") \/ End \/ EndPass \/ Done
      BY <2>1, <3>0, AfterStopCases
    <3>2. CASE Switch("intent", "exit")
      BY <3>2, <1>t, NotSettled DEF Switch, EngType, OverPcs
    <3> QED BY <3>1, <3>2, <1>t, Rests, SettledRests
  <2>2. CASE eng.pc = "settle-place" /\ Goto("settled")
    <3>1. eng'.pc = "settled" /\ eng'.op = eng.op
      BY <2>2, <1>t DEF Goto, EngType
    <3>2. ctx.opened /\ ctx.q > 0 /\ ctx.q \in Nat
      BY <2>2, <1>f, <1>t, LegacyFacts DEF SettledFits, CtxType
    <3>3. ctx'.q # 0
      BY <2>c, <3>2
    <3>4. eng.op # "book" => EntryOver' /\ ctx.st # "ENTRY_PENDING"
      BY <2>2, <1>m, <1>f, OverFacts DEF Over, SettledFits
    <3> QED BY <2>c, <3>1, <3>3, <3>4 DEF SettledFits, Over
  <2>3. CASE Goto("emergency") /\ (eng.pc = "settle-place" \/ eng.op = "market")
    <3>1. eng'.pc = "emergency" /\ eng'.op = eng.op
      BY <2>3, <1>t DEF Goto, EngType
    <3>2. CASE eng.op = "market"
      <4>1. Over(eng.pc, eng.op)
        BY <1>6, <2>3, <3>2, <1>o DEF PlaceStop, Over, OpsAt, SignalOps
      <4> QED BY <2>c, <3>1, <4>1, <1>m, <1>f, StaysSettled DEF SettledFits
    <3>3. CASE eng.op # "market"
      BY <3>1, <3>3, NotSettled DEF OverPcs
    <3> QED BY <3>2, <3>3
  <2>5. CASE Abort
    BY <2>5, <1>t, Rests, SettledRests
  <2> QED BY <1>6, <2>1, <2>2, <2>3, <2>5 DEF PlaceStop
<1>7. CASE Emergency
  <2>1. eng'.pc \notin OverPcs /\ (eng'.pc \in {"protect", "place", "emergency"} => eng'.op # "market")
    BY <1>7, <1>t, <1>o, Rests DEF Emergency, Take, Goto, Switch, EngType, OpsAt, SignalOps,
       OverPcs
  <2> QED BY <2>1, NotSettled
<1>8. CASE Latch
  <2>0. eng.pc = "latch" /\ mkt' = mkt /\ eng.op \in SignalOps \cup {"expire", "gone", "shrunk"}
    BY <1>8, <1>o DEF Latch, OpsAt
  <2>9. (EntryOver' <=> EntryOver) /\ (Closing' <=> Closing)
    BY <2>0 DEF EntryOver, Closing
  <2>c. ctx'.st = ctx.st /\ ctx'.q = ctx.q
    BY <1>8, <1>t DEF Latch, CtxType
  <2>1. CASE Goto("status")
    BY <2>1, <1>t, NotSettled DEF Goto, EngType, OverPcs
  <2>2. CASE ~ ctx.working /\ ctx.st # "ENTRY_PENDING" /\ Goto("settled")
    <3>1. eng'.pc = "settled"
      BY <2>2, <1>t DEF Goto, EngType
    <3>2. ctx.st \notin Early
      BY <2>0, <1>f DEF EarlyFits, SignalOps
    <3>3. ctx.st \in Holding \cup Terminal
      BY <2>2, <3>2, <1>t DEF CtxType, States, Early
    <3>4. EntryOver /\ (ctx.q = 0 => Closing)
      BY <2>2, <3>3, <1>f DEF StateFits
    <3> QED BY <2>2, <2>9, <2>c, <3>1, <3>4 DEF SettledFits
  <2> QED BY <1>8, <2>1, <2>2 DEF Latch
<1>9. CASE EntryStatus
  <2>0. ctx.st \notin Early /\ mkt.ent # "flying" /\ mkt.ent \in {"none", "flying", "working", "over"}
        /\ mkt' = mkt /\ mkt.pos <= mkt.fill /\ mkt.pos \in Nat /\ mkt.fill \in Nat
    <3>1. mkt.fill \in Nat /\ mkt.ent \in {"none", "flying", "working", "over"}
      BY LegacyFacts DEF IInv, Typed, MktType
    <3> QED BY <1>9, <3>1, <1>o, <1>f, SeenFacts DEF EntryStatus, OpsAt, SignalOps, PassOps,
        EarlyFits, Early, Keep
  <2>9. (EntryOver' <=> EntryOver) /\ (Closing' <=> Closing)
    BY <2>0 DEF EntryOver, Closing
  <2>1. CASE Abort
    BY <2>1, <1>t, Rests, SettledRests
  <2>2. CASE Goto("cancel")
    BY <2>2, <1>t, NotSettled DEF Goto, EngType, OverPcs
  <2>3. ASSUME mkt.ent # "working" \/ eng.op = "book", SettleEntry(mkt.ent # "working"), ~ Abort PROVE SettledFits'
    <3>1. CASE mkt.fill = 0
      <4>0. mkt.pos = 0
        BY <2>0, <3>1
      <4>1. eng'.pc = "settled" /\ eng'.op = eng.op
        BY <2>3, <3>1, <1>t DEF SettleEntry, Goto, EngType
      <4>2. ctx'.st = "CANCELLED" \/ (ctx' = ctx /\ (mkt.ent = "working" \/ ctx.opened))
        BY <2>3, <3>1, <1>t DEF SettleEntry, CtxType
      <4>3. eng.op # "book" => EntryOver
        BY <2>0, <2>3 DEF EntryOver
      <4>4. eng.op # "book" => ctx'.st # "ENTRY_PENDING"
        BY <2>3, <4>2, <1>f DEF EarlyFits
      <4> QED BY <2>9, <4>0, <4>1, <4>3, <4>4 DEF SettledFits, Over, Closing
    <3>2. CASE mkt.fill # 0
      <4> DEFINE q == IF ctx.opened THEN Seen ELSE mkt.fill
      <4>1. /\ ctx' = [ctx EXCEPT !.st = "OPEN", !.working = ~(mkt.ent # "working"), !.opened = TRUE, !.q = q]
            /\ Goto(IF ctx'.q > 0 THEN "settle-protect" ELSE "settled")
        BY <2>3, <3>2 DEF SettleEntry
      <4>2. q \in Nat /\ (q = 0 => mkt.pos = 0)
        <5>1. Seen \in Nat
          BY SeenFacts, LegacyFacts
        <5> QED BY <2>0, <3>2, <5>1, SeenFacts
      <4> HIDE DEF q
      <4>3. ctx'.st = "OPEN" /\ ctx'.opened /\ ctx'.q = q
        BY <4>1, <1>t DEF CtxType
      <4>4. /\ eng'.op = eng.op
            /\ (eng'.pc = "settle-protect" /\ q > 0) \/ (eng'.pc = "settled" /\ ~ (q > 0))
        <5> DEFINE pc == IF q > 0 THEN "settle-protect" ELSE "settled"
        <5>1. Goto(pc)
          BY <4>1, <4>3
        <5>2. (pc = "settle-protect" /\ q > 0) \/ (pc = "settled" /\ ~ (q > 0))
          OBVIOUS
        <5> HIDE DEF pc
        <5>3. eng'.op = eng.op /\ eng'.pc = pc
          BY <5>1, <1>t DEF Goto, EngType
        <5> QED BY <5>2, <5>3
      <4>5. eng.op # "book" => EntryOver
        BY <2>0, <2>3 DEF EntryOver
      <4>6. q = 0 => Closing
        BY <4>2 DEF Closing
      <4> QED BY <2>9, <4>3, <4>4, <4>5, <4>6 DEF SettledFits, Over
    <3> QED BY <3>1, <3>2
  <2> QED BY <1>9, <2>1, <2>2, <2>3 DEF EntryStatus
<1>10. CASE CancelEntry
  <2>1. eng'.pc \notin OverPcs /\ (eng'.pc \in {"protect", "place", "emergency"} => eng'.op # "market")
    BY <1>10, <1>t, <1>o, Rests DEF CancelEntry, Take, Goto, Switch, EngType, OpsAt, SignalOps,
       OverPcs
  <2> QED BY <2>1, NotSettled
<1>11. CASE EntrySettled
  <2>0. eng.pc = "settled" /\ eng.op \in OpsAt("settled") /\ AfterEntry
    BY <1>11, <1>o DEF EntrySettled
  <2>1. \/ eng.op # "book" /\ ctx' = ctx /\ \E pc \in {"read", "moveread", "regone", "reconciled"} : Goto(pc)
        \/ Goto("booked")
        \/ eng.op \in {"cancel", "cancelled-exit"} /\ Goto("protect")
        \/ EndPass \/ Done
    BY <2>0, AfterEntryCases
  <2>2. CASE eng.op # "book" /\ ctx' = ctx /\ \E pc \in {"read", "moveread", "regone", "reconciled"} : Goto(pc)
    <3>1. Over(eng.pc, eng.op)
      BY <2>0, <2>2 DEF Over
    <3>2. eng'.pc \in {"read", "moveread", "regone", "reconciled"}
      BY <2>2, <1>t DEF Goto, EngType
    <3> QED BY <2>2, <3>1, <3>2, <1>m, <1>f, StaysSettled DEF SettledFits
  <2>3. CASE Goto("booked")
    BY <2>3, <1>t, NotSettled DEF Goto, EngType, OverPcs
  <2>4. CASE eng.op \in {"cancel", "cancelled-exit"} /\ Goto("protect")
    BY <2>4, <1>t, NotSettled DEF Goto, EngType, OverPcs
  <2> QED BY <2>1, <2>2, <2>3, <2>4, <1>t, Rests, SettledRests
<1>12. CASE Intent
  <2>1. eng'.pc \notin OverPcs /\ (eng'.pc \in {"protect", "place", "emergency"} => eng'.op # "market")
    BY <1>12, <1>t, <1>o, Rests DEF Intent, Take, Goto, Switch, EngType, OpsAt, SignalOps,
       OverPcs
  <2> QED BY <2>1, NotSettled
<1>13. CASE ReadPosition
  <2>1. CASE ctx' = ctx /\ eng' = [eng EXCEPT !.pc = "send", !.n = Seen]
    <3>1. Over(eng.pc, eng.op)
      BY <1>13, <1>o DEF ReadPosition, Over, OpsAt
    <3>2. eng'.pc = "send"
      BY <2>1, <1>t DEF EngType
    <3> QED BY <2>1, <3>1, <3>2, <1>m, <1>f, StaysSettled DEF SettledFits
  <2> QED BY <1>13, <2>1, <1>t, Rests, SettledRests DEF ReadPosition
<1>14. CASE SendExit
  <2>1. CASE ctx' = ctx /\ Goto("sent")
    <3>1. Over(eng.pc, eng.op)
      BY <1>14, <1>o DEF SendExit, Over, OpsAt
    <3>2. eng'.pc = "sent"
      BY <2>1, <1>t DEF Goto, EngType
    <3> QED BY <2>1, <3>1, <3>2, <1>m, <1>f, StaysSettled DEF SettledFits
  <2> QED BY <1>14, <2>1, <1>t, Rests, SettledRests DEF SendExit
<1>15. CASE ExitSent
  <2>1. CASE ctx' = ctx /\ Goto("reread")
    <3>1. Over(eng.pc, eng.op)
      BY <1>15, <1>o DEF ExitSent, Over, OpsAt
    <3>2. eng'.pc = "reread"
      BY <2>1, <1>t DEF Goto, EngType
    <3> QED BY <2>1, <3>1, <3>2, <1>m, <1>f, StaysSettled DEF SettledFits
  <2>2. CASE Goto("protect")
    <3>1. eng'.pc = "protect" /\ eng'.op = "exit"
      BY <1>15, <2>2, <1>t, <1>o DEF ExitSent, Goto, EngType, OpsAt
    <3> QED BY <3>1, NotSettled DEF OverPcs
  <2> QED BY <1>15, <2>1, <2>2 DEF ExitSent
<1>16. CASE ReReadPosition
  <2>1. eng'.pc \notin OverPcs /\ (eng'.pc \in {"protect", "place", "emergency"} => eng'.op # "market")
    BY <1>16, <1>t, <1>o, Rests DEF ReReadPosition, Take, Goto, Switch, EngType, OpsAt,
       SignalOps, OverPcs
  <2> QED BY <2>1, NotSettled
<1>17. CASE MoveStop
  <2>1. eng'.pc \notin OverPcs /\ (eng'.pc \in {"protect", "place", "emergency"} => eng'.op # "market")
    BY <1>17, <1>t, <1>o, Rests DEF MoveStop, Take, Goto, Switch, EngType, OpsAt, SignalOps,
       OverPcs
  <2> QED BY <2>1, NotSettled
<1>18. CASE Recover
  <2>1. eng'.pc \in {"intent", "recover", "latch", "recheck", "pass"}
    BY <1>18, <1>t DEF Recover, Goto, EngType
  <2> QED BY <2>1, NotSettled DEF OverPcs
<1>19. CASE Dispatch
  <2>1. eng'.pc \notin OverPcs /\ (eng'.pc \in {"protect", "place", "emergency"} => eng'.op # "market")
    BY <1>19, <1>t, <1>o, Rests DEF Dispatch, Take, Goto, Switch, EngType, OpsAt, SignalOps,
       OverPcs
  <2> QED BY <2>1, NotSettled
<1>20. CASE Booked
  <2>1. eng'.pc \notin OverPcs /\ (eng'.pc \in {"protect", "place", "emergency"} => eng'.op # "market")
    BY <1>20, <1>t, <1>o, Rests DEF Booked, Take, Goto, Switch, EngType, OpsAt, SignalOps,
       OverPcs
  <2> QED BY <2>1, NotSettled
<1>21. CASE Route
  <2>1. CASE ctx.st = "OPEN" /\ Switch("openread", "guard")
    BY <2>1, <1>t, NotSettled DEF Switch, EngType, OverPcs
  <2>2. CASE ctx.st = "CLOSE_PENDING" /\ Switch("pendread", "guard")
    <3>1. eng'.pc = "pendread" /\ ctx' = ctx /\ mkt' = mkt
      BY <1>21, <2>2, <1>t DEF Route, Switch, EngType, Keep
    <3>2. EntryOver
      BY <2>2, <1>f DEF StateFits
    <3> QED BY <2>2, <3>1, <3>2 DEF SettledFits, EntryOver
  <2> QED BY <1>21, <2>1, <2>2, <1>t, Rests, SettledRests DEF Route
<1>22. CASE OpenRead
  <2>1. eng'.pc \notin OverPcs /\ (eng'.pc \in {"protect", "place", "emergency"} => eng'.op # "market")
    BY <1>22, <1>t, <1>o, Rests DEF OpenRead, Take, Goto, Switch, EngType, OpsAt, SignalOps,
       OverPcs
  <2> QED BY <2>1, NotSettled
<1>23. CASE Reconciled
  <2>1. eng'.pc \notin OverPcs /\ (eng'.pc \in {"protect", "place", "emergency"} => eng'.op # "market")
    BY <1>23, <1>t, <1>o, Rests DEF Reconciled, Take, Goto, Switch, EngType, OpsAt, SignalOps,
       OverPcs
  <2> QED BY <2>1, NotSettled
<1>24. CASE Gone
  <2>1. eng'.pc \notin OverPcs /\ (eng'.pc \in {"protect", "place", "emergency"} => eng'.op # "market")
    BY <1>24, <1>t, <1>o, Rests DEF Gone, Take, Goto, Switch, EngType, OpsAt, SignalOps, OverPcs
  <2> QED BY <2>1, NotSettled
<1>25. CASE PendingRead
  <2>1. eng'.pc \notin OverPcs /\ (eng'.pc \in {"protect", "place", "emergency"} => eng'.op # "market")
    BY <1>25, <1>t, <1>o, Rests DEF PendingRead, Take, Goto, Switch, EngType, OpsAt, SignalOps,
       OverPcs
  <2> QED BY <2>1, NotSettled
<1>26. CASE Recheck
  <2>1. eng'.pc \notin OverPcs /\ (eng'.pc \in {"protect", "place", "emergency"} => eng'.op # "market")
    BY <1>26, <1>t, <1>o, Rests DEF Recheck, Take, Goto, Switch, EngType, OpsAt, SignalOps,
       OverPcs
  <2> QED BY <2>1, NotSettled
<1>27. CASE StartPass
  <2>1. eng'.pc \notin OverPcs /\ (eng'.pc \in {"protect", "place", "emergency"} => eng'.op # "market")
    BY <1>27, <1>t, <1>o, Rests DEF StartPass, Take, Goto, Switch, EngType, OpsAt, SignalOps,
       OverPcs
  <2> QED BY <2>1, NotSettled
<1>28. CASE EntryFills
  <2>1. ctx' = ctx /\ eng' = eng
    BY <1>28 DEF EntryFills, VenueOnly
  <2> QED BY <2>1, <1>m, SettledStays
<1>29. CASE ExitExecutes
  <2>1. ctx' = ctx /\ eng' = eng
    BY <1>29 DEF ExitExecutes, VenueOnly
  <2> QED BY <2>1, <1>m, SettledStays
<1>30. CASE StopFires
  <2>1. ctx' = ctx /\ eng' = eng
    BY <1>30 DEF StopFires, VenueOnly
  <2> QED BY <2>1, <1>m, SettledStays
<1>31. CASE OthersTrade
  <2>1. ctx' = ctx /\ eng' = eng
    BY <1>31 DEF OthersTrade, VenueOnly
  <2> QED BY <2>1, <1>m, SettledStays
<1>32. CASE Crash
  <2>1. eng'.pc \notin OverPcs /\ (eng'.pc \in {"protect", "place", "emergency"} => eng'.op # "market")
    BY <1>32, <1>t, <1>o, Rests DEF Crash, Take, Goto, Switch, EngType, OpsAt, SignalOps,
       OverPcs
  <2> QED BY <2>1, NotSettled
<1>33. ASSUME NEW s \in Exits, TakeExit(s) PROVE SettledFits'
  <2>1. eng'.pc \notin OverPcs /\ (eng'.pc \in {"protect", "place", "emergency"} => eng'.op # "market")
    BY <1>33, <1>t, <1>o, Rests DEF TakeExit, Take, Goto, Switch, EngType, OpsAt, SignalOps,
       OverPcs
  <2> QED BY <2>1, NotSettled
<1>34. ASSUME NEW s \in Cancels, TakeCancel(s) PROVE SettledFits'
  <2>1. eng'.pc \notin OverPcs /\ (eng'.pc \in {"protect", "place", "emergency"} => eng'.op # "market")
    BY <1>34, <1>t, <1>o, Rests DEF TakeCancel, Take, Goto, Switch, EngType, OpsAt, SignalOps,
       OverPcs
  <2> QED BY <2>1, NotSettled
<1>35. ASSUME NEW s \in Moves, TakeMove(s) PROVE SettledFits'
  <2>1. eng'.pc \notin OverPcs /\ (eng'.pc \in {"protect", "place", "emergency"} => eng'.op # "market")
    BY <1>35, <1>t, <1>o, Rests DEF TakeMove, Take, Goto, Switch, EngType, OpsAt, SignalOps,
       OverPcs
  <2> QED BY <2>1, NotSettled
<1>36. CASE UNCHANGED vars
  BY <1>36, <1>m, SettledStays DEF vars
<1> QED BY <1>1, <1>2, <1>3, <1>4, <1>5, <1>6, <1>7, <1>8, <1>9, <1>10, <1>11, <1>12, <1>13,
           <1>14, <1>15, <1>16, <1>17, <1>18, <1>19, <1>20, <1>21, <1>22, <1>23, <1>24, <1>25,
           <1>26, <1>27, <1>28, <1>29, <1>30, <1>31, <1>32, <1>33, <1>34, <1>35, <1>36 DEF Next,
           Engine, Venue

LEMMA InitInv == LegacyAssumption /\ Init => IInv
<1> SUFFICES ASSUME LegacyAssumption, Init PROVE IInv
  OBVIOUS
<1>s. Size \in Nat /\ 0 \in 0..Size /\ 0 \in 0..Size + 1 /\ 0 \in Nat /\ 0 \in 0..1 /\ 0 \in 0..2 /\ 0 \in 0..3
      /\ 1 \in 1..2 /\ Size > 0
  BY DEF LegacyAssumption
<1>1. ctx = [st |-> "NONE", q |-> 0, opened |-> FALSE, working |-> FALSE,
             disabled |-> FALSE, sl |-> 1, submitting |-> FALSE] /\ ctx \in CtxType
  BY <1>s DEF Init, CtxType, States
<1>2. mkt.ent = "none" /\ mkt.fill = 0 /\ mkt.pos = 0 /\ mkt \in MktType
  BY <1>s DEF Init, MktType
<1>3. eng = [pc |-> "idle", op |-> "", sig |-> NoSig, pass |-> FALSE, left |-> {}, sw |-> FALSE, n |-> 0]
      /\ eng \in EngType
  BY <1>s DEF Init, EngType, Pcs, Ops
<1>4. rows \in [Exits -> RowStates] /\ sends \in [Exits -> 0..1] /\ (\A s \in Exits : sends[s] = 0)
      /\ act \in [Signals -> {"new", "open", "done"}] /\ (\A s \in Signals : act[s] = "new")
      /\ miss \in BOOLEAN /\ watch \in 0..3
  BY <1>s DEF Init, RowStates
<1>5. Typed
  BY <1>1, <1>2, <1>3, <1>4 DEF Typed
<1>6. EngFits
  BY <1>3 DEF EngFits, OpsAt, SignalOps, PassOps
<1>7. SendsFit
  BY <1>3, <1>4 DEF SendsFit
<1>8. EarlyFits
  <2>1. ctx.st = "NONE" /\ ~ ctx.opened /\ ~ ctx.working
    BY <1>1
  <2>2. eng.pc = "idle" /\ eng.op = "" /\ eng.left = {}
    BY <1>3
  <2>3. mkt.ent = "none" /\ mkt.fill = 0 /\ mkt.pos <= mkt.fill
    BY <1>2
  <2>4. \A s \in Signals : act[s] = "new"
    BY <1>4
  <2> QED BY <2>1, <2>2, <2>3, <2>4 DEF EarlyFits, Early
<1>9. StateFits /\ SettledFits
  BY <1>1, <1>3 DEF StateFits, SettledFits, Over, Terminal, Holding
<1> QED BY <1>5, <1>6, <1>7, <1>8, <1>9 DEF IInv

LEMMA Inductive == IInv /\ [Next]_vars => IInv'
<1> SUFFICES ASSUME IInv, [Next]_vars PROVE IInv'
  OBVIOUS
<1>1. Typed'
  BY MktStep, EngStep, TypeStep, SendStep DEF MktMove, EngGoes, TypesMove, SendsMove, Typed
<1>2. EngFits' /\ SendsFit' /\ EarlyFits' /\ StateFits' /\ SettledFits'
  BY EngStep, SendStep, EarlyStep, StateStep, SettledStep DEF EngGoes, SendsMove
<1>3. LegacyAssumption'
  BY DEF IInv, LegacyAssumption
<1> QED BY <1>1, <1>2, <1>3 DEF IInv

(* The invariant of the legacy trade: where each operation may be, what    *)
(* the row of an exit says of its order, and what the context says of the  *)
(* entry and the position on the venue.                                    *)
THEOREM Invariance == LegacyAssumption /\ Spec => []IInv
BY InitInv, Inductive, PTL DEF Spec

(* The invariant has the types in it.                                      *)
LEMMA IsTyped == IInv => TypeOK
<1> SUFFICES ASSUME IInv PROVE TypeOK
  OBVIOUS
<1>1. ctx \in CtxType /\ mkt \in MktType /\ rows \in [Exits -> RowStates] /\ watch \in 0..3
  BY DEF IInv, Typed
<1>2. eng.pc = "idle" => ~ eng.pass /\ eng.sig = NoSig /\ eng.left = {}
  BY DEF IInv, EngFits, OpsAt, SignalOps
<1> QED BY <1>1, <1>2 DEF TypeOK, CtxType, States, MktType, RowStates

(* The context, the rows, the venue and the engine stay of their types,    *)
(* whatever fails and whenever the process dies.                           *)
THEOREM TypeCorrect == LegacyAssumption /\ Spec => []TypeOK
BY IsTyped, Invariance, PTL

(* What the invariant means for the exits and the end of the trade.        *)
LEMMA IsSafe == IInv => ExitSentOnce /\ EndedIsOver
<1>1. ASSUME IInv PROVE ExitSentOnce
  <2> SUFFICES ASSUME NEW s \in Exits PROVE sends[s] <= 1
    BY DEF ExitSentOnce
  <2>1. sends[s] \in 0..1
    BY <1>1 DEF IInv, Typed
  <2> QED BY <2>1
<1>2. IInv => EndedIsOver
  BY DEF IInv, StateFits, EndedIsOver, Closing
<1> QED BY <1>1, <1>2

(* The exit of a signal is sent at most once: the row leaves INTENT before *)
(* the order goes out, and no recovery sends behind any other row.         *)
THEOREM SentOnce == LegacyAssumption /\ Spec => []ExitSentOnce
BY IsSafe, Invariance, PTL

(* A trade that ended left no entry order behind, and no position that is  *)
(* not being closed.                                                       *)
THEOREM Ended == LegacyAssumption /\ Spec => []EndedIsOver
BY IsSafe, Invariance, PTL

(* Only the placement of another stop takes the last one from a position. *)
LEMMA StopStep == IInv /\ [Next]_vars => KeepsLastStop
<1> SUFFICES ASSUME IInv, [Next]_vars PROVE KeepsLastStop
  OBVIOUS
<1>m. mkt \in MktType /\ ctx \in CtxType /\ Size \in Nat
  BY LegacyFacts DEF IInv, Typed
<1>z. 0 \in 0..Size /\ 0 \in 0..1 /\ 0 \in 0..2
  BY <1>m
<1>1. CASE Open
  <2>1. mkt' = mkt
    BY <1>1 DEF Open, vars, Take, Keep
  <2> QED BY <2>1 DEF KeepsLastStop
<1>2. CASE Announce
  <2>1. mkt' = mkt
    BY <1>2 DEF Announce, vars, Take, Keep
  <2> QED BY <2>1 DEF KeepsLastStop
<1>3. CASE SubmitEntry
  <2>9. mkt'.stop = mkt.stop
    BY <1>3, <1>m DEF SubmitEntry, MktType
  <2> QED BY <2>9 DEF KeepsLastStop
<1>4. CASE Accepted
  <2>1. mkt' = mkt
    BY <1>4 DEF Accepted, vars, Take, Keep
  <2> QED BY <2>1 DEF KeepsLastStop
<1>5. CASE Protect
  <2>1. CASE mkt' = mkt
    BY <2>1 DEF KeepsLastStop
  <2>2. CASE Goto(IF eng.pc = "protect" THEN "place" ELSE "settle-place")
    <3>1. eng'.pc \in {"place", "settle-place"}
      BY <2>2 DEF Goto, IInv, Typed, EngType
    <3> QED BY <3>1 DEF KeepsLastStop
  <2> QED BY <1>5, <2>1, <2>2 DEF Protect
<1>6. CASE PlaceStop
  <2>1. CASE mkt' = mkt
    BY <2>1 DEF KeepsLastStop
  <2>2. CASE mkt' = [mkt EXCEPT !.stop = Target]
    <3>1. Target \in 1..2
      BY <1>m DEF Target, CtxType
    <3>2. mkt'.stop = Target
      BY <2>2, <1>m DEF MktType
    <3>3. mkt'.stop # 0
      <4> HIDE DEF Target
      <4> QED BY <3>1, <3>2
    <3> QED BY <3>3 DEF KeepsLastStop
  <2> QED BY <1>6, <2>1, <2>2 DEF PlaceStop
<1>7. CASE Emergency
  <2>9. mkt'.stop = mkt.stop
    <3> DEFINE m == [mkt EXCEPT !.all = TRUE, !.ent = IF eng.op # "market" /\ @ = "working" THEN "over" ELSE @]
    <3>1. mkt' = mkt \/ mkt' = Settled(m)
      BY <1>7 DEF Emergency
    <3>2. m \in MktType /\ m.stop = mkt.stop
      BY <1>m DEF MktType
    <3> HIDE DEF m
    <3> QED BY <3>1, <3>2, <1>m, SettledFacts
  <2> QED BY <2>9 DEF KeepsLastStop
<1>8. CASE Latch
  <2>1. mkt' = mkt
    BY <1>8 DEF Latch, vars, Take, Keep
  <2> QED BY <2>1 DEF KeepsLastStop
<1>9. CASE EntryStatus
  <2>1. mkt' = mkt
    BY <1>9 DEF EntryStatus, vars, Take, Keep
  <2> QED BY <2>1 DEF KeepsLastStop
<1>10. CASE CancelEntry
  <2>9. mkt'.stop = mkt.stop
    BY <1>10, <1>m DEF CancelEntry, MktType
  <2> QED BY <2>9 DEF KeepsLastStop
<1>11. CASE EntrySettled
  <2>1. mkt' = mkt
    BY <1>11 DEF EntrySettled, vars, Take, Keep
  <2> QED BY <2>1 DEF KeepsLastStop
<1>12. CASE Intent
  <2>1. mkt' = mkt
    BY <1>12 DEF Intent, vars, Take, Keep
  <2> QED BY <2>1 DEF KeepsLastStop
<1>13. CASE ReadPosition
  <2>1. Seen = 0 \/ mkt' = mkt
    BY <1>13 DEF ReadPosition
  <2>2. Seen = 0 => mkt.pos = 0
    BY SeenFacts
  <2> QED BY <2>1, <2>2 DEF KeepsLastStop
<1>14. CASE SendExit
  <2>9. mkt'.stop = mkt.stop
    <3> DEFINE m == [mkt EXCEPT !.fly[eng.sig] = ExitQty]
    <3>1. mkt' = mkt \/ mkt' = Settled(m)
      BY <1>14 DEF SendExit
    <3>0. ExitQty \in Nat
      BY LegacyFacts DEF ExitQty, EngType, IInv, Typed
    <3>2. m \in MktType /\ m.stop = mkt.stop
      <4> HIDE DEF ExitQty
      <4> QED BY <3>0, <1>m DEF MktType
    <3> HIDE DEF m
    <3> QED BY <3>1, <3>2, <1>m, SettledFacts
  <2> QED BY <2>9 DEF KeepsLastStop
<1>15. CASE ExitSent
  <2>1. mkt' = mkt
    BY <1>15 DEF ExitSent, vars, Take, Keep
  <2> QED BY <2>1 DEF KeepsLastStop
<1>16. CASE ReReadPosition
  <2>1. Seen = 0 \/ mkt' = mkt
    BY <1>16 DEF ReReadPosition
  <2>2. Seen = 0 => mkt.pos = 0
    BY SeenFacts
  <2> QED BY <2>1, <2>2 DEF KeepsLastStop
<1>17. CASE MoveStop
  <2>1. mkt' = mkt
    BY <1>17 DEF MoveStop, vars, Take, Keep
  <2> QED BY <2>1 DEF KeepsLastStop
<1>18. CASE Recover
  <2>1. mkt' = mkt
    BY <1>18 DEF Recover, vars, Take, Keep
  <2> QED BY <2>1 DEF KeepsLastStop
<1>19. CASE Dispatch
  <2>1. mkt' = mkt
    BY <1>19 DEF Dispatch, vars, Take, Keep
  <2> QED BY <2>1 DEF KeepsLastStop
<1>20. CASE Booked
  <2>1. mkt' = mkt
    BY <1>20 DEF Booked, vars, Take, Keep
  <2> QED BY <2>1 DEF KeepsLastStop
<1>21. CASE Route
  <2>1. mkt' = mkt
    BY <1>21 DEF Route, vars, Take, Keep
  <2> QED BY <2>1 DEF KeepsLastStop
<1>22. CASE OpenRead
  <2>1. mkt' = mkt
    BY <1>22 DEF OpenRead, vars, Take, Keep
  <2> QED BY <2>1 DEF KeepsLastStop
<1>23. CASE Reconciled
  <2>1. mkt' = mkt
    BY <1>23 DEF Reconciled, vars, Take, Keep
  <2> QED BY <2>1 DEF KeepsLastStop
<1>24. CASE Gone
  <2>1. Seen = 0 \/ mkt' = mkt
    BY <1>24 DEF Gone
  <2>2. Seen = 0 => mkt.pos = 0
    BY SeenFacts
  <2> QED BY <2>1, <2>2 DEF KeepsLastStop
<1>25. CASE PendingRead
  <2>1. Seen = 0 \/ mkt' = mkt
    BY <1>25 DEF PendingRead
  <2>2. Seen = 0 => mkt.pos = 0
    BY SeenFacts
  <2> QED BY <2>1, <2>2 DEF KeepsLastStop
<1>26. CASE Recheck
  <2>1. mkt' = mkt
    BY <1>26 DEF Recheck, vars, Take, Keep
  <2> QED BY <2>1 DEF KeepsLastStop
<1>27. CASE StartPass
  <2>1. mkt' = mkt
    BY <1>27 DEF StartPass, vars, Take, Keep
  <2> QED BY <2>1 DEF KeepsLastStop
<1>28. CASE EntryFills
  <2>9. mkt'.stop = mkt.stop
    BY <1>28, <1>m DEF EntryFills, MktType
  <2> QED BY <2>9 DEF KeepsLastStop
<1>29. CASE ExitExecutes
  <2>9. mkt'.stop = mkt.stop
    <3>1. ASSUME NEW s \in Exits, mkt' = Sold([mkt EXCEPT !.fly[s] = 0], mkt.fly[s]) PROVE mkt'.stop = mkt.stop
      <4> DEFINE m == [mkt EXCEPT !.fly[s] = 0]
      <4>1. m \in MktType /\ m.stop = mkt.stop /\ mkt.fly[s] \in Nat
        BY <1>m DEF MktType
      <4>2. mkt' = Sold(m, mkt.fly[s])
        BY <3>1
      <4> HIDE DEF m
      <4> QED BY <4>1, <4>2, <1>m, SoldFacts
    <3>2. CASE mkt' = Settled([mkt EXCEPT !.pos = 0, !.alien = 0, !.all = FALSE])
      <4> DEFINE m == [mkt EXCEPT !.pos = 0, !.alien = 0, !.all = FALSE]
      <4>1. m \in MktType /\ m.stop = mkt.stop
        BY <1>m, <1>z DEF MktType
      <4>2. mkt' = Settled(m)
        BY <3>2
      <4> HIDE DEF m
      <4> QED BY <4>1, <4>2, <1>m, SettledFacts
    <3> QED BY <1>29, <3>1, <3>2 DEF ExitExecutes
  <2> QED BY <2>9 DEF KeepsLastStop
<1>30. CASE StopFires
  <2> DEFINE m == [mkt EXCEPT !.pos = 0, !.stop = 0]
  <2>1. m \in MktType /\ m.pos = 0
    BY <1>m, <1>z DEF MktType
  <2>2. mkt' = Settled(m)
    BY <1>30 DEF StopFires
  <2> HIDE DEF m
  <2>3. mkt'.pos = 0
    BY <2>1, <2>2, <1>m, SettledFacts
  <2> QED BY <2>3 DEF KeepsLastStop
<1>31. CASE OthersTrade
  <2>9. mkt'.stop = mkt.stop
    <3>1. CASE mkt.pos > 0 /\ mkt' = Settled([mkt EXCEPT !.pos = @ - 1])
      <4> DEFINE m == [mkt EXCEPT !.pos = @ - 1]
      <4>1. m \in MktType /\ m.stop = mkt.stop
        BY <3>1, <1>m DEF MktType
      <4>2. mkt' = Settled(m)
        BY <3>1
      <4> HIDE DEF m
      <4> QED BY <4>1, <4>2, <1>m, SettledFacts
    <3>2. CASE mkt' = [mkt EXCEPT !.alien = 1]
      BY <3>2, <1>m DEF MktType
    <3> QED BY <1>31, <3>1, <3>2 DEF OthersTrade
  <2> QED BY <2>9 DEF KeepsLastStop
<1>32. CASE Crash
  <2>1. mkt' = mkt
    BY <1>32 DEF Crash, vars, Take, Keep
  <2> QED BY <2>1 DEF KeepsLastStop
<1>33. ASSUME NEW s \in Exits, TakeExit(s) PROVE KeepsLastStop
  <2>1. mkt' = mkt
    BY <1>33 DEF TakeExit, vars, Take, Keep
  <2> QED BY <2>1 DEF KeepsLastStop
<1>34. ASSUME NEW s \in Cancels, TakeCancel(s) PROVE KeepsLastStop
  <2>1. mkt' = mkt
    BY <1>34 DEF TakeCancel, vars, Take, Keep
  <2> QED BY <2>1 DEF KeepsLastStop
<1>35. ASSUME NEW s \in Moves, TakeMove(s) PROVE KeepsLastStop
  <2>1. mkt' = mkt
    BY <1>35 DEF TakeMove, vars, Take, Keep
  <2> QED BY <2>1 DEF KeepsLastStop
<1>36. CASE UNCHANGED vars
  <2>1. mkt' = mkt
    BY <1>36 DEF vars, vars, Take, Keep
  <2> QED BY <2>1 DEF KeepsLastStop
<1> QED BY <1>1, <1>2, <1>3, <1>4, <1>5, <1>6, <1>7, <1>8, <1>9, <1>10, <1>11, <1>12, <1>13,
           <1>14, <1>15, <1>16, <1>17, <1>18, <1>19, <1>20, <1>21, <1>22, <1>23, <1>24, <1>25,
           <1>26, <1>27, <1>28, <1>29, <1>30, <1>31, <1>32, <1>33, <1>34, <1>35, <1>36 DEF Next,
           Engine, Venue

(* Nothing takes the last stop from under a position, other than to place  *)
(* another one: a close that failed or is late keeps its stop.             *)
THEOREM StopBehind == LegacyAssumption /\ Spec => ClosedBehindStop
<1>1. IInv /\ [Next]_vars => [KeepsLastStop]_vars
  BY StopStep
<1> QED BY <1>1, Invariance, PTL DEF Spec, ClosedBehindStop
=============================================================================
