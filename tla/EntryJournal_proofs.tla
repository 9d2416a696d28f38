------------ MODULE EntryJournal_proofs -------------------------------------
(***************************************************************************)
(* Proofs about the entry, for one leg or two, of any size, and any        *)
(* foreign position, and about the entry and the signal journal as the run *)
(* EntryJournal puts them together.                                        *)
(*                                                                         *)
(* None of the entry's properties is inductive: that a latched entry sends *)
(* nothing rests on the copy of the latch a pass carries (PassKnows), that *)
(* a cancelled one leaves nothing behind on what the ledger knows of each  *)
(* leg (LegsFit), on every lot of the position being accounted for         *)
(* (PosBounded) and on what the end of the cancellation established for    *)
(* its caller (CancelKnows).  The journal's invariant is that of           *)
(* SignalJournal_proofs.                                                   *)
(***************************************************************************)
EXTENDS MCEntryJournal, TLAPS

-----------------------------------------------------------------------------
CtxType    == [state : {"ENTRY_PENDING", "OPEN", "CLOSED", "CANCELLED", "EXPIRED"},
               disabled : BOOLEAN, working : BOOLEAN, opened : BOOLEAN,
               qty : 0..MaxPos, tp : BOOLEAN, closing : BOOLEAN, stop : 0..MaxPos]
LegType    == [status : RowStatus, qty : 1..LegQty, exec : 0..LegQty]
MarketType == [net : {"none", "flight", "live", "over", "lost"}, exec : 0..LegQty]
HandType   == [at : Stages, mem : BOOLEAN, old : 0..MaxPos, failed : BOOLEAN,
               then : Stages \cup {""}, after : Stages]

Typed ==
    /\ ctx \in CtxType /\ leg \in [Legs -> LegType] /\ market \in [Legs -> MarketType]
    /\ pos \in 0..MaxPos
    /\ tpFilled \in BOOLEAN /\ late \in BOOLEAN /\ reduced \in BOOLEAN
    /\ added \in 0..Foreign
    /\ hand \in HandType

AllDone == \A i \in Legs : Done(i)

(* What a ledger row says of the venue's side of its leg.                  *)
Fits(row, m) ==
    /\ orderTerminal(row.status) => m.net \notin {"flight", "live"} /\ row.exec = m.exec
    /\ row.status = "PLANNED" => m.net = "none" /\ row.exec = 0
    /\ m.net = "none" => row.status \in {"PLANNED", "ABANDONED"}
    /\ m.net \in {"none", "flight", "lost"} => m.exec = 0
    /\ row.exec <= m.exec
    /\ row.status = "FILLED" => row.exec = row.qty

LegsFit == \A i \in Legs : Fits(leg[i], market[i])

(* What the stored context says of the legs and of the position.           *)
CtxFits ==
    /\ ~ ctx.working => AllDone
    /\ ctx.state \in {"CANCELLED", "EXPIRED"} =>
         /\ AllDone /\ pos <= added
         /\ Filled(leg) # 0 => ctx.state = "CANCELLED" /\ ctx.opened

(* The pass that goes on knows of the latch, and sends a leg only when it  *)
(* is not set and the stop covers the position.                            *)
Passing == {"query", "settle", "tp", "protect", "decide", "first", "second", "add", "finish"}
Sending == {"first", "second", "add"}

PassKnows ==
    /\ hand.at = "open" => ~ ctx.disabled /\ \A i \in Legs : leg[i].status = "PLANNED"
    /\ hand.at \in Passing /\ ctx.disabled => hand.mem
    /\ hand.at = "cancel" => hand.mem
    /\ hand.at \in Sending => ~ hand.mem
    /\ hand.at \in Sending \cup {"decide"} /\ ~ hand.mem => ctx.stop >= ctx.qty
    /\ hand.at \in {"settle", "protect"} /\ hand.after = "second" => ~ hand.mem
    /\ hand.at \in {"query", "tp"} => hand.after = "decide"
    /\ hand.after \in {"decide", "second", "finish"}
    /\ hand.at = "add" => Split /\ leg[2].status = "PLANNED" /\ leg[1].status = "FILLED"

(* The stages from which the entry is closed.                              *)
Callers == {"protect", "emergency", "risk", "decide", "finish", "idle", "exit", "track", "gone",
            "withdraw"}

(* What a caller of closeEntryEligibility finds when it goes on.           *)
CancelKnows ==
    /\ hand.at \in {"latch", "cancel"} =>
         /\ hand.then \in Callers
         /\ hand.then = "protect" => hand.after = "decide"
    /\ hand.at \in {"gone", "withdraw"} => AllDone
    /\ hand.at = "withdraw" =>
         /\ Filled(leg) # 0 => ctx.opened
         /\ ~ (ctx.qty > 0 /\ ctx.opened) => pos <= added

(* Every lot of the position was executed by a leg or is foreign.          *)
Executed   == market[1].exec + (IF Split THEN market[2].exec ELSE 0)
PosBounded == pos <= Executed + added

IInv ==
    /\ TypeOK
    /\ LegsFit /\ CtxFits /\ PassKnows /\ CancelKnows /\ PosBounded

-----------------------------------------------------------------------------
LEMMA LegsFacts ==
    /\ 1 \in Legs
    /\ Split => 2 \in Legs /\ Legs = {1, 2}
    /\ ~ Split => Legs = {1}
BY EntryAssumption DEF Legs

LEMMA BoundFacts ==
    /\ LegQty \in Nat \ {0} /\ MaxPos \in Nat /\ MaxPos = LegQty + LegQty + Foreign /\ Foreign \in Nat
BY EntryAssumption DEF MaxPos

LEMMA TypeFacts == TypeOK <=> Typed
BY DEF TypeOK, Typed, CtxType, LegType, MarketType, HandType

LEMMA StatusFacts ==
    /\ RowStatus = {"PLANNED", "SUBMITTING", "UNKNOWN", "REJECTED", "ABANDONED", "NEW",
                    "PARTIALLY_FILLED", "FILLED", "CANCELED", "EXPIRED"}
    /\ \A st : orderTerminal(st) <=> st \in {"REJECTED", "ABANDONED", "FILLED", "CANCELED", "EXPIRED"}
    /\ \A e : WorkingStatus(e) \in {"NEW", "PARTIALLY_FILLED"}
BY DEF RowStatus, orderTerminal, Uncertain, Voided, Working, Ended, WorkingStatus

(* Every conjunct holds of the committed plan.                             *)
LEMMA InitInv == Init => IInv
<1> SUFFICES ASSUME Init PROVE IInv
  OBVIOUS
<1>1. Typed
  <2>1. leg \in [Legs -> LegType] /\ market \in [Legs -> MarketType]
    BY BoundFacts, StatusFacts DEF Init, LegType, MarketType
  <2>2. ctx \in CtxType
    BY BoundFacts DEF Init, CtxType
  <2>5. hand \in HandType
    <3>1. Idle \in HandType
      BY BoundFacts DEF Idle, HandType, Stages
    <3> QED BY <3>1 DEF Init, HandType, Stages
  <2>3. pos \in 0..MaxPos /\ added \in 0..Foreign
    BY BoundFacts DEF Init
  <2>4. tpFilled \in BOOLEAN /\ late \in BOOLEAN /\ reduced \in BOOLEAN
    BY DEF Init
  <2> QED BY <2>1, <2>2, <2>3, <2>4, <2>5 DEF Typed
<1>2. LegsFit
  BY StatusFacts DEF Init, LegsFit, Fits
<1>3. CtxFits /\ PassKnows /\ CancelKnows
  BY DEF Init, CtxFits, PassKnows, CancelKnows, Passing, Sending, Idle
<1>4. PosBounded
  BY LegsFacts, EntryAssumption DEF Init, PosBounded, Executed
<1> QED BY <1>1, <1>2, <1>3, <1>4, TypeFacts DEF IInv

(* The venue's answer on a leg it was asked for fits what happened there.  *)
LEMMA AnsweredFacts ==
    ASSUME Typed, LegsFit, NEW i \in Legs, ~ Done(i), leg[i].status # "PLANNED",
           market[i].net # "flight"
    PROVE  /\ Answered(i) \in LegType /\ Answered(i).qty = leg[i].qty
           /\ Answered(i).status # "PLANNED"
           /\ Fits(Answered(i), market[i])
<1>1. leg[i] \in LegType /\ market[i] \in MarketType /\ Fits(leg[i], market[i])
  BY DEF Typed, LegsFit
<1>2. market[i].net \in {"lost", "live", "over"}
  BY <1>1, StatusFacts DEF Fits, MarketType, Done
<1>3. CASE market[i].net = "lost"
  <2>1. Answered(i) = [leg[i] EXCEPT !.status = "ABANDONED"]
    BY <1>3 DEF Answered
  <2> QED BY <1>1, <1>3, <2>1, StatusFacts DEF LegType, MarketType, Fits
<1>4. CASE market[i].net = "live"
  <2> DEFINE st == WorkingStatus(market[i].exec)
  <2>1. Answered(i) = [leg[i] EXCEPT !.status = st, !.exec = market[i].exec]
    BY <1>4 DEF Answered
  <2>2. st \in RowStatus /\ st # "PLANNED" /\ st # "FILLED" /\ ~ orderTerminal(st)
    BY StatusFacts
  <2> HIDE DEF st
  <2>a. Answered(i) \in LegType /\ market[i].exec \in 0..LegQty
    BY <1>1, <2>1, <2>2 DEF LegType, MarketType
  <2>b. Answered(i).status = st /\ Answered(i).exec = market[i].exec /\ Answered(i).qty = leg[i].qty
    BY <1>1, <2>1 DEF LegType
  <2>c. market[i].exec <= market[i].exec
    BY <2>a
  <2> QED BY <1>1, <1>4, <2>a, <2>b, <2>c, <2>2, StatusFacts DEF Fits
<1>5. CASE market[i].net = "over"
  <2> DEFINE st == IF market[i].exec = leg[i].qty THEN "FILLED" ELSE "EXPIRED"
  <2>1. Answered(i) = [leg[i] EXCEPT !.status = st, !.exec = market[i].exec]
    BY <1>5 DEF Answered
  <2>2. st \in {"FILLED", "EXPIRED"} /\ (st = "FILLED" => market[i].exec = leg[i].qty)
    OBVIOUS
  <2> HIDE DEF st
  <2>a. Answered(i) \in LegType /\ market[i].exec \in 0..LegQty
    BY <1>1, StatusFacts, <2>1, <2>2 DEF LegType, MarketType
  <2>b. Answered(i).status = st /\ Answered(i).exec = market[i].exec /\ Answered(i).qty = leg[i].qty
    BY <1>1, <2>1 DEF LegType
  <2>c. market[i].exec <= market[i].exec
    BY <2>a
  <2> QED BY <1>1, <1>5, <2>a, <2>b, <2>c, <2>2, StatusFacts DEF Fits
<1> QED BY <1>2, <1>3, <1>4, <1>5

(* What becomes of the venue's side of a leg whose end is confirmed.       *)
EndedMarket(i) == IF market[i].net = "live" THEN [market[i] EXCEPT !.net = "over"] ELSE market[i]

LEMMA EndedFacts ==
    ASSUME Typed, LegsFit, NEW i \in Legs, i \in Unsettled => market[i].net # "flight"
    PROVE  /\ Ended1(i) \in LegType /\ Ended1(i).qty = leg[i].qty
           /\ Ended1(i).status # "PLANNED"
           /\ EndedMarket(i) \in MarketType /\ EndedMarket(i).exec = market[i].exec
           /\ Fits(Ended1(i), EndedMarket(i))
           /\ Done(i) => Ended1(i) = leg[i] /\ EndedMarket(i) = market[i]
           /\ leg[i].status = "PLANNED" => Ended1(i).status = "ABANDONED"
<1>1. leg[i] \in LegType /\ market[i] \in MarketType /\ Fits(leg[i], market[i])
  BY DEF Typed, LegsFit
<1>2. CASE leg[i].status = "PLANNED"
  <2>1. Ended1(i) = [leg[i] EXCEPT !.status = "ABANDONED"] /\ EndedMarket(i) = market[i]
    BY <1>1, <1>2 DEF Ended1, EndedMarket, Fits
  <2> QED BY <1>1, <1>2, <2>1, StatusFacts DEF LegType, MarketType, Fits, Done
<1>3. CASE Done(i)
  <2>1. Ended1(i) = leg[i] /\ EndedMarket(i) = market[i] /\ leg[i].status # "PLANNED"
    BY <1>1, <1>3, StatusFacts DEF Ended1, EndedMarket, Fits, Done
  <2> QED BY <1>1, <1>3, <2>1
<1>4. CASE leg[i].status # "PLANNED" /\ ~ Done(i) /\ market[i].net = "live"
  <2>1. /\ Ended1(i) = [leg[i] EXCEPT !.status = "CANCELED", !.exec = market[i].exec]
        /\ EndedMarket(i) = [market[i] EXCEPT !.net = "over"]
    BY <1>4 DEF Ended1, EndedMarket
  <2>2. "CANCELED" \in RowStatus /\ orderTerminal("CANCELED")
    BY StatusFacts
  <2>a. Ended1(i) \in LegType /\ market[i].exec \in 0..LegQty
    BY <1>1, <2>1, <2>2 DEF LegType, MarketType
  <2>b. Ended1(i).status = "CANCELED" /\ Ended1(i).exec = market[i].exec /\ Ended1(i).qty = leg[i].qty
    BY <1>1, <2>1 DEF LegType
  <2>c. market[i].exec <= market[i].exec
    BY <2>a
  <2>d. EndedMarket(i) \in MarketType /\ EndedMarket(i).exec = market[i].exec /\ EndedMarket(i).net = "over"
    BY <1>1, <2>1 DEF MarketType
  <2> QED BY <1>1, <1>4, <2>a, <2>b, <2>c, <2>d, <2>2 DEF Fits
<1>5. CASE leg[i].status # "PLANNED" /\ ~ Done(i) /\ market[i].net # "live"
  <2>1. Ended1(i) = Answered(i) /\ EndedMarket(i) = market[i] /\ market[i].net # "flight"
    BY <1>5 DEF Ended1, EndedMarket, Unsettled
  <2> QED BY <1>1, <1>5, <2>1, AnsweredFacts
<1> QED BY <1>2, <1>3, <1>4, <1>5


(* How a step moves the legs: the rows keep fitting the venue, and one     *)
(* that is over does not move.                                             *)
LegsMove ==
    /\ leg' \in [Legs -> LegType] /\ market' \in [Legs -> MarketType]
    /\ LegsFit'
    /\ \A i \in Legs : Done(i) => leg'[i] = leg[i]

LEMMA SameLegs == ASSUME IInv, leg' = leg, market' = market PROVE LegsMove
BY TypeFacts DEF IInv, Typed, LegsMove, LegsFit

(* One leg moves, to a row that fits what the venue makes of it.           *)
LEMMA OneLegMoves ==
    ASSUME IInv, NEW i \in Legs, NEW row \in LegType, NEW m \in MarketType,
           ~ Done(i), Fits(row, m),
           leg' = [leg EXCEPT ![i] = row], market' = [market EXCEPT ![i] = m]
    PROVE  LegsMove /\ Executed' = Executed - market[i].exec + m.exec
<1>t. Typed /\ LegsFit
  BY TypeFacts DEF IInv
<1>1. /\ leg' \in [Legs -> LegType] /\ market' \in [Legs -> MarketType]
      /\ leg'[i] = row /\ market'[i] = m
      /\ \A j \in Legs \ {i} : leg'[j] = leg[j] /\ market'[j] = market[j]
  BY <1>t DEF Typed
<1>2. LegsFit'
  BY <1>1, <1>t, LegsFacts DEF LegsFit
<1>3. \A j \in Legs : Done(j) => leg'[j] = leg[j]
  BY <1>1
<1>4. Executed' = Executed - market[i].exec + m.exec
  <2>1. \A j \in Legs : market[j].exec \in Nat /\ market'[j].exec \in Nat
    BY <1>1, <1>t, BoundFacts DEF Typed, MarketType
  <2>2. CASE i = 1
    BY <1>1, <2>1, <2>2, LegsFacts DEF Executed
  <2>3. CASE i # 1
    <3>1. Split /\ i = 2
      BY <2>3, LegsFacts
    <3> QED BY <1>1, <2>1, <3>1, LegsFacts DEF Executed
  <2> QED BY <2>2, <2>3
<1> QED BY <1>1, <1>2, <1>3, <1>4 DEF LegsMove

(* A leg that is sent moves, and the position by what it executed.         *)
LEMMA SubmittedMoves ==
    ASSUME IInv, NEW i \in Legs, leg[i].status = "PLANNED", NEW q \in 1..leg[i].qty,
           Submitted(i, q) \/ NotSubmitted(i, q)
    PROVE  LegsMove /\ pos' - pos = Executed' - Executed /\ pos' \in Nat /\ Executed' \in Nat
<1>t. leg[i] \in LegType /\ market[i] \in MarketType /\ Fits(leg[i], market[i]) /\ pos \in Nat
      /\ market \in [Legs -> MarketType] /\ leg \in [Legs -> LegType]
      /\ leg[i].exec = 0 /\ market[i].exec = 0
      /\ Executed \in Nat
  <2>1. Executed \in Nat
    BY TypeFacts, LegsFacts, BoundFacts DEF IInv, Typed, MarketType, Executed
  <2> QED BY <2>1, TypeFacts, BoundFacts DEF IInv, Typed, LegsFit, Fits, LegType, MarketType
<1>d. ~ Done(i)
  BY StatusFacts DEF Done
<1>q. q \in 1..LegQty
  BY <1>t, BoundFacts DEF LegType
<1>1. CASE Submitted(i, q)
  <2>1. PICK e \in 0..q :
          /\ market' = [market EXCEPT ![i] =
                [net |-> IF e = q THEN "over" ELSE "live", exec |-> e]]
          /\ leg' = [leg EXCEPT ![i] =
                [status |-> IF e = q THEN "FILLED" ELSE WorkingStatus(e), qty |-> q, exec |-> e]]
          /\ pos' = pos + e
    BY <1>1 DEF Submitted
  <2>e. e \in 0..LegQty /\ e \in Nat
    BY <1>q, BoundFacts
  <2> DEFINE st  == IF e = q THEN "FILLED" ELSE WorkingStatus(e)
             row == [status |-> st, qty |-> q, exec |-> e]
             m   == [net |-> IF e = q THEN "over" ELSE "live", exec |-> e]
  <2>2. /\ st \in {"FILLED", "NEW", "PARTIALLY_FILLED"} /\ (st = "FILLED" <=> e = q)
        /\ st \in RowStatus
    BY StatusFacts
  <2>3. row \in LegType /\ row.status = st /\ row.exec = e /\ row.qty = q
    BY <1>q, <2>e, <2>2 DEF LegType
  <2>4. /\ m \in MarketType /\ m.exec = e
        /\ m.net = IF e = q THEN "over" ELSE "live"
    BY <2>e DEF MarketType
  <2>5. Fits(row, m)
    BY <2>2, <2>3, <2>4, <2>e, StatusFacts DEF Fits
  <2>6. leg' = [leg EXCEPT ![i] = row] /\ market' = [market EXCEPT ![i] = m]
    BY <2>1
  <2> HIDE DEF row, m, st
  <2>7. LegsMove /\ Executed' = Executed - market[i].exec + m.exec
    BY <1>d, <2>3, <2>4, <2>5, <2>6, OneLegMoves
  <2> QED BY <1>t, <2>1, <2>4, <2>7, <2>e
<1>2. CASE NotSubmitted(i, q)
  <2>1. \E st \in {"REJECTED", "UNKNOWN"}, n \in {"flight", "lost"} :
          /\ st = "REJECTED" => n = "lost"
          /\ leg' = [leg EXCEPT ![i].status = st, ![i].qty = q]
          /\ market' = [market EXCEPT ![i].net = n]
          /\ pos' = pos
    BY <1>2 DEF NotSubmitted
  <2>2. PICK st \in {"REJECTED", "UNKNOWN"}, n \in {"flight", "lost"} :
          /\ st = "REJECTED" => n = "lost"
          /\ leg' = [leg EXCEPT ![i].status = st, ![i].qty = q]
          /\ market' = [market EXCEPT ![i].net = n]
          /\ pos' = pos
    BY <2>1
  <2> DEFINE row == [leg[i] EXCEPT !.status = st, !.qty = q]
             m   == [market[i] EXCEPT !.net = n]
  <2>3. row \in LegType /\ row.status = st /\ row.exec = 0 /\ row.qty = q
    BY <1>t, <1>q, StatusFacts DEF LegType
  <2>4. m \in MarketType /\ m.exec = 0 /\ m.net = n
    BY <1>t DEF MarketType
  <2>5. Fits(row, m)
    BY <2>2, <2>3, <2>4, StatusFacts DEF Fits
  <2>6. leg' = [leg EXCEPT ![i] = row] /\ market' = [market EXCEPT ![i] = m]
    BY <2>2, <1>t
  <2> HIDE DEF row, m
  <2>7. LegsMove /\ Executed' = Executed - market[i].exec + m.exec
    BY <1>d, <2>3, <2>4, <2>5, <2>6, OneLegMoves
  <2> QED BY <1>t, <2>2, <2>4, <2>7
<1> QED BY <1>1, <1>2

(* A leg that is given up, or only sized, before it was sent.              *)
LEMMA UnsentMoves ==
    ASSUME IInv, NEW i \in Legs, leg[i].status = "PLANNED", NEW q \in 1..leg[i].qty,
           Revoked(i) \/ Resized(i, q)
    PROVE  LegsMove /\ Executed' = Executed /\ pos' = pos
<1>t. leg[i] \in LegType /\ market[i] \in MarketType /\ Fits(leg[i], market[i])
      /\ market \in [Legs -> MarketType] /\ leg \in [Legs -> LegType]
  BY TypeFacts DEF IInv, Typed, LegsFit
<1>q. q \in 1..LegQty /\ leg[i].qty \in 1..LegQty
  BY <1>t, BoundFacts DEF LegType
<1>1. PICK st \in {"PLANNED", "ABANDONED"}, w \in 1..LegQty :
        leg' = [leg EXCEPT ![i] = [leg[i] EXCEPT !.status = st, !.qty = w]]
  <2>1. CASE Revoked(i)
    <3>1. leg' = [leg EXCEPT ![i] = [leg[i] EXCEPT !.status = "ABANDONED", !.qty = leg[i].qty]]
      BY <1>t, <2>1 DEF Revoked, LegType
    <3> QED BY <3>1, <1>q
  <2>2. CASE Resized(i, q)
    <3>1. leg' = [leg EXCEPT ![i] = [leg[i] EXCEPT !.status = "PLANNED", !.qty = q]]
      BY <1>t, <2>2 DEF Resized, LegType
    <3> QED BY <3>1, <1>q
  <2> QED BY <2>1, <2>2
<1> DEFINE row == [leg[i] EXCEPT !.status = st, !.qty = w]
<1>2. row \in LegType /\ row.status = st /\ row.exec = leg[i].exec
  BY <1>t, StatusFacts DEF LegType
<1>3. Fits(row, market[i])
  BY <1>2, <1>t, StatusFacts, BoundFacts DEF Fits, MarketType
<1>4. /\ leg' = [leg EXCEPT ![i] = row] /\ market' = [market EXCEPT ![i] = market[i]]
      /\ ~ Done(i) /\ pos' = pos /\ market' = market
  BY <1>t, <1>1, StatusFacts DEF Done, Revoked, Resized
<1>5. Executed' = Executed
  BY <1>4 DEF Executed
<1> HIDE DEF row
<1> QED BY <1>t, <1>2, <1>3, <1>4, <1>5, OneLegMoves

LEMMA ExecutedType == Typed => Executed \in 0..(LegQty + LegQty) /\ Executed \in Nat
BY LegsFacts, BoundFacts DEF Typed, MarketType, Executed

(* How a step moves the position; once every leg is over, one that is the  *)
(* account owner's stays so.                                               *)
PosMove == /\ pos' \in Nat /\ added' \in 0..Foreign /\ PosBounded'
           /\ AllDone /\ pos <= added => pos' <= added'

(* Several legs move at once, each to a row that fits.                     *)
LEMMA AllLegsMove ==
    ASSUME IInv, NEW r, NEW m,
           leg' = [i \in Legs |-> r[i]], market' = [i \in Legs |-> m[i]],
           \A i \in Legs : /\ r[i] \in LegType /\ m[i] \in MarketType
                           /\ Fits(r[i], m[i]) /\ r[i].qty = leg[i].qty
                           /\ m[i].exec = market[i].exec
                           /\ Done(i) => r[i] = leg[i]
    PROVE  LegsMove /\ Executed' = Executed
<1>t. Typed /\ LegsFit
  BY TypeFacts DEF IInv
<1>1. leg' \in [Legs -> LegType] /\ market' \in [Legs -> MarketType]
  OBVIOUS
<1>2. \A i \in Legs : leg'[i] = r[i] /\ market'[i] = m[i]
  OBVIOUS
<1>3. LegsFit'
  BY <1>2 DEF LegsFit
<1>4. Executed' = Executed
  BY <1>2, LegsFacts DEF Executed
<1> QED BY <1>1, <1>2, <1>3, <1>4 DEF LegsMove

LEMMA QueryMoves == ASSUME IInv, QueryLegs PROVE LegsMove /\ Executed' = Executed
<1>t. Typed /\ LegsFit
  BY TypeFacts DEF IInv
<1>1. PICK ok \in SUBSET Answerable :
        leg' = [i \in Legs |-> IF i \in ok THEN Answered(i) ELSE leg[i]]
  BY DEF QueryLegs
<1>2. market' = market
  BY DEF QueryLegs, External
<1> DEFINE r == [i \in Legs |-> IF i \in ok THEN Answered(i) ELSE leg[i]]
<1>3. leg' = [i \in Legs |-> r[i]] /\ market' = [i \in Legs |-> market[i]]
  BY <1>1, <1>2, <1>t DEF Typed
<1>4. ASSUME NEW i \in Legs
      PROVE  /\ r[i] \in LegType /\ market[i] \in MarketType
             /\ Fits(r[i], market[i]) /\ r[i].qty = leg[i].qty
             /\ Done(i) => r[i] = leg[i]
  <2>1. CASE i \in ok
    <3>1. r[i] = Answered(i) /\ ~ Done(i) /\ leg[i].status # "PLANNED" /\ market[i].net # "flight"
      BY <2>1 DEF Answerable, Unsettled
    <3> QED BY <3>1, <1>t, AnsweredFacts DEF Typed
  <2>2. CASE i \notin ok
    BY <2>2, <1>t DEF Typed, LegsFit
  <2> QED BY <2>1, <2>2
<1> HIDE DEF r
<1> QED BY <1>3, <1>4, AllLegsMove

LEMMA CancelMoves ==
    ASSUME IInv, NEW ok, ok \subseteq {i \in Legs : i \in Unsettled => market[i].net # "flight"},
           CancelSome(ok)
    PROVE  LegsMove /\ Executed' = Executed
<1>t. Typed /\ LegsFit
  BY TypeFacts DEF IInv
<1> DEFINE r == [i \in Legs |-> IF i \in ok THEN Ended1(i) ELSE leg[i]]
           m == [i \in Legs |-> IF i \in ok THEN EndedMarket(i) ELSE market[i]]
<1>1. leg' = [i \in Legs |-> r[i]] /\ market' = [i \in Legs |-> m[i]]
  BY DEF CancelSome, EndedMarket
<1>2. ASSUME NEW i \in Legs
      PROVE  /\ r[i] \in LegType /\ m[i] \in MarketType
             /\ Fits(r[i], m[i]) /\ r[i].qty = leg[i].qty
             /\ m[i].exec = market[i].exec
             /\ Done(i) => r[i] = leg[i]
  <2>1. CASE i \in ok
    <3>1. r[i] = Ended1(i) /\ m[i] = EndedMarket(i)
      BY <2>1
    <3> HIDE DEF r, m
    <3> QED BY <2>1, <3>1, <1>t, EndedFacts
  <2>2. CASE i \notin ok
    BY <2>2, <1>t DEF Typed, LegsFit
  <2> QED BY <2>1, <2>2
<1> HIDE DEF r, m
<1> QED BY <1>1, <1>2, AllLegsMove

(* Every step keeps the rows fitting the venue, and the position accounted for. *)
LEMMA LegStep == IInv /\ [Next]_vars => LegsMove /\ PosMove
<1> SUFFICES ASSUME IInv, [Next]_vars PROVE LegsMove /\ PosMove
  OBVIOUS
<1>t. Typed /\ LegsFit
  BY TypeFacts DEF IInv
<1>p. pos \in Nat /\ added \in 0..Foreign /\ Executed \in Nat /\ Foreign \in Nat /\ pos <= Executed + added
  BY <1>t, ExecutedType, BoundFacts DEF Typed, IInv, PosBounded
<1>1. CASE executeManagedOpen
  <2>1. leg[1].status = "PLANNED"
    BY <1>1, LegsFacts DEF executeManagedOpen, IInv, PassKnows
  <2>0. leg[1].qty \in 1..leg[1].qty /\ ~ AllDone /\ added' = added
    BY <1>1, <1>t, <2>1, LegsFacts, BoundFacts, StatusFacts
       DEF executeManagedOpen, Typed, LegType, AllDone, Done
  <2>2. CASE Submitted(1, leg[1].qty) \/ NotSubmitted(1, leg[1].qty)
    BY <2>0, <2>1, <2>2, <1>p, SubmittedMoves, LegsFacts DEF PosMove, PosBounded
  <2>3. CASE Revoked(1)
    BY <2>0, <2>1, <2>3, <1>p, UnsentMoves, LegsFacts DEF PosMove, PosBounded
  <2>4. CASE UNCHANGED <<leg, market, pos>>
    BY <1>1, <2>4, <1>p, SameLegs DEF executeManagedOpen, PosMove, PosBounded, Executed
  <2> QED BY <1>1, <2>2, <2>3, <2>4 DEF executeManagedOpen
<1>2. CASE QueryLegs
  BY <1>2, <1>p, QueryMoves DEF QueryLegs, External, PosMove, PosBounded
<1>3. CASE Settle
  BY <1>3, <1>p, SameLegs DEF Settle, External, PosMove, PosBounded, Executed
<1>4. CASE TPProgress
  BY <1>4, <1>p, SameLegs DEF TPProgress, External, PosMove, PosBounded, Executed
<1>5. CASE Latch
  BY <1>5, <1>p, SameLegs DEF Latch, External, PosMove, PosBounded, Executed
<1>6. CASE CancelLegs
  <2>1. PICK ok \in SUBSET {i \in Legs : i \in Unsettled => market[i].net # "flight"} : CancelSome(ok)
    BY <1>6 DEF CancelLegs
  <2>2. LegsMove /\ Executed' = Executed
    BY <2>1, CancelMoves
  <2> QED BY <1>6, <1>p, <2>2 DEF CancelLegs, PosMove, PosBounded
<1>7. CASE Protect
  BY <1>7, <1>p, SameLegs DEF Protect, External, PosMove, PosBounded, Executed
<1>8. CASE enforceManagedRisk
  BY <1>8, <1>p, SameLegs DEF enforceManagedRisk, External, PosMove, PosBounded, Executed
<1>9. CASE ExitStarts
  BY <1>9, <1>p, SameLegs DEF ExitStarts, External, PosMove, PosBounded, Executed
<1>10. CASE Decide
  BY <1>10, <1>p, SameLegs DEF Decide, External, PosMove, PosBounded, Executed
<1>11. CASE FirstLeg
  <2>1. leg[1].status = "PLANNED"
    BY <1>11 DEF FirstLeg
  <2>0. leg[1].qty \in 1..leg[1].qty /\ ~ AllDone /\ added' = added
    BY <1>11, <1>t, <2>1, LegsFacts, BoundFacts, StatusFacts DEF FirstLeg, Typed, LegType, AllDone, Done
  <2>2. ASSUME NEW q \in 1..leg[1].qty, Submitted(1, q) \/ NotSubmitted(1, q)
        PROVE  LegsMove /\ PosMove
    BY <2>0, <2>1, <2>2, <1>p, SubmittedMoves, LegsFacts DEF PosMove, PosBounded
  <2>3. ASSUME NEW q \in 1..leg[1].qty, Revoked(1) \/ Resized(1, q) PROVE LegsMove /\ PosMove
    BY <2>0, <2>1, <2>3, <1>p, UnsentMoves, LegsFacts DEF PosMove, PosBounded
  <2> QED BY <1>11, <2>0, <2>2, <2>3 DEF FirstLeg
<1>12. CASE FirstLegSent
  BY <1>12, <1>p, SameLegs DEF FirstLegSent, External, PosMove, PosBounded, Executed
<1>13. CASE NoSecondLeg
  BY <1>13, <1>p, SameLegs DEF NoSecondLeg, External, PosMove, PosBounded, Executed
<1>14. CASE SecondLegChecks
  BY <1>14, <1>p, SameLegs DEF SecondLegChecks, External, PosMove, PosBounded, Executed
<1>z. ASSUME hand.at = "add" PROVE 2 \in Legs /\ leg[2].status = "PLANNED" /\ ~ AllDone
  <2>1. Split /\ leg[2].status = "PLANNED"
    BY <1>z DEF IInv, PassKnows
  <2> QED BY <2>1, LegsFacts, StatusFacts DEF AllDone, Done
<1>15. CASE SecondLeg
  <2>1. added' = added /\ hand.at = "add"
    BY <1>15 DEF SecondLeg
  <2>2. ASSUME NEW q \in 1..leg[2].qty, Submitted(2, q) \/ NotSubmitted(2, q)
        PROVE  LegsMove /\ PosMove
    BY <2>1, <2>2, <1>p, <1>z, SubmittedMoves DEF PosMove, PosBounded
  <2>3. ASSUME NEW q \in 1..leg[2].qty, Resized(2, q) PROVE LegsMove /\ PosMove
    BY <2>1, <2>3, <1>p, <1>z, UnsentMoves DEF PosMove, PosBounded
  <2> QED BY <1>15, <2>2, <2>3 DEF SecondLeg
<1>33. CASE SecondLegRevoked
  <2>1. added' = added /\ hand.at = "add" /\ Revoked(2)
    BY <1>33 DEF SecondLegRevoked
  <2>2. leg[2].qty \in 1..leg[2].qty
    BY <2>1, <1>t, <1>z, BoundFacts DEF Typed, LegType
  <2> QED BY <2>1, <2>2, <1>p, <1>z, UnsentMoves DEF PosMove, PosBounded
<1>16. CASE Finish
  BY <1>16, <1>p, SameLegs DEF Finish, External, PosMove, PosBounded, Executed
<1>17. CASE PassFails
  BY <1>17, <1>p, SameLegs DEF PassFails, External, PosMove, PosBounded, Executed
<1>18. CASE reconcileOpenTrade
  BY <1>18, <1>p, SameLegs DEF reconcileOpenTrade, External, PosMove, PosBounded, Executed
<1>19. CASE Track
  BY <1>19, <1>p, SameLegs DEF Track, External, PosMove, PosBounded, Executed
<1>20. CASE Gone
  BY <1>20, <1>p, SameLegs DEF Gone, External, PosMove, PosBounded, Executed
<1>21. CASE Withdraw
  BY <1>21, <1>p, SameLegs DEF Withdraw, External, PosMove, PosBounded, Executed
<1>22. CASE reconcileManagedEntry
  BY <1>22, <1>p, SameLegs DEF reconcileManagedEntry, External, PosMove, PosBounded, Executed
<1>23. CASE ExecuteClose
  BY <1>23, <1>p, SameLegs DEF ExecuteClose, External, PosMove, PosBounded, Executed
<1>24. CASE ExecuteCancel
  BY <1>24, <1>p, SameLegs DEF ExecuteCancel, External, PosMove, PosBounded, Executed
<1>25. CASE ExitSettles
  BY <1>25, <1>p, SameLegs DEF ExitSettles, External, PosMove, PosBounded, Executed
<1>34. CASE finishTradeOrders
  <2>1. PICK n \in {0} \cup Legs : /\ \A i \in 1..n : i \in Unsettled => market[i].net # "flight"
                                  /\ CancelSome(1..n)
    BY <1>34 DEF finishTradeOrders
  <2>2. 1..n \subseteq {i \in Legs : i \in Unsettled => market[i].net # "flight"}
    BY <2>1 DEF Legs
  <2>3. LegsMove /\ Executed' = Executed
    BY <2>1, <2>2, CancelMoves
  <2> QED BY <1>34, <1>p, <2>3 DEF finishTradeOrders, PosMove, PosBounded
<1>26. CASE Crash
  BY <1>26, <1>p, SameLegs DEF Crash, External, PosMove, PosBounded, Executed
<1>27. ASSUME NEW i \in Legs, Arrive(i) PROVE LegsMove /\ PosMove
  <2>1. ~ Done(i) /\ market[i] \in MarketType /\ leg[i] \in LegType /\ Fits(leg[i], market[i])
    BY <1>27, <1>t DEF Arrive, Typed, LegsFit, Fits, Done
  <2> DEFINE m == [market[i] EXCEPT !.net = "live"]
  <2>2. m \in MarketType /\ m.exec = market[i].exec /\ m.net = "live"
    BY <2>1 DEF MarketType
  <2>3. Fits(leg[i], m)
    BY <1>27, <2>1, <2>2 DEF Arrive, Fits, Done
  <2>4. leg' = [leg EXCEPT ![i] = leg[i]] /\ market' = [market EXCEPT ![i] = m]
    BY <1>27, <1>t DEF Arrive, Typed
  <2> HIDE DEF m
  <2>5. LegsMove /\ Executed' = Executed - market[i].exec + m.exec
    BY <1>t, <2>1, <2>2, <2>3, <2>4, OneLegMoves DEF LegsFit
  <2> QED BY <1>27, <1>p, <2>1, <2>2, <2>5, BoundFacts DEF Arrive, PosMove, PosBounded,
        MarketType, AllDone
<1>28. ASSUME NEW i \in Legs, Fill(i) PROVE LegsMove /\ PosMove
  <2>1. ~ Done(i) /\ market[i] \in MarketType /\ leg[i] \in LegType /\ Fits(leg[i], market[i])
    BY <1>28, <1>t DEF Fill, Typed, LegsFit, Fits, Done
  <2>2. PICK k \in 1..(leg[i].qty - market[i].exec) :
          /\ market' = [market EXCEPT ![i] =
               [net  |-> IF @.exec + k = leg[i].qty THEN "over" ELSE "live", exec |-> @.exec + k]]
          /\ pos' = pos + k
    BY <1>28 DEF Fill
  <2> DEFINE m == [net  |-> IF market[i].exec + k = leg[i].qty THEN "over" ELSE "live",
                   exec |-> market[i].exec + k]
  <2>e. /\ market[i].exec \in Nat /\ k \in Nat /\ leg[i].exec \in Nat
        /\ market[i].exec + k \in 0..LegQty
    BY <2>1, BoundFacts DEF LegType, MarketType
  <2>3. m \in MarketType /\ m.exec = market[i].exec + k /\ m.net \in {"live", "over"}
    BY <2>e DEF MarketType
  <2>4. Fits(leg[i], m)
    BY <1>28, <2>1, <2>3, <2>e DEF Fill, Fits, Done
  <2>5. leg' = [leg EXCEPT ![i] = leg[i]] /\ market' = [market EXCEPT ![i] = m]
    BY <1>28, <1>t, <2>2 DEF Fill, Typed
  <2> HIDE DEF m
  <2>6. LegsMove /\ Executed' = Executed - market[i].exec + m.exec
    BY <1>t, <2>1, <2>3, <2>4, <2>5, OneLegMoves DEF LegsFit
  <2>7. ~ AllDone
    BY <2>1 DEF AllDone
  <2> QED BY <1>28, <1>p, <2>2, <2>e, <2>3, <2>6, <2>7 DEF Fill, PosMove, PosBounded
<1>29. ASSUME NEW i \in Legs, Expire(i) PROVE LegsMove /\ PosMove
  <2>1. ~ Done(i) /\ market[i] \in MarketType /\ leg[i] \in LegType /\ Fits(leg[i], market[i])
    BY <1>29, <1>t DEF Expire, Typed, LegsFit, Fits, Done
  <2> DEFINE m == [market[i] EXCEPT !.net = "over"]
  <2>2. m \in MarketType /\ m.exec = market[i].exec /\ m.net = "over"
    BY <2>1 DEF MarketType
  <2>3. Fits(leg[i], m)
    BY <1>29, <2>1, <2>2 DEF Expire, Fits, Done
  <2>4. leg' = [leg EXCEPT ![i] = leg[i]] /\ market' = [market EXCEPT ![i] = m]
    BY <1>29, <1>t DEF Expire, Typed
  <2> HIDE DEF m
  <2>5. LegsMove /\ Executed' = Executed - market[i].exec + m.exec
    BY <1>t, <2>1, <2>2, <2>3, <2>4, OneLegMoves DEF LegsFit
  <2> QED BY <1>29, <1>p, <2>1, <2>2, <2>5, BoundFacts DEF Expire, PosMove, PosBounded,
        MarketType, AllDone
<1>30. CASE PositionMoves
  <2>1. LegsMove /\ Executed' = Executed
    BY <1>30, SameLegs DEF PositionMoves, Executed
  <2>2. \/ pos > 0 /\ pos' = pos - 1 /\ added' = Least(added, pos')
        \/ pos' = pos + 1 /\ added < Foreign /\ added' = added + 1
    BY <1>30 DEF PositionMoves
  <2>3. CASE pos > 0 /\ pos' = pos - 1 /\ added' = Least(added, pos')
    <3>1. pos' \in Nat /\ added' \in 0..Foreign
      BY <2>3, <1>p DEF Least
    <3>2. pos' <= Executed + added' /\ (pos <= added => pos' <= added')
      BY <2>3, <1>p DEF Least
    <3> QED BY <3>1, <3>2, <2>1 DEF PosMove, PosBounded
  <2>4. CASE pos' = pos + 1 /\ added < Foreign /\ added' = added + 1
    <3>1. /\ pos' \in Nat /\ added' \in 0..Foreign /\ pos' <= Executed + added'
          /\ pos <= added => pos' <= added'
      BY <2>4, <1>p
    <3> QED BY <3>1, <2>1 DEF PosMove, PosBounded
  <2> QED BY <2>1, <2>2, <2>3, <2>4
<1>31. CASE DeadlinePasses
  BY <1>31, <1>p, SameLegs DEF DeadlinePasses, External, PosMove, PosBounded, Executed
<1>32. CASE UNCHANGED vars
  BY <1>32, <1>p, SameLegs DEF vars, PosMove, PosBounded, Executed
<1> QED BY <1>1, <1>2, <1>3, <1>4, <1>5, <1>6, <1>7, <1>8, <1>9, <1>10, <1>11, <1>12, <1>13,
           <1>14, <1>15, <1>16, <1>17, <1>18, <1>19, <1>20, <1>21, <1>22, <1>23, <1>24, <1>25,
           <1>26, <1>27, <1>28, <1>29, <1>30, <1>31, <1>32, <1>33, <1>34
           DEF Next, Handler, Exchange

(* What settling the fills makes of a context.                             *)
LEMMA FilledType == ASSUME NEW l \in [Legs -> LegType] PROVE Filled(l) \in 0..MaxPos
BY LegsFacts, BoundFacts DEF Filled, LegType

LEMMA SettleFacts ==
    ASSUME Typed, NEW c \in CtxType, NEW l \in [Legs -> LegType]
    PROVE  LET d == settleManagedFills(c, l) IN
           /\ d \in CtxType
           /\ d.disabled = c.disabled /\ d.stop = c.stop /\ d.closing = c.closing /\ d.tp = c.tp
           /\ Filled(l) = 0 => d = c
           /\ Filled(l) # 0 => /\ d.opened
                               /\ d.state = IF c.opened THEN c.state ELSE "OPEN"
                               /\ ~ d.working => \A i \in Legs : orderTerminal(l[i].status)
                               /\ ~ c.opened => d.qty > 0
                               /\ d.qty > 0 \/ pos = 0
<1> DEFINE total == Filled(l)
           qty   == IF pos > 0 THEN Least(pos, total) ELSE IF c.opened THEN 0 ELSE total
           state == IF c.opened THEN c.state ELSE "OPEN"
           works == \E i \in Legs : ~ orderTerminal(l[i].status)
           d     == settleManagedFills(c, l)
<1>1. CASE total = 0
  BY <1>1 DEF settleManagedFills
<1>2. CASE total # 0
  <2>1. d = [c EXCEPT !.qty = qty, !.state = state, !.opened = TRUE, !.working = works]
    BY <1>2 DEF settleManagedFills
  <2>2. total \in 0..MaxPos /\ total > 0 /\ pos \in 0..MaxPos
    BY <1>2, FilledType, BoundFacts DEF Typed
  <2>3. qty \in 0..MaxPos /\ (~ c.opened => qty > 0) /\ (qty > 0 \/ pos = 0)
    BY <2>2, BoundFacts DEF Least
  <2>4. state \in {"ENTRY_PENDING", "OPEN", "CLOSED", "CANCELLED", "EXPIRED"} /\ works \in BOOLEAN
    BY DEF CtxType
  <2> HIDE DEF qty, total, d, works
  <2>5. /\ d \in CtxType /\ d.qty = qty /\ d.opened = TRUE /\ d.state = state /\ d.working = works
        /\ d.disabled = c.disabled /\ d.stop = c.stop /\ d.closing = c.closing /\ d.tp = c.tp
    BY <2>1, <2>3, <2>4 DEF CtxType
  <2>6. ~ d.working => \A i \in Legs : orderTerminal(l[i].status)
    BY <2>5 DEF works
  <2> QED BY <1>2, <2>3, <2>5, <2>6 DEF total, d
<1> QED BY <1>1, <1>2

(* A ledger in which every row is over stays as it is.                     *)
LEMMA OverStays ==
    ASSUME LegsMove, AllDone
    PROVE  AllDone' /\ Filled(leg)' = Filled(leg) /\ Filled(leg') = Filled(leg)
BY LegsFacts DEF LegsMove, AllDone, Done, Filled

(* What the rows report once every leg is over is what was executed.       *)
LEMMA DoneFacts ==
    ASSUME Typed, LegsFit, AllDone, Filled(leg) = 0, PosBounded
    PROVE  pos <= added
<1>1. \A i \in Legs : leg[i].exec = market[i].exec /\ leg[i].exec \in Nat
  BY BoundFacts DEF Typed, LegType, LegsFit, Fits, AllDone, Done
<1>2. Executed = 0
  BY <1>1, LegsFacts DEF Executed, Filled
<1> QED BY <1>2, BoundFacts DEF PosBounded, Typed

(* Steps that leave the state of the trade alone.                          *)
LEMMA SameState ==
    ASSUME IInv, LegsMove, PosMove, ctx'.state = ctx.state, ctx'.opened = ctx.opened, ctx'.working = ctx.working
    PROVE  CtxFits'
BY OverStays DEF IInv, CtxFits, PosMove

(* Every step keeps the context true of the legs. *)
LEMMA CtxStep == IInv /\ [Next]_vars => CtxFits'
<1> SUFFICES ASSUME IInv, [Next]_vars PROVE CtxFits'
  OBVIOUS
<1>t. Typed /\ ctx \in CtxType /\ leg \in [Legs -> LegType]
  BY TypeFacts DEF IInv, Typed
<1>c. CtxFits
  BY DEF IInv
<1>m. LegsMove /\ PosMove
  BY LegStep
<1>1. CASE executeManagedOpen
  BY <1>1, <1>m, SameState DEF executeManagedOpen, External
<1>2. CASE QueryLegs
  BY <1>2, <1>m, SameState DEF QueryLegs, External
<1>3. CASE Settle
  <2>1. ctx' = settleManagedFills(ctx, leg) /\ leg' = leg /\ pos' = pos /\ added' = added
    BY <1>3 DEF Settle, SetCtx, External
  <2> QED BY <2>1, <1>t, <1>c, SettleFacts DEF CtxFits, AllDone, Done
<1>4. CASE TPProgress
  <2>1. ctx'.state = ctx.state /\ ctx'.opened = ctx.opened /\ ctx'.working = ctx.working
    BY <1>4, <1>t DEF TPProgress, SetCtx, CtxType
  <2> QED BY <2>1, <1>m, SameState
<1>5. CASE Latch
  <2>1. ctx'.state = ctx.state /\ ctx'.opened = ctx.opened /\ ctx'.working = ctx.working
    BY <1>5, <1>t DEF Latch, SetCtx, CtxType
  <2> QED BY <2>1, <1>m, SameState
<1>6. CASE CancelLegs
  <2> DEFINE confirmed == \A i \in Legs : orderTerminal(leg'[i].status)
             d == settleManagedFills(ctx, leg')
  <2>1. ctx' = IF confirmed THEN [d EXCEPT !.working = FALSE] ELSE d
    BY <1>6 DEF CancelLegs, SetCtx
  <2>2. leg' \in [Legs -> LegType] /\ (confirmed <=> AllDone')
    BY <1>m DEF LegsMove, AllDone, Done
  <2>3. /\ d \in CtxType /\ (Filled(leg') = 0 => d = ctx)
        /\ Filled(leg') # 0 => /\ d.opened
                               /\ d.state = IF ctx.opened THEN ctx.state ELSE "OPEN"
                               /\ ~ d.working => AllDone'
    BY <2>2, <1>t, SettleFacts DEF AllDone, Done
  <2> HIDE DEF confirmed, d
  <2>4. /\ ctx'.state = d.state /\ ctx'.opened = d.opened
        /\ ~ ctx'.working => confirmed \/ ~ d.working
    BY <2>1, <2>3 DEF CtxType
  <2>5. AllDone => AllDone' /\ Filled(leg') = Filled(leg)
    BY <1>m, OverStays
  <2>6. CASE Filled(leg') = 0
    BY <2>2, <2>3, <2>4, <2>5, <2>6, <1>c, <1>m DEF CtxFits, PosMove, Filled
  <2>7. CASE Filled(leg') # 0
    BY <2>2, <2>3, <2>4, <2>5, <2>7, <1>c, <1>m DEF CtxFits, PosMove, Filled
  <2> QED BY <2>6, <2>7
<1>7. CASE Protect
  <2>1. ctx'.state = ctx.state /\ ctx'.opened = ctx.opened /\ ctx'.working = ctx.working
    BY <1>7, <1>t DEF Protect, SetCtx, CtxType
  <2> QED BY <2>1, <1>m, SameState
<1>8. CASE enforceManagedRisk
  <2>1. ctx'.state = ctx.state /\ ctx'.opened = ctx.opened /\ ctx'.working = ctx.working
    BY <1>8, <1>t DEF enforceManagedRisk, SetCtx, CtxType
  <2> QED BY <2>1, <1>m, SameState
<1>9. CASE ExitStarts
  <2>1. ctx'.state = ctx.state /\ ctx'.opened = ctx.opened /\ ctx'.working = ctx.working
    BY <1>9, <1>t DEF ExitStarts, SetCtx, CtxType
  <2> QED BY <2>1, <1>m, SameState
<1>10. CASE Decide
  BY <1>10, <1>m, SameState DEF Decide, External
<1>11. CASE FirstLeg
  BY <1>11, <1>m, SameState DEF FirstLeg, External
<1>12. CASE FirstLegSent
  BY <1>12, <1>m, SameState DEF FirstLegSent, External
<1>13. CASE NoSecondLeg
  BY <1>13, <1>m, SameState DEF NoSecondLeg, External
<1>14. CASE SecondLegChecks
  <2>1. ctx'.state = ctx.state /\ ctx'.opened = ctx.opened /\ ctx'.working = ctx.working
    BY <1>14, <1>t DEF SecondLegChecks, SetCtx, CtxType
  <2> QED BY <2>1, <1>m, SameState
<1>15. CASE SecondLeg
  BY <1>15, <1>m, SameState DEF SecondLeg, External
<1>16. CASE Finish
  <2>1. leg' = leg /\ pos' = pos /\ added' = added
    BY <1>16 DEF Finish, External
  <2>2. CASE AllDone /\ Filled(leg) = 0
    <3>1. ctx' = [ctx EXCEPT !.state = IF late THEN "EXPIRED" ELSE "CANCELLED"]
      BY <1>16, <2>2 DEF Finish, SetCtx, AllDone
    <3>2. ctx'.state \in {"EXPIRED", "CANCELLED"}
      BY <3>1, <1>t DEF CtxType
    <3>3. pos <= added
      BY <1>t, <2>2, DoneFacts DEF IInv
    <3> QED BY <2>1, <2>2, <3>2, <3>3 DEF CtxFits, AllDone, Done
  <2>3. CASE ~ (AllDone /\ Filled(leg) = 0)
    <3>1. ctx' = ctx
      BY <1>16, <2>3 DEF Finish, SetCtx, AllDone
    <3> QED BY <3>1, <1>m, SameState
  <2> QED BY <2>2, <2>3
<1>17. CASE PassFails
  <2>1. ctx'.state = ctx.state /\ ctx'.opened = ctx.opened /\ ctx'.working = ctx.working
    BY <1>17, <1>t DEF PassFails, SetCtx, CtxType
  <2> QED BY <2>1, <1>m, SameState
<1>18. CASE reconcileOpenTrade
  <2>1. ctx'.state = ctx.state /\ ctx'.opened = ctx.opened /\ ctx'.working = ctx.working
    BY <1>18, <1>t DEF reconcileOpenTrade, SetCtx, CtxType
  <2> QED BY <2>1, <1>m, SameState
<1>19. CASE Track
  <2>1. ctx'.state = ctx.state /\ ctx'.opened = ctx.opened /\ ctx'.working = ctx.working
    BY <1>19, <1>t DEF Track, SetCtx, CtxType
  <2> QED BY <2>1, <1>m, SameState
<1>20. CASE Gone
  <2>1. AllDone /\ leg' = leg
    BY <1>20 DEF Gone, IInv, CancelKnows
  <2>2. CASE pos = 0
    <3>1. ctx'.state = "CLOSED"
      BY <1>20, <2>2, <1>t DEF Gone, SetCtx, CtxType
    <3> QED BY <2>1, <3>1 DEF CtxFits, AllDone, Done
  <2>3. CASE pos # 0
    <3>1. ctx' = ctx
      BY <1>20, <2>3 DEF Gone, SetCtx
    <3> QED BY <3>1, <1>m, SameState
  <2> QED BY <2>2, <2>3
<1>21. CASE Withdraw
  <2>1. /\ AllDone /\ leg' = leg /\ pos' = pos /\ added' = added /\ (Filled(leg) # 0 => ctx.opened)
        /\ ~ (ctx.qty > 0 /\ ctx.opened) => pos <= added
    BY <1>21 DEF Withdraw, External, IInv, CancelKnows
  <2>2. CASE ctx.qty > 0 /\ ctx.opened
    <3>1. ctx'.state = ctx.state /\ ctx'.opened = ctx.opened /\ ctx'.working = ctx.working
      BY <1>21, <2>2, <1>t DEF Withdraw, SetCtx, CtxType
    <3> QED BY <3>1, <1>m, SameState
  <2>3. CASE ~ (ctx.qty > 0 /\ ctx.opened)
    <3>1. ctx' = [ctx EXCEPT !.state = "CANCELLED"]
      BY <1>21, <2>3 DEF Withdraw, SetCtx
    <3> QED BY <2>1, <2>3, <3>1, <1>t DEF CtxFits, AllDone, Done, CtxType
  <2> QED BY <2>2, <2>3
<1>22. CASE reconcileManagedEntry
  <2>1. ctx'.state = ctx.state /\ ctx'.opened = ctx.opened /\ ctx'.working = ctx.working
    BY <1>22, <1>t DEF reconcileManagedEntry, SetCtx, CtxType
  <2> QED BY <2>1, <1>m, SameState
<1>23. CASE ExecuteClose
  BY <1>23, <1>m, SameState DEF ExecuteClose, External
<1>24. CASE ExecuteCancel
  BY <1>24, <1>m, SameState DEF ExecuteCancel, External
<1>25. CASE ExitSettles
  <2>1. leg' = leg
    BY <1>25 DEF ExitSettles
  <2>2. CASE ctx' = ctx
    BY <2>2, <1>m, SameState
  <2>3. CASE ctx' = [ctx EXCEPT !.closing = FALSE, !.qty = pos, !.state = "OPEN"]
    <3>1. ctx'.state = "OPEN" /\ ctx'.working = ctx.working
      BY <2>3, <1>t DEF CtxType
    <3> QED BY <2>1, <3>1, <1>c DEF CtxFits, AllDone, Done
  <2> QED BY <1>25, <2>2, <2>3 DEF ExitSettles, SetCtx
<1>33. CASE SecondLegRevoked
  BY <1>33, <1>m, SameState DEF SecondLegRevoked
<1>34. CASE finishTradeOrders
  <2>1. CASE ctx' = ctx
    BY <2>1, <1>m, SameState
  <2>2. CASE ctx' = [ctx EXCEPT !.closing = FALSE, !.qty = 0, !.state = "CLOSED"]
    <3>1. ctx'.state = "CLOSED" /\ ctx'.working = ctx.working
      BY <2>2, <1>t DEF CtxType
    <3>2. AllDone => AllDone'
      BY <1>m, OverStays
    <3> QED BY <3>1, <3>2, <1>c DEF CtxFits
  <2> QED BY <1>34, <2>1, <2>2 DEF finishTradeOrders, SetCtx
<1>26. CASE Crash
  BY <1>26, <1>m, SameState DEF Crash, External
<1>27. ASSUME NEW i \in Legs, Arrive(i) PROVE CtxFits'
  BY <1>27, <1>m, SameState DEF Arrive, External
<1>28. ASSUME NEW i \in Legs, Fill(i) PROVE CtxFits'
  BY <1>28, <1>m, SameState DEF Fill, External
<1>29. ASSUME NEW i \in Legs, Expire(i) PROVE CtxFits'
  BY <1>29, <1>m, SameState DEF Expire, External
<1>30. CASE PositionMoves
  BY <1>30, <1>m, SameState DEF PositionMoves, External
<1>31. CASE DeadlinePasses
  BY <1>31, <1>m, SameState DEF DeadlinePasses, External
<1>32. CASE UNCHANGED vars
  BY <1>32, <1>m, SameState DEF vars, External
<1> QED BY <1>1, <1>2, <1>3, <1>4, <1>5, <1>6, <1>7, <1>8, <1>9, <1>10, <1>11, <1>12, <1>13,
           <1>14, <1>15, <1>16, <1>17, <1>18, <1>19, <1>20, <1>21, <1>22, <1>23, <1>24, <1>25,
           <1>26, <1>27, <1>28, <1>29, <1>30, <1>31, <1>32, <1>33, <1>34
           DEF Next, Handler, Exchange

(* The two ways in which a pass leaves, and a cancellation goes on.        *)
LEMMA LeaveFacts ==
    ASSUME NEW c, Leave(c)
    PROVE  /\ hand' \in HandType /\ hand'.at \in {"idle", "tracked"} /\ hand'.after = "decide"
<1> DEFINE stage == IF c.state = "OPEN" /\ ~ c.closing THEN "tracked" ELSE "idle"
<1>1. stage \in {"idle", "tracked"} /\ stage \in Stages
  BY DEF Stages
<1>2. hand' = [Idle EXCEPT !.at = stage]
  BY DEF Leave
<1>3. Idle \in HandType /\ Idle.after = "decide"
  BY BoundFacts DEF Idle, HandType, Stages
<1> HIDE DEF stage
<1> QED BY <1>1, <1>2, <1>3 DEF HandType

LEMMA StartFacts ==
    ASSUME Typed, NEW c \in CtxType, StartPass(c)
    PROVE  /\ hand' \in HandType /\ hand'.at = "query" /\ hand'.after = "decide"
           /\ c.disabled => hand'.mem
<1> DEFINE mem == c.disabled \/ VoidLeg(leg')
<1>1. mem \in BOOLEAN /\ (c.disabled => mem) /\ c.qty \in 0..MaxPos /\ "query" \in Stages
  BY DEF VoidLeg, CtxType, Stages
<1>2. hand' = [Idle EXCEPT !.at = "query", !.mem = mem, !.old = c.qty]
  BY DEF StartPass
<1>3. Idle \in HandType /\ Idle.after = "decide"
  BY BoundFacts DEF Idle, HandType, Stages
<1> HIDE DEF mem
<1> QED BY <1>1, <1>2, <1>3 DEF HandType

LEMMA SubmitFacts ==
    ASSUME Typed, NEW i, NEW stage \in Stages, AfterSubmit(i, stage)
    PROVE  /\ hand' \in HandType /\ hand'.mem = hand.mem
           /\ (hand'.at = "settle" /\ hand'.after = stage) \/ (hand'.at = stage /\ hand'.after = hand.after)
BY DEF AfterSubmit, Typed, HandType, Stages

LEMMA GotoFacts ==
    ASSUME Typed, NEW stage \in Stages, Goto(stage)
    PROVE  /\ hand' \in HandType /\ hand'.at = stage
           /\ hand'.mem = hand.mem /\ hand'.after = hand.after /\ hand'.then = hand.then
BY DEF Goto, Typed, HandType

LEMMA CloseFacts ==
    ASSUME Typed, NEW stage \in Stages, CloseEligibility(stage)
    PROVE  /\ hand' \in HandType /\ hand'.at = "latch" /\ hand'.then = stage
           /\ hand'.after = hand.after
BY DEF CloseEligibility, Typed, HandType, Stages

LEMMA ContinueFacts ==
    ASSUME Typed, hand.then \in Callers, NEW confirmed \in BOOLEAN, Continue(confirmed)
    PROVE  /\ hand' \in HandType
           /\ hand'.at \in {"idle", "tracked", "failed"} \/
              (hand'.at = hand.then /\ hand'.mem = hand.mem /\ hand'.after = hand.after)
           /\ hand'.after \in {hand.after, "decide"}
           /\ hand'.at \in {"gone", "withdraw"} => confirmed /\ hand'.at = hand.then
<1>1. hand.then \in Stages /\ "failed" \in Stages /\ Idle \in HandType
  BY BoundFacts DEF Callers, Stages, Idle, HandType
<1>2. CASE confirmed \/ hand.then \in {"exit", "emergency"}
  <2>1. CASE hand.then = "idle"
    <3>1. Leave(ctx')
      BY <1>2, <2>1 DEF Continue
    <3> QED BY <3>1, LeaveFacts
  <2>2. CASE hand.then # "idle"
    <3>1. Goto(hand.then)
      BY <1>2, <2>2 DEF Continue
    <3> QED BY <1>1, <1>2, <3>1, GotoFacts
  <2> QED BY <2>1, <2>2
<1>3. CASE ~ (confirmed \/ hand.then \in {"exit", "emergency"})
  <2>1. hand' = Idle \/ Goto("failed")
    BY <1>3 DEF Continue
  <2>2. CASE hand' = Idle
    BY <1>1, <2>2 DEF Idle
  <2>3. CASE Goto("failed")
    BY <1>1, <2>3, GotoFacts
  <2> QED BY <2>1, <2>2, <2>3
<1> QED BY <1>2, <1>3


TypesMove == /\ ctx' \in CtxType /\ reduced' \in BOOLEAN /\ hand' \in HandType
             /\ tpFilled' \in BOOLEAN /\ late' \in BOOLEAN

(* Every step keeps the types. *)
LEMMA TypeStep == IInv /\ [Next]_vars => TypesMove
<1> SUFFICES ASSUME IInv, [Next]_vars PROVE TypesMove
  OBVIOUS
<1>t. Typed /\ ctx \in CtxType /\ leg \in [Legs -> LegType] /\ hand \in HandType
      /\ pos \in 0..MaxPos /\ tpFilled \in BOOLEAN /\ late \in BOOLEAN /\ reduced \in BOOLEAN
  BY TypeFacts DEF IInv, Typed
<1>s. \A st \in {"idle", "open", "query", "settle", "tp", "protect", "decide", "first", "second",
           "add", "finish", "latch", "cancel", "tracked", "track", "gone", "emergency",
           "exit", "risk", "withdraw", "flat", "failed"} : st \in Stages
  BY DEF Stages
<1>i. Idle \in HandType
  BY BoundFacts DEF Idle, HandType, Stages
<1>1. CASE executeManagedOpen
  <2>1. ctx' \in CtxType /\ reduced' \in BOOLEAN
    BY <1>1, <1>t DEF executeManagedOpen
  <2>2. hand' \in HandType
    BY <1>1, <1>t, StartFacts DEF executeManagedOpen
  <2>3. tpFilled' \in BOOLEAN /\ late' \in BOOLEAN
    BY <1>1, <1>t DEF executeManagedOpen, External
  <2> QED BY <2>1, <2>2, <2>3 DEF TypesMove
<1>2. CASE QueryLegs
  <2>1. ctx' \in CtxType /\ reduced' \in BOOLEAN
    BY <1>2, <1>t DEF QueryLegs
  <2>2. hand' \in HandType
    <3>1. PICK failed \in BOOLEAN, mem \in BOOLEAN :
            hand' = [hand EXCEPT !.at = "settle", !.failed = failed, !.mem = mem]
      BY <1>2, <1>t DEF QueryLegs, HandType, VoidLeg
    <3> QED BY <3>1, <1>t, <1>s DEF HandType
  <2>3. tpFilled' \in BOOLEAN /\ late' \in BOOLEAN
    BY <1>2, <1>t DEF QueryLegs, External
  <2> QED BY <2>1, <2>2, <2>3 DEF TypesMove
<1>3. CASE Settle
  <2>1. ctx' \in CtxType /\ reduced' \in BOOLEAN
    <3>1. ctx' = settleManagedFills(ctx, leg) /\ reduced' \in BOOLEAN
      BY <1>3, <1>t DEF Settle, SetCtx
    <3> QED BY <3>1, <1>t, SettleFacts
  <2>2. hand' \in HandType
    BY <1>3, <1>t, LeaveFacts, GotoFacts, CloseFacts, <1>s DEF Settle
  <2>3. tpFilled' \in BOOLEAN /\ late' \in BOOLEAN
    BY <1>3, <1>t DEF Settle, External
  <2> QED BY <2>1, <2>2, <2>3 DEF TypesMove
<1>4. CASE TPProgress
  <2>1. ctx' \in CtxType /\ reduced' \in BOOLEAN
    BY <1>4, <1>t, BoundFacts DEF TPProgress, SetCtx, CtxType
  <2>2. hand' \in HandType
    <3>1. PICK ends \in BOOLEAN : hand' = [hand EXCEPT !.at = IF ends THEN "latch" ELSE "protect",
                                                        !.mem = ends, !.then = "protect"]
      BY <1>4, <1>t DEF TPProgress, HandType, CtxType
    <3> QED BY <3>1, <1>t, <1>s DEF HandType
  <2>3. tpFilled' \in BOOLEAN /\ late' \in BOOLEAN
    BY <1>4, <1>t DEF TPProgress, External
  <2> QED BY <2>1, <2>2, <2>3 DEF TypesMove
<1>5. CASE Latch
  <2>1. ctx' \in CtxType /\ reduced' \in BOOLEAN
    BY <1>5, <1>t, BoundFacts DEF Latch, SetCtx, CtxType
  <2>2. hand' \in HandType
    BY <1>5, <1>t, <1>s DEF Latch, HandType
  <2>3. tpFilled' \in BOOLEAN /\ late' \in BOOLEAN
    BY <1>5, <1>t DEF Latch, External
  <2> QED BY <2>1, <2>2, <2>3 DEF TypesMove
<1>6. CASE CancelLegs
  <2>1. ctx' \in CtxType /\ reduced' \in BOOLEAN
    <3> DEFINE d == settleManagedFills(ctx, leg')
    <3>1. ctx' = [d EXCEPT !.working = FALSE] \/ ctx' = d
      BY <1>6 DEF CancelLegs, SetCtx
    <3>2. reduced' \in BOOLEAN
      BY <1>6, <1>t DEF CancelLegs, SetCtx
    <3>3. d \in CtxType
      BY <1>t, LegStep, SettleFacts DEF LegsMove
    <3> HIDE DEF d
    <3> QED BY <3>1, <3>2, <3>3 DEF CtxType
  <2>2. hand' \in HandType
    <3>1. PICK confirmed \in BOOLEAN : Continue(confirmed)
      BY <1>6 DEF CancelLegs
    <3>2. hand.then \in Callers
      BY <1>6 DEF CancelLegs, IInv, CancelKnows, Callers
    <3> QED BY <3>1, <3>2, <1>t, ContinueFacts
  <2>3. tpFilled' \in BOOLEAN /\ late' \in BOOLEAN
    BY <1>6, <1>t DEF CancelLegs, External
  <2> QED BY <2>1, <2>2, <2>3 DEF TypesMove
<1>7. CASE Protect
  <2>1. ctx' \in CtxType /\ reduced' \in BOOLEAN
    BY <1>7, <1>t, BoundFacts DEF Protect, SetCtx, CtxType
  <2>2. hand' \in HandType
    <3>1. Goto(hand.after) \/ CloseEligibility("emergency")
      BY <1>7 DEF Protect
    <3> QED BY <3>1, <1>t, <1>s, GotoFacts, CloseFacts DEF HandType
  <2>3. tpFilled' \in BOOLEAN /\ late' \in BOOLEAN
    BY <1>7, <1>t DEF Protect, External
  <2> QED BY <2>1, <2>2, <2>3 DEF TypesMove
<1>8. CASE enforceManagedRisk
  <2>1. ctx' \in CtxType /\ reduced' \in BOOLEAN
    BY <1>8, <1>t, BoundFacts DEF enforceManagedRisk, SetCtx, CtxType
  <2>2. hand' \in HandType
    BY <1>8, <1>t, LeaveFacts, GotoFacts, CloseFacts, <1>s DEF enforceManagedRisk
  <2>3. tpFilled' \in BOOLEAN /\ late' \in BOOLEAN
    BY <1>8, <1>t DEF enforceManagedRisk, External
  <2> QED BY <2>1, <2>2, <2>3 DEF TypesMove
<1>9. CASE ExitStarts
  <2>1. ctx' \in CtxType /\ reduced' \in BOOLEAN
    BY <1>9, <1>t, BoundFacts DEF ExitStarts, SetCtx, CtxType
  <2>2. hand' \in HandType
    <3>1. hand' = Idle \/ Goto("failed") \/ Leave(ctx')
      BY <1>9 DEF ExitStarts
    <3> QED BY <3>1, <1>t, <1>s, <1>i, GotoFacts, LeaveFacts
  <2>3. tpFilled' \in BOOLEAN /\ late' \in BOOLEAN
    BY <1>9, <1>t DEF ExitStarts, External
  <2> QED BY <2>1, <2>2, <2>3 DEF TypesMove
<1>10. CASE Decide
  <2>1. ctx' \in CtxType /\ reduced' \in BOOLEAN
    BY <1>10, <1>t DEF Decide
  <2>2. hand' \in HandType
    BY <1>10, <1>t, LeaveFacts, GotoFacts, CloseFacts, <1>s DEF Decide
  <2>3. tpFilled' \in BOOLEAN /\ late' \in BOOLEAN
    BY <1>10, <1>t DEF Decide, External
  <2> QED BY <2>1, <2>2, <2>3 DEF TypesMove
<1>11. CASE FirstLeg
  <2>1. ctx' \in CtxType /\ reduced' \in BOOLEAN
    BY <1>11, <1>t DEF FirstLeg
  <2>2. hand' \in HandType
    <3>1. AfterSubmit(1, "second") \/ Goto("failed") \/ Goto("second") \/ CloseEligibility("finish")
      BY <1>11 DEF FirstLeg
    <3> QED BY <3>1, <1>t, <1>s, GotoFacts, LeaveFacts, CloseFacts, SubmitFacts
  <2>3. tpFilled' \in BOOLEAN /\ late' \in BOOLEAN
    BY <1>11, <1>t DEF FirstLeg, External
  <2> QED BY <2>1, <2>2, <2>3 DEF TypesMove
<1>12. CASE FirstLegSent
  <2>1. ctx' \in CtxType /\ reduced' \in BOOLEAN
    BY <1>12, <1>t DEF FirstLegSent
  <2>2. hand' \in HandType
    BY <1>12, <1>t, LeaveFacts, GotoFacts, CloseFacts, <1>s DEF FirstLegSent
  <2>3. tpFilled' \in BOOLEAN /\ late' \in BOOLEAN
    BY <1>12, <1>t DEF FirstLegSent, External
  <2> QED BY <2>1, <2>2, <2>3 DEF TypesMove
<1>13. CASE NoSecondLeg
  <2>1. ctx' \in CtxType /\ reduced' \in BOOLEAN
    BY <1>13, <1>t DEF NoSecondLeg
  <2>2. hand' \in HandType
    BY <1>13, <1>t, LeaveFacts, GotoFacts, CloseFacts, <1>s DEF NoSecondLeg
  <2>3. tpFilled' \in BOOLEAN /\ late' \in BOOLEAN
    BY <1>13, <1>t DEF NoSecondLeg, External
  <2> QED BY <2>1, <2>2, <2>3 DEF TypesMove
<1>14. CASE SecondLegChecks
  <2>1. ctx' \in CtxType /\ reduced' \in BOOLEAN
    BY <1>14, <1>t, BoundFacts DEF SecondLegChecks, SetCtx, CtxType
  <2>2. hand' \in HandType
    BY <1>14, <1>t, LeaveFacts, GotoFacts, CloseFacts, <1>s DEF SecondLegChecks
  <2>3. tpFilled' \in BOOLEAN /\ late' \in BOOLEAN
    BY <1>14, <1>t DEF SecondLegChecks, External
  <2> QED BY <2>1, <2>2, <2>3 DEF TypesMove
<1>15. CASE SecondLeg
  <2>1. ctx' \in CtxType /\ reduced' \in BOOLEAN
    BY <1>15, <1>t DEF SecondLeg
  <2>2. hand' \in HandType
    <3>1. AfterSubmit(2, "finish") \/ Goto("failed")
      BY <1>15 DEF SecondLeg
    <3> QED BY <3>1, <1>t, <1>s, GotoFacts, SubmitFacts
  <2>3. tpFilled' \in BOOLEAN /\ late' \in BOOLEAN
    BY <1>15, <1>t DEF SecondLeg, External
  <2> QED BY <2>1, <2>2, <2>3 DEF TypesMove
<1>16. CASE Finish
  <2>1. ctx' \in CtxType /\ reduced' \in BOOLEAN
    BY <1>16, <1>t, BoundFacts DEF Finish, SetCtx, CtxType
  <2>2. hand' \in HandType
    BY <1>16, <1>t, LeaveFacts, GotoFacts, CloseFacts, <1>s DEF Finish
  <2>3. tpFilled' \in BOOLEAN /\ late' \in BOOLEAN
    BY <1>16, <1>t DEF Finish, External
  <2> QED BY <2>1, <2>2, <2>3 DEF TypesMove
<1>17. CASE PassFails
  <2>1. ctx' \in CtxType /\ reduced' \in BOOLEAN
    BY <1>17, <1>t, BoundFacts DEF PassFails, SetCtx, CtxType
  <2>2. hand' \in HandType
    BY <1>17, <1>t, LeaveFacts, GotoFacts, CloseFacts, <1>s DEF PassFails
  <2>3. tpFilled' \in BOOLEAN /\ late' \in BOOLEAN
    BY <1>17, <1>t DEF PassFails, External
  <2> QED BY <2>1, <2>2, <2>3 DEF TypesMove
<1>18. CASE reconcileOpenTrade
  <2>1. ctx' \in CtxType /\ reduced' \in BOOLEAN
    BY <1>18, <1>t, BoundFacts DEF reconcileOpenTrade, SetCtx, CtxType
  <2>2. hand' \in HandType
    <3>1. hand' = Idle \/ CloseEligibility("gone") \/ CloseEligibility("track") \/ Goto("track")
      BY <1>18 DEF reconcileOpenTrade
    <3> QED BY <3>1, <1>t, <1>s, <1>i, GotoFacts, CloseFacts
  <2>3. tpFilled' \in BOOLEAN /\ late' \in BOOLEAN
    BY <1>18, <1>t DEF reconcileOpenTrade, External
  <2> QED BY <2>1, <2>2, <2>3 DEF TypesMove
<1>19. CASE Track
  <2>1. ctx' \in CtxType /\ reduced' \in BOOLEAN
    BY <1>19, <1>t, BoundFacts DEF Track, SetCtx, CtxType
  <2>2. hand' \in HandType
    BY <1>19, <1>i DEF Track
  <2>3. tpFilled' \in BOOLEAN /\ late' \in BOOLEAN
    BY <1>19, <1>t DEF Track, External
  <2> QED BY <2>1, <2>2, <2>3 DEF TypesMove
<1>20. CASE Gone
  <2>1. ctx' \in CtxType /\ reduced' \in BOOLEAN
    BY <1>20, <1>t, BoundFacts DEF Gone, SetCtx, CtxType
  <2>2. hand' \in HandType
    BY <1>20, <1>i DEF Gone
  <2>3. tpFilled' \in BOOLEAN /\ late' \in BOOLEAN
    BY <1>20, <1>t DEF Gone, External
  <2> QED BY <2>1, <2>2, <2>3 DEF TypesMove
<1>21. CASE Withdraw
  <2>1. ctx' \in CtxType /\ reduced' \in BOOLEAN
    BY <1>21, <1>t, BoundFacts DEF Withdraw, SetCtx, CtxType
  <2>2. hand' \in HandType
    BY <1>21, <1>i DEF Withdraw
  <2>3. tpFilled' \in BOOLEAN /\ late' \in BOOLEAN
    BY <1>21, <1>t DEF Withdraw, External
  <2> QED BY <2>1, <2>2, <2>3 DEF TypesMove
<1>22. CASE reconcileManagedEntry
  <2>1. ctx' \in CtxType /\ reduced' \in BOOLEAN
    BY <1>22, <1>t, BoundFacts DEF reconcileManagedEntry, SetCtx, CtxType
  <2>2. hand' \in HandType
    BY <1>22, <1>t, <2>1, StartFacts DEF reconcileManagedEntry
  <2>3. tpFilled' \in BOOLEAN /\ late' \in BOOLEAN
    BY <1>22, <1>t DEF reconcileManagedEntry, External
  <2> QED BY <2>1, <2>2, <2>3 DEF TypesMove
<1>23. CASE ExecuteClose
  <2>1. ctx' \in CtxType /\ reduced' \in BOOLEAN
    BY <1>23, <1>t DEF ExecuteClose
  <2>2. hand' \in HandType
    BY <1>23, <1>i, <1>s DEF ExecuteClose, HandType
  <2>3. tpFilled' \in BOOLEAN /\ late' \in BOOLEAN
    BY <1>23, <1>t DEF ExecuteClose, External
  <2> QED BY <2>1, <2>2, <2>3 DEF TypesMove
<1>24. CASE ExecuteCancel
  <2>1. ctx' \in CtxType /\ reduced' \in BOOLEAN
    BY <1>24, <1>t DEF ExecuteCancel
  <2>2. hand' \in HandType
    BY <1>24, <1>i, <1>s DEF ExecuteCancel, HandType
  <2>3. tpFilled' \in BOOLEAN /\ late' \in BOOLEAN
    BY <1>24, <1>t DEF ExecuteCancel, External
  <2> QED BY <2>1, <2>2, <2>3 DEF TypesMove
<1>25. CASE ExitSettles
  <2>1. ctx' \in CtxType /\ reduced' \in BOOLEAN
    BY <1>25, <1>t, BoundFacts DEF ExitSettles, SetCtx, CtxType
  <2>2. hand' \in HandType
    <3>1. hand' = hand \/ Goto("flat")
      BY <1>25 DEF ExitSettles
    <3> QED BY <3>1, <1>t, <1>s, GotoFacts
  <2>3. tpFilled' \in BOOLEAN /\ late' \in BOOLEAN
    BY <1>25, <1>t DEF ExitSettles, External
  <2> QED BY <2>1, <2>2, <2>3 DEF TypesMove
<1>33. CASE SecondLegRevoked
  <2>1. ctx' \in CtxType /\ reduced' \in BOOLEAN
    BY <1>33, <1>t DEF SecondLegRevoked
  <2>2. hand' \in HandType
    BY <1>33, <1>t, <1>s, GotoFacts DEF SecondLegRevoked
  <2>3. tpFilled' \in BOOLEAN /\ late' \in BOOLEAN
    BY <1>33, <1>t DEF SecondLegRevoked
  <2> QED BY <2>1, <2>2, <2>3 DEF TypesMove
<1>34. CASE finishTradeOrders
  <2>1. ctx' \in CtxType /\ reduced' \in BOOLEAN
    <3>1. \/ ctx' = ctx
          \/ ctx' = [ctx EXCEPT !.closing = FALSE, !.qty = 0, !.state = "CLOSED"]
      BY <1>34 DEF finishTradeOrders, SetCtx
    <3>2. reduced' \in BOOLEAN
      BY <1>34, <1>t DEF finishTradeOrders, SetCtx
    <3>3. ctx \in CtxType /\ 0 \in 0..MaxPos
      BY <1>t, BoundFacts
    <3>4. ctx' \in CtxType
      BY <3>1, <3>3 DEF CtxType
    <3> QED BY <3>2, <3>4
  <2>2. hand' \in HandType
    BY <1>34, <1>i DEF finishTradeOrders
  <2>3. tpFilled' \in BOOLEAN /\ late' \in BOOLEAN
    BY <1>34, <1>t DEF finishTradeOrders
  <2> QED BY <2>1, <2>2, <2>3 DEF TypesMove
<1>26. CASE Crash
  <2>1. ctx' \in CtxType /\ reduced' \in BOOLEAN
    BY <1>26, <1>t DEF Crash
  <2>2. hand' \in HandType
    BY <1>26, <1>i DEF Crash
  <2>3. tpFilled' \in BOOLEAN /\ late' \in BOOLEAN
    BY <1>26, <1>t DEF Crash, External
  <2> QED BY <2>1, <2>2, <2>3 DEF TypesMove
<1>27. ASSUME NEW i \in Legs, Arrive(i) PROVE TypesMove
  <2>1. ctx' \in CtxType /\ reduced' \in BOOLEAN
    BY <1>27, <1>t DEF Arrive
  <2>2. hand' \in HandType
    BY <1>27, <1>t, LeaveFacts, GotoFacts, CloseFacts, <1>s DEF Arrive
  <2>3. tpFilled' \in BOOLEAN /\ late' \in BOOLEAN
    BY <1>27, <1>t DEF Arrive, External
  <2> QED BY <2>1, <2>2, <2>3 DEF TypesMove
<1>28. ASSUME NEW i \in Legs, Fill(i) PROVE TypesMove
  <2>1. ctx' \in CtxType /\ reduced' \in BOOLEAN
    BY <1>28, <1>t DEF Fill
  <2>2. hand' \in HandType
    BY <1>28, <1>t, LeaveFacts, GotoFacts, CloseFacts, <1>s DEF Fill
  <2>3. tpFilled' \in BOOLEAN /\ late' \in BOOLEAN
    BY <1>28, <1>t DEF Fill, External
  <2> QED BY <2>1, <2>2, <2>3 DEF TypesMove
<1>29. ASSUME NEW i \in Legs, Expire(i) PROVE TypesMove
  <2>1. ctx' \in CtxType /\ reduced' \in BOOLEAN
    BY <1>29, <1>t DEF Expire
  <2>2. hand' \in HandType
    BY <1>29, <1>t, LeaveFacts, GotoFacts, CloseFacts, <1>s DEF Expire
  <2>3. tpFilled' \in BOOLEAN /\ late' \in BOOLEAN
    BY <1>29, <1>t DEF Expire, External
  <2> QED BY <2>1, <2>2, <2>3 DEF TypesMove
<1>30. CASE PositionMoves
  <2>1. ctx' \in CtxType /\ reduced' \in BOOLEAN
    BY <1>30, <1>t DEF PositionMoves
  <2>2. hand' \in HandType
    BY <1>30, <1>t, LeaveFacts, GotoFacts, CloseFacts, <1>s DEF PositionMoves
  <2>3. tpFilled' \in BOOLEAN /\ late' \in BOOLEAN
    BY <1>30, <1>t DEF PositionMoves, External
  <2> QED BY <2>1, <2>2, <2>3 DEF TypesMove
<1>31. CASE DeadlinePasses
  <2>1. ctx' \in CtxType /\ reduced' \in BOOLEAN
    BY <1>31, <1>t DEF DeadlinePasses
  <2>2. hand' \in HandType
    BY <1>31, <1>t, LeaveFacts, GotoFacts, CloseFacts, <1>s DEF DeadlinePasses
  <2>3. tpFilled' \in BOOLEAN /\ late' \in BOOLEAN
    BY <1>31, <1>t DEF DeadlinePasses, External
  <2> QED BY <2>1, <2>2, <2>3 DEF TypesMove
<1>32. CASE UNCHANGED vars
  BY <1>32, <1>t DEF vars, TypesMove
<1> QED BY <1>1, <1>2, <1>3, <1>4, <1>5, <1>6, <1>7, <1>8, <1>9, <1>10, <1>11, <1>12, <1>13,
           <1>14, <1>15, <1>16, <1>17, <1>18, <1>19, <1>20, <1>21, <1>22, <1>23, <1>24, <1>25,
           <1>26, <1>27, <1>28, <1>29, <1>30, <1>31, <1>32, <1>33, <1>34
           DEF Next, Handler, Exchange

(* A handler outside the pass of the entry relies on nothing of it.        *)
Afters  == {"decide", "second", "finish"}
Outside == {"idle", "tracked", "latch", "failed", "track", "gone", "exit", "risk", "emergency",
            "withdraw", "flat"}

LEMMA OutsideKnows == ASSUME hand'.at \in Outside, hand'.after \in Afters PROVE PassKnows'
BY DEF Outside, Afters, PassKnows, Passing, Sending

(* Every step leaves a pass that knows of the latch and of the stop. *)
LEMMA PassStep == IInv /\ [Next]_vars => PassKnows'
<1> SUFFICES ASSUME IInv, [Next]_vars PROVE PassKnows'
  OBVIOUS
<1>t. Typed /\ ctx \in CtxType /\ hand \in HandType /\ leg \in [Legs -> LegType]
  BY TypeFacts DEF IInv, Typed
<1>s. \A st \in {"settle", "tp", "protect", "decide", "first", "second", "add", "finish", "idle",
           "tracked", "track", "gone", "emergency", "exit", "risk", "withdraw", "flat", "failed"} : st \in Stages
  BY DEF Stages
<1>k. PassKnows
  BY DEF IInv
<1>a. hand.after \in Afters
  BY DEF IInv, PassKnows, Afters
<1>y. TypesMove
  BY TypeStep
<1>1. CASE executeManagedOpen
  <2>1. hand'.at = "query" /\ hand'.after = "decide" /\ (ctx'.disabled => hand'.mem)
    BY <1>1, <1>t, StartFacts DEF executeManagedOpen
  <2> QED BY <2>1 DEF PassKnows, Passing, Sending
<1>2. CASE QueryLegs
  <2>1. /\ hand'.at = "settle" /\ hand'.after = "decide" /\ ctx' = ctx
        /\ hand.mem => hand'.mem
    BY <1>2, <1>t, <1>k DEF QueryLegs, HandType, PassKnows
  <2> QED BY <1>2, <2>1, <1>k DEF QueryLegs, PassKnows, Passing, Sending
<1>3. CASE Settle
  <2>1. ctx'.disabled = ctx.disabled
    BY <1>3, <1>t, SettleFacts DEF Settle, SetCtx
  <2>2. /\ hand'.at = IF hand.after = "decide" THEN "tp" ELSE "protect"
        /\ hand'.mem = hand.mem /\ hand'.after = hand.after
    BY <1>3, <1>t, <1>s, GotoFacts DEF Settle
  <2> QED BY <1>3, <2>1, <2>2, <1>k DEF Settle, PassKnows, Passing, Sending
<1>4. CASE TPProgress
  <2>1. ctx'.disabled = ctx.disabled
    BY <1>4, <1>t DEF TPProgress, SetCtx, CtxType
  <2>2. /\ hand'.after = hand.after /\ (hand.mem => hand'.mem)
        /\ hand'.at = IF hand'.mem THEN "latch" ELSE "protect"
    <3>1. PICK ends \in BOOLEAN : /\ hand.mem => ends
                                  /\ hand' = [hand EXCEPT !.at = IF ends THEN "latch" ELSE "protect",
                                                          !.mem = ends, !.then = "protect"]
      BY <1>4, <1>t DEF TPProgress, HandType, CtxType
    <3> QED BY <3>1, <1>t DEF HandType
  <2> QED BY <1>4, <2>1, <2>2, <1>k DEF TPProgress, PassKnows, Passing, Sending
<1>5. CASE Latch
  <2>1. hand'.at = "cancel" /\ hand'.mem /\ hand'.after = hand.after
    BY <1>5, <1>t DEF Latch, HandType
  <2> QED BY <2>1, <1>k DEF PassKnows, Passing, Sending
<1>6. CASE CancelLegs
  <2>1. PICK confirmed \in BOOLEAN : Continue(confirmed)
    BY <1>6 DEF CancelLegs
  <2>2. /\ hand.then \in Callers /\ hand.mem /\ hand.after \in Afters
        /\ hand.then = "protect" => hand.after = "decide"
    BY <1>6, <1>k DEF CancelLegs, IInv, CancelKnows, PassKnows, Afters
  <2>3. \/ hand'.at \in Outside /\ hand'.after \in Afters
        \/ hand'.at = hand.then /\ hand'.mem = hand.mem /\ hand'.after = hand.after
    <3>1. CASE hand'.at = hand.then /\ hand'.mem = hand.mem /\ hand'.after = hand.after
      BY <3>1
    <3>2. CASE ~ (hand'.at = hand.then /\ hand'.mem = hand.mem /\ hand'.after = hand.after)
      BY <3>2, <2>1, <2>2, <1>t, ContinueFacts DEF Outside, Afters
    <3> QED BY <3>1, <3>2
  <2> QED BY <2>2, <2>3, OutsideKnows DEF PassKnows, Passing, Sending, Callers, Afters
<1>7. CASE Protect
  <2>1. CASE CloseEligibility("emergency")
    <3>1. hand'.at \in Outside /\ hand'.after \in Afters
      BY <1>7, <2>1, <1>t, <1>a, <1>s, CloseFacts DEF Outside, Afters
    <3> QED BY <3>1, OutsideKnows
  <2>2. CASE Goto(hand.after) /\ SetCtx([ctx EXCEPT !.stop = IF ctx.qty > 0 THEN ctx.qty ELSE @])
    <3>1. /\ ctx'.disabled = ctx.disabled /\ ctx'.qty = ctx.qty
          /\ ctx'.stop = IF ctx.qty > 0 THEN ctx.qty ELSE ctx.stop
      BY <2>2, <1>t DEF SetCtx, CtxType
    <3>2. ctx'.stop >= ctx'.qty
      BY <3>1, <1>t, BoundFacts DEF CtxType
    <3>3. hand'.at = hand.after /\ hand'.mem = hand.mem /\ hand'.after = hand.after
      BY <2>2, <1>t, GotoFacts DEF HandType
    <3> QED BY <1>7, <3>1, <3>2, <3>3, <1>k DEF Protect, PassKnows, Passing, Sending
  <2> QED BY <1>7, <2>1, <2>2 DEF Protect
<1>8. CASE enforceManagedRisk
  <2>1. hand'.at \in Outside /\ hand'.after \in Afters
    BY <1>8, <1>t, <1>a, <1>s, CloseFacts DEF enforceManagedRisk, Outside, Afters
  <2> QED BY <2>1, OutsideKnows
<1>9. CASE ExitStarts
  <2>1. hand'.at \in Outside /\ hand'.after \in Afters
    <3>1. hand' = Idle \/ Goto("failed") \/ Leave(ctx')
      BY <1>9 DEF ExitStarts
    <3>2. CASE hand' = Idle
      BY <3>2 DEF Outside, Afters, Idle
    <3>3. CASE Goto("failed")
      BY <3>3, <1>t, <1>a, <1>s, GotoFacts DEF Outside, Afters
    <3>4. CASE Leave(ctx')
      BY <3>4, LeaveFacts DEF Outside, Afters
    <3> QED BY <3>1, <3>2, <3>3, <3>4
  <2> QED BY <2>1, OutsideKnows
<1>10. CASE Decide
  <2>1. CASE CloseEligibility("decide")
    <3>1. hand'.at \in Outside /\ hand'.after \in Afters
      BY <1>10, <2>1, <1>t, <1>a, <1>s, CloseFacts DEF Outside, Afters
    <3> QED BY <3>1, OutsideKnows
  <2>2. CASE Goto(IF hand.mem THEN "finish" ELSE "first")
    <3>1. /\ hand'.at = IF hand.mem THEN "finish" ELSE "first"
          /\ hand'.mem = hand.mem /\ hand'.after = hand.after
      BY <2>2, <1>t, <1>s, GotoFacts
    <3> QED BY <1>10, <3>1, <1>k DEF Decide, PassKnows, Passing, Sending
  <2> QED BY <1>10, <2>1, <2>2 DEF Decide
<1>11. CASE FirstLeg
  <2>1. CASE CloseEligibility("finish") \/ Goto("failed")
    <3>1. hand'.at \in Outside /\ hand'.after \in Afters
      BY <1>11, <2>1, <1>t, <1>a, <1>s, CloseFacts, GotoFacts DEF Outside, Afters
    <3> QED BY <3>1, OutsideKnows
  <2>2. CASE AfterSubmit(1, "second") \/ Goto("second")
    <3>1. /\ hand'.at = "second" \/ (hand'.at = "settle" /\ hand'.after = "second")
          /\ hand'.mem = hand.mem /\ (hand'.after = hand.after \/ hand'.after = "second")
      BY <2>2, <1>t, <1>s, GotoFacts, SubmitFacts
    <3> QED BY <1>11, <3>1, <1>k DEF FirstLeg, PassKnows, Passing, Sending
  <2> QED BY <1>11, <2>1, <2>2 DEF FirstLeg
<1>12. CASE FirstLegSent
  <2>1. hand'.at = "second" /\ hand'.mem = hand.mem /\ hand'.after = hand.after
    BY <1>12, <1>t, <1>s, GotoFacts DEF FirstLegSent
  <2> QED BY <1>12, <2>1, <1>k DEF FirstLegSent, PassKnows, Passing, Sending
<1>13. CASE NoSecondLeg
  <2>1. hand'.at = "finish" /\ hand'.mem = hand.mem /\ hand'.after = hand.after
    BY <1>13, <1>t, <1>s, GotoFacts DEF NoSecondLeg
  <2> QED BY <1>13, <2>1, <1>k DEF NoSecondLeg, PassKnows, Passing, Sending
<1>14. CASE SecondLegChecks
  <2>1. CASE CloseEligibility("idle")
    <3>1. hand'.at \in Outside /\ hand'.after \in Afters
      BY <1>14, <2>1, <1>t, <1>a, <1>s, CloseFacts DEF Outside, Afters
    <3> QED BY <3>1, OutsideKnows
  <2>2. CASE Goto("add")
    <3>1. hand'.at = "add" /\ hand'.mem = hand.mem /\ hand'.after = hand.after
      BY <2>2, <1>t, <1>s, GotoFacts
    <3>2. ctx'.disabled = ctx.disabled /\ ctx'.qty = ctx.qty /\ ctx'.stop = ctx.stop /\ leg' = leg
      BY <1>14, <1>t DEF SecondLegChecks, SetCtx, CtxType
    <3> QED BY <1>14, <3>1, <3>2, <1>k DEF SecondLegChecks, Second, PassKnows, Passing, Sending
  <2> QED BY <1>14, <2>1, <2>2 DEF SecondLegChecks
<1>15. CASE SecondLeg
  <2>0. ctx' = ctx /\ hand.at = "add" /\ (AfterSubmit(2, "finish") \/ Goto("failed"))
    BY <1>15 DEF SecondLeg
  <2>1. CASE Goto("failed")
    <3>1. hand'.at \in Outside /\ hand'.after \in Afters
      BY <2>1, <1>t, <1>a, <1>s, GotoFacts DEF Outside, Afters
    <3> QED BY <3>1, OutsideKnows
  <2>2. CASE AfterSubmit(2, "finish")
    <3>1. /\ hand'.at = "finish" \/ (hand'.at = "settle" /\ hand'.after = "finish")
          /\ hand'.mem = hand.mem /\ (hand'.after = hand.after \/ hand'.after = "finish")
      BY <2>2, <1>t, <1>s, SubmitFacts
    <3> QED BY <2>0, <3>1, <1>k DEF PassKnows, Passing, Sending
  <2> QED BY <2>0, <2>1, <2>2
<1>16. CASE Finish
  <2>1. hand'.at \in Outside /\ hand'.after \in Afters
    BY <1>16, LeaveFacts DEF Finish, Outside, Afters
  <2> QED BY <2>1, OutsideKnows
<1>17. CASE PassFails
  <2>1. hand'.at \in Outside /\ hand'.after \in Afters
    BY <1>17, LeaveFacts DEF PassFails, Outside, Afters
  <2> QED BY <2>1, OutsideKnows
<1>18. CASE reconcileOpenTrade
  <2>1. hand'.at \in Outside /\ hand'.after \in Afters
    <3>1. hand' = Idle \/ CloseEligibility("gone") \/ CloseEligibility("track") \/ Goto("track")
      BY <1>18 DEF reconcileOpenTrade
    <3>2. CASE hand' = Idle
      BY <3>2 DEF Outside, Afters, Idle
    <3>3. CASE CloseEligibility("gone") \/ CloseEligibility("track")
      BY <3>3, <1>t, <1>a, <1>s, CloseFacts DEF Outside, Afters
    <3>4. CASE Goto("track")
      BY <3>4, <1>t, <1>a, <1>s, GotoFacts DEF Outside, Afters
    <3> QED BY <3>1, <3>2, <3>3, <3>4
  <2> QED BY <2>1, OutsideKnows
<1>19. CASE Track
  <2>1. hand'.at \in Outside /\ hand'.after \in Afters
    BY <1>19 DEF Track, Outside, Afters, Idle
  <2> QED BY <2>1, OutsideKnows
<1>20. CASE Gone
  <2>1. hand'.at \in Outside /\ hand'.after \in Afters
    BY <1>20 DEF Gone, Outside, Afters, Idle
  <2> QED BY <2>1, OutsideKnows
<1>21. CASE Withdraw
  <2>1. hand'.at \in Outside /\ hand'.after \in Afters
    BY <1>21 DEF Withdraw, Outside, Afters, Idle
  <2> QED BY <2>1, OutsideKnows
<1>22. CASE reconcileManagedEntry
  <2>1. hand'.at = "query" /\ hand'.after = "decide" /\ (ctx'.disabled => hand'.mem)
    BY <1>22, <1>t, <1>y, StartFacts DEF reconcileManagedEntry, TypesMove
  <2> QED BY <2>1 DEF PassKnows, Passing, Sending
<1>23. CASE ExecuteClose
  <2>1. hand'.at \in Outside /\ hand'.after \in Afters
    BY <1>23 DEF ExecuteClose, Outside, Afters, Idle
  <2> QED BY <2>1, OutsideKnows
<1>24. CASE ExecuteCancel
  <2>1. hand'.at \in Outside /\ hand'.after \in Afters
    BY <1>24 DEF ExecuteCancel, Outside, Afters, Idle
  <2> QED BY <2>1, OutsideKnows
<1>25. CASE ExitSettles
  <2>1. hand'.at \in Outside /\ hand'.after \in Afters
    <3>1. (hand' = hand /\ hand.at = "idle") \/ Goto("flat")
      BY <1>25 DEF ExitSettles
    <3> QED BY <3>1, <1>t, <1>a, <1>s, GotoFacts DEF Outside, Afters
  <2> QED BY <2>1, OutsideKnows
<1>33. CASE SecondLegRevoked
  <2>1. hand'.at \in Outside /\ hand'.after \in Afters
    BY <1>33, <1>t, <1>a, <1>s, GotoFacts DEF SecondLegRevoked, Outside, Afters
  <2> QED BY <2>1, OutsideKnows
<1>34. CASE finishTradeOrders
  <2>1. hand'.at \in Outside /\ hand'.after \in Afters
    BY <1>34 DEF finishTradeOrders, Outside, Afters, Idle
  <2> QED BY <2>1, OutsideKnows
<1>26. CASE Crash
  <2>1. hand'.at \in Outside /\ hand'.after \in Afters
    BY <1>26 DEF Crash, Outside, Afters, Idle
  <2> QED BY <2>1, OutsideKnows
<1>27. ASSUME NEW i \in Legs, Arrive(i) PROVE PassKnows'
  BY <1>27, <1>k DEF Arrive, PassKnows, Passing, Sending
<1>28. ASSUME NEW i \in Legs, Fill(i) PROVE PassKnows'
  BY <1>28, <1>k DEF Fill, PassKnows, Passing, Sending
<1>29. ASSUME NEW i \in Legs, Expire(i) PROVE PassKnows'
  BY <1>29, <1>k DEF Expire, PassKnows, Passing, Sending
<1>30. CASE PositionMoves
  BY <1>30, <1>k DEF PositionMoves, PassKnows, Passing, Sending
<1>31. CASE DeadlinePasses
  BY <1>31, <1>k DEF DeadlinePasses, PassKnows, Passing, Sending
<1>32. CASE UNCHANGED vars
  BY <1>32, <1>k DEF vars, PassKnows, Passing, Sending
<1> QED BY <1>1, <1>2, <1>3, <1>4, <1>5, <1>6, <1>7, <1>8, <1>9, <1>10, <1>11, <1>12, <1>13,
           <1>14, <1>15, <1>16, <1>17, <1>18, <1>19, <1>20, <1>21, <1>22, <1>23, <1>24, <1>25,
           <1>26, <1>27, <1>28, <1>29, <1>30, <1>31, <1>32, <1>33, <1>34
           DEF Next, Handler, Exchange

(* A step that neither cancels nor goes on from a cancellation.            *)
LEMMA NotCancelling ==
    ASSUME hand'.at \notin {"latch", "cancel", "gone", "withdraw"} PROVE CancelKnows'
BY DEF CancelKnows

LEMMA Latching ==
    ASSUME Typed, PassKnows, NEW stage \in Callers, CloseEligibility(stage),
           stage = "protect" => hand.after = "decide"
    PROVE  CancelKnows'
<1>1. stage \in Stages
  BY DEF Callers, Stages
<1>2. hand'.at = "latch" /\ hand'.then = stage /\ hand'.after = hand.after
  BY <1>1, CloseFacts
<1> QED BY <1>2 DEF CancelKnows

(* Every step leaves a cancellation that its caller can rely on. *)
LEMMA CancelStep == IInv /\ [Next]_vars => CancelKnows'
<1> SUFFICES ASSUME IInv, [Next]_vars PROVE CancelKnows'
  OBVIOUS
<1>t. Typed /\ ctx \in CtxType /\ hand \in HandType /\ leg \in [Legs -> LegType]
  BY TypeFacts DEF IInv, Typed
<1>s. \A st \in {"settle", "tp", "protect", "decide", "first", "second", "add", "finish", "idle",
           "tracked", "track", "gone", "emergency", "exit", "risk", "withdraw", "flat", "failed"} : st \in Stages
  BY DEF Stages
<1>i. Idle \in HandType
  BY BoundFacts DEF Idle, HandType, Stages
<1>k. PassKnows
  BY DEF IInv
<1>x. CancelKnows
  BY DEF IInv
<1>c. CtxFits
  BY DEF IInv
<1>m. LegsMove /\ PosMove
  BY LegStep
<1>y. TypesMove
  BY TypeStep
<1>1. CASE executeManagedOpen
  <2>1. hand'.at \notin {"latch", "cancel", "gone", "withdraw"}
    BY <1>1, <1>t, StartFacts DEF executeManagedOpen
  <2> QED BY <2>1, NotCancelling
<1>2. CASE QueryLegs
  <2>1. hand'.at \notin {"latch", "cancel", "gone", "withdraw"}
    BY <1>2, <1>t DEF QueryLegs, HandType
  <2> QED BY <2>1, NotCancelling
<1>3. CASE Settle
  <2>1. hand'.at \notin {"latch", "cancel", "gone", "withdraw"}
    BY <1>3, <1>t, <1>s, GotoFacts DEF Settle
  <2> QED BY <2>1, NotCancelling
<1>4. CASE TPProgress
  <2>1. /\ hand'.after = hand.after /\ hand'.then = "protect" /\ hand'.at \in {"latch", "protect"}
    <3>1. PICK ends \in BOOLEAN : hand' = [hand EXCEPT !.at = IF ends THEN "latch" ELSE "protect",
                                                       !.mem = ends, !.then = "protect"]
      BY <1>4, <1>t DEF TPProgress, HandType, CtxType
    <3> QED BY <3>1, <1>t DEF HandType
  <2>2. hand'.after = "decide"
    BY <1>4, <2>1, <1>k DEF TPProgress, PassKnows
  <2> QED BY <2>1, <2>2 DEF CancelKnows, Callers
<1>5. CASE Latch
  <2>1. hand'.at = "cancel" /\ hand'.then = hand.then /\ hand'.after = hand.after
    BY <1>5, <1>t DEF Latch, HandType
  <2> QED BY <1>5, <2>1, <1>x DEF Latch, CancelKnows
<1>6. CASE CancelLegs
  <2> DEFINE confirmed == \A i \in Legs : orderTerminal(leg'[i].status)
             d == settleManagedFills(ctx, leg')
  <2>1. ctx' = IF confirmed THEN [d EXCEPT !.working = FALSE] ELSE d
    BY <1>6 DEF CancelLegs, SetCtx
  <2>2. confirmed \in BOOLEAN /\ Continue(confirmed)
    BY <1>6 DEF CancelLegs
  <2>3. leg' \in [Legs -> LegType] /\ (confirmed <=> AllDone')
    BY <1>m DEF LegsMove, AllDone, Done
  <2>4. /\ d \in CtxType
        /\ Filled(leg') # 0 => d.opened /\ (d.qty > 0 \/ pos = 0)
    BY <2>3, <1>t, SettleFacts
  <2> HIDE DEF confirmed, d
  <2>5. hand.then \in Callers
    BY <1>6, <1>x DEF CancelLegs, CancelKnows
  <2>6. /\ hand'.at \notin {"latch", "cancel"}
        /\ hand'.at \in {"gone", "withdraw"} => confirmed /\ hand'.at = hand.then
    BY <2>2, <2>5, <1>t, ContinueFacts DEF Callers
  <2>p. pos' = pos /\ added' = added /\ pos \in Nat /\ added \in Nat
    BY <1>6, <1>t, BoundFacts DEF CancelLegs, Typed
  <2>7. Filled(leg') # 0 => ctx'.opened /\ (~ (ctx'.qty > 0 /\ ctx'.opened) => pos' <= added')
    BY <2>1, <2>4, <2>p DEF CtxType
  <2>8. AllDone' /\ Filled(leg') = 0 => pos' <= added'
    <3> SUFFICES ASSUME AllDone', Filled(leg') = 0 PROVE pos' <= added'
      OBVIOUS
    <3>1. \A i \in Legs : leg'[i].exec = market'[i].exec /\ leg'[i].exec \in Nat
      BY <1>m, BoundFacts DEF LegsMove, LegType, LegsFit, Fits, AllDone, Done
    <3>2. Executed' = 0
      BY <3>1, LegsFacts DEF Executed, Filled
    <3> QED BY <3>2, <2>p, <1>m DEF PosMove, PosBounded
  <2> QED BY <2>3, <2>6, <2>7, <2>8 DEF CancelKnows, Filled
<1>7. CASE Protect
  <2>1. CASE CloseEligibility("emergency")
    BY <1>7, <2>1, <1>t, <1>k, Latching DEF Callers
  <2>2. CASE Goto(hand.after)
    <3>1. hand'.at \notin {"latch", "cancel", "gone", "withdraw"}
      BY <2>2, <1>t, <1>s, <1>k, GotoFacts DEF PassKnows
    <3> QED BY <3>1, NotCancelling
  <2> QED BY <1>7, <2>1, <2>2 DEF Protect
<1>8. CASE enforceManagedRisk
  <2>1. CloseEligibility("risk")
    BY <1>8 DEF enforceManagedRisk
  <2> QED BY <1>8, <2>1, <1>t, <1>k, Latching DEF Callers
<1>9. CASE ExitStarts
  <2>1. hand'.at \notin {"latch", "cancel", "gone", "withdraw"}
    <3>1. hand' = Idle \/ Goto("failed") \/ Leave(ctx')
      BY <1>9 DEF ExitStarts
    <3>2. CASE hand' = Idle
      BY <3>2 DEF Idle
    <3>3. CASE Goto("failed") \/ Leave(ctx')
      BY <3>3, <1>t, <1>s, GotoFacts, LeaveFacts
    <3> QED BY <3>1, <3>2, <3>3
  <2> QED BY <2>1, NotCancelling
<1>10. CASE Decide
  <2>1. CASE CloseEligibility("decide")
    BY <1>10, <2>1, <1>t, <1>k, Latching DEF Callers
  <2>2. CASE Goto("finish") \/ Goto("first")
    <3>1. hand'.at \notin {"latch", "cancel", "gone", "withdraw"}
      BY <2>2, <1>t, <1>s, GotoFacts
    <3> QED BY <3>1, NotCancelling
  <2> QED BY <1>10, <2>1, <2>2 DEF Decide
<1>11. CASE FirstLeg
  <2>1. CASE CloseEligibility("finish")
    BY <1>11, <2>1, <1>t, <1>k, Latching DEF Callers
  <2>2. CASE AfterSubmit(1, "second") \/ Goto("failed") \/ Goto("second")
    <3>1. hand'.at \notin {"latch", "cancel", "gone", "withdraw"}
      BY <2>2, <1>t, <1>s, GotoFacts, SubmitFacts
    <3> QED BY <3>1, NotCancelling
  <2> QED BY <1>11, <2>1, <2>2 DEF FirstLeg
<1>12. CASE FirstLegSent
  <2>1. hand'.at \notin {"latch", "cancel", "gone", "withdraw"}
    BY <1>12, <1>t, <1>s, GotoFacts DEF FirstLegSent
  <2> QED BY <2>1, NotCancelling
<1>13. CASE NoSecondLeg
  <2>1. hand'.at \notin {"latch", "cancel", "gone", "withdraw"}
    BY <1>13, <1>t, <1>s, GotoFacts DEF NoSecondLeg
  <2> QED BY <2>1, NotCancelling
<1>14. CASE SecondLegChecks
  <2>1. CASE CloseEligibility("idle")
    BY <1>14, <2>1, <1>t, <1>k, Latching DEF Callers
  <2>2. CASE Goto("add")
    <3>1. hand'.at \notin {"latch", "cancel", "gone", "withdraw"}
      BY <2>2, <1>t, <1>s, GotoFacts
    <3> QED BY <3>1, NotCancelling
  <2> QED BY <1>14, <2>1, <2>2 DEF SecondLegChecks
<1>15. CASE SecondLeg
  <2>1. hand'.at \notin {"latch", "cancel", "gone", "withdraw"}
    <3>1. AfterSubmit(2, "finish") \/ Goto("failed")
      BY <1>15 DEF SecondLeg
    <3> QED BY <3>1, <1>t, <1>s, GotoFacts, SubmitFacts
  <2> QED BY <2>1, NotCancelling
<1>16. CASE Finish
  <2>1. hand'.at \notin {"latch", "cancel", "gone", "withdraw"}
    BY <1>16, LeaveFacts DEF Finish
  <2> QED BY <2>1, NotCancelling
<1>17. CASE PassFails
  <2>1. hand'.at \notin {"latch", "cancel", "gone", "withdraw"}
    BY <1>17, LeaveFacts DEF PassFails
  <2> QED BY <2>1, NotCancelling
<1>18. CASE reconcileOpenTrade
  <2>1. CASE CloseEligibility("gone")
    BY <1>18, <2>1, <1>t, <1>k, Latching DEF Callers
  <2>2. CASE CloseEligibility("track")
    BY <1>18, <2>2, <1>t, <1>k, Latching DEF Callers
  <2>3. CASE hand' = Idle \/ Goto("track")
    <3>1. hand'.at \notin {"latch", "cancel", "gone", "withdraw"}
      <4>1. CASE hand' = Idle
        BY <4>1 DEF Idle
      <4>2. CASE Goto("track")
        BY <4>2, <1>t, <1>s, GotoFacts
      <4> QED BY <2>3, <4>1, <4>2
    <3> QED BY <3>1, NotCancelling
  <2> QED BY <1>18, <2>1, <2>2, <2>3 DEF reconcileOpenTrade
<1>19. CASE Track
  <2>1. hand'.at \notin {"latch", "cancel", "gone", "withdraw"}
    BY <1>19 DEF Track, Idle
  <2> QED BY <2>1, NotCancelling
<1>20. CASE Gone
  <2>1. hand'.at \notin {"latch", "cancel", "gone", "withdraw"}
    BY <1>20 DEF Gone, Idle
  <2> QED BY <2>1, NotCancelling
<1>21. CASE Withdraw
  <2>1. hand'.at \notin {"latch", "cancel", "gone", "withdraw"}
    BY <1>21 DEF Withdraw, Idle
  <2> QED BY <2>1, NotCancelling
<1>22. CASE reconcileManagedEntry
  <2>1. hand'.at \notin {"latch", "cancel", "gone", "withdraw"}
    BY <1>22, <1>t, <1>y, StartFacts DEF reconcileManagedEntry, TypesMove
  <2> QED BY <2>1, NotCancelling
<1>23. CASE ExecuteClose
  <2>1. hand'.at = "latch" /\ hand'.then = "exit"
    BY <1>23, <1>i DEF ExecuteClose, HandType
  <2> QED BY <1>23, <2>1 DEF ExecuteClose, CancelKnows, Callers
<1>24. CASE ExecuteCancel
  <2>1. hand'.at = "latch" /\ hand'.then = "withdraw"
    BY <1>24, <1>i DEF ExecuteCancel, HandType
  <2> QED BY <1>24, <2>1 DEF ExecuteCancel, CancelKnows, Callers
<1>25. CASE ExitSettles
  <2>1. hand'.at \notin {"latch", "cancel", "gone", "withdraw"}
    <3>1. (hand' = hand /\ hand.at = "idle") \/ Goto("flat")
      BY <1>25 DEF ExitSettles
    <3> QED BY <3>1, <1>t, <1>s, GotoFacts
  <2> QED BY <2>1, NotCancelling
<1>33. CASE SecondLegRevoked
  <2>1. hand'.at \notin {"latch", "cancel", "gone", "withdraw"}
    BY <1>33, <1>t, <1>s, GotoFacts DEF SecondLegRevoked
  <2> QED BY <2>1, NotCancelling
<1>34. CASE finishTradeOrders
  <2>1. hand'.at \notin {"latch", "cancel", "gone", "withdraw"}
    BY <1>34 DEF finishTradeOrders, Idle
  <2> QED BY <2>1, NotCancelling
<1>26. CASE Crash
  <2>1. hand'.at \notin {"latch", "cancel", "gone", "withdraw"}
    BY <1>26 DEF Crash, Idle
  <2> QED BY <2>1, NotCancelling
<1>27. ASSUME NEW i \in Legs, Arrive(i) PROVE CancelKnows'
  <2>1. hand' = hand /\ ctx' = ctx
    BY <1>27 DEF Arrive
  <2> QED BY <2>1, <1>m, <1>x, OverStays DEF CancelKnows, PosMove
<1>28. ASSUME NEW i \in Legs, Fill(i) PROVE CancelKnows'
  <2>1. hand' = hand /\ ctx' = ctx
    BY <1>28 DEF Fill
  <2> QED BY <2>1, <1>m, <1>x, OverStays DEF CancelKnows, PosMove
<1>29. ASSUME NEW i \in Legs, Expire(i) PROVE CancelKnows'
  <2>1. hand' = hand /\ ctx' = ctx
    BY <1>29 DEF Expire
  <2> QED BY <2>1, <1>m, <1>x, OverStays DEF CancelKnows, PosMove
<1>30. CASE PositionMoves
  <2>1. hand' = hand /\ ctx' = ctx
    BY <1>30 DEF PositionMoves
  <2> QED BY <2>1, <1>m, <1>x, OverStays DEF CancelKnows, PosMove
<1>31. CASE DeadlinePasses
  <2>1. hand' = hand /\ ctx' = ctx
    BY <1>31 DEF DeadlinePasses
  <2> QED BY <2>1, <1>m, <1>x, OverStays DEF CancelKnows, PosMove
<1>32. CASE UNCHANGED vars
  <2>1. hand' = hand /\ ctx' = ctx
    BY <1>32 DEF vars
  <2> QED BY <2>1, <1>m, <1>x, OverStays DEF CancelKnows, PosMove
<1> QED BY <1>1, <1>2, <1>3, <1>4, <1>5, <1>6, <1>7, <1>8, <1>9, <1>10, <1>11, <1>12, <1>13,
           <1>14, <1>15, <1>16, <1>17, <1>18, <1>19, <1>20, <1>21, <1>22, <1>23, <1>24, <1>25,
           <1>26, <1>27, <1>28, <1>29, <1>30, <1>31, <1>32, <1>33, <1>34
           DEF Next, Handler, Exchange

-----------------------------------------------------------------------------
LEMMA Inductive == IInv /\ [Next]_vars => IInv'
<1> SUFFICES ASSUME IInv, [Next]_vars PROVE IInv'
  OBVIOUS
<1>1. Typed'
  <2>1. pos' \in 0..MaxPos /\ added' \in 0..Foreign
    <3>1. LegsMove /\ PosMove
      BY LegStep
    <3>2. Executed' \in 0..(LegQty + LegQty)
      BY <3>1, LegsFacts, BoundFacts DEF LegsMove, MarketType, Executed
    <3>3. pos' \in Nat /\ added' \in 0..Foreign /\ pos' <= Executed' + added'
      BY <3>1 DEF PosMove, PosBounded
    <3> DEFINE x == Executed'
               y == added'
               z == pos'
    <3>4. /\ x \in 0..(LegQty + LegQty)
          /\ y \in 0..Foreign /\ z \in Nat
          /\ z <= x + y
      BY <3>2, <3>3
    <3> HIDE DEF x, y, z
    <3>5. z \in 0..MaxPos
      BY <3>4, BoundFacts
    <3> QED BY <3>3, <3>5 DEF z
  <2> QED BY <2>1, LegStep, TypeStep DEF Typed, LegsMove, TypesMove
<1>2. TypeOK'
  BY <1>1 DEF TypeOK, Typed, CtxType, LegType, MarketType, HandType
<1>3. LegsFit' /\ PosBounded'
  BY LegStep DEF LegsMove, PosMove
<1> QED BY <1>2, <1>3, CtxStep, PassStep, CancelStep DEF IInv

THEOREM Invariance == Spec => []IInv
BY InitInv, Inductive, PTL DEF Spec

(* The context, the rows of the ledger and the handler stay of their       *)
(* types; in particular a trade never records more than its legs and the   *)
(* account owner can have put on the position.                             *)
THEOREM TypeCorrect == Spec => []TypeOK
<1>1. IInv => TypeOK
  BY DEF IInv
<1> QED BY <1>1, Invariance, PTL

(* A trade that is CANCELLED or EXPIRED leaves nothing behind, whatever    *)
(* raced its cancellation: no leg can execute any more, no lot of the      *)
(* position is the trade's, and only a trade that had opened and is flat   *)
(* again is CANCELLED after a leg executed.                                *)
THEOREM Over == Spec => []CancelledIsOver
<1>1. IInv => CancelledIsOver
  <2> SUFFICES ASSUME IInv, ctx.state \in {"CANCELLED", "EXPIRED"}
               PROVE  /\ \A i \in Legs : market[i].net \notin {"flight", "live"}
                      /\ pos <= added
                      /\ (\E i \in Legs : market[i].exec > 0) => ctx.state = "CANCELLED" /\ ctx.opened
    BY DEF CancelledIsOver
  <2>1. AllDone /\ pos <= added /\ (Filled(leg) # 0 => ctx.state = "CANCELLED" /\ ctx.opened)
    BY DEF IInv, CtxFits
  <2>2. \A i \in Legs : /\ market[i].net \notin {"flight", "live"}
                        /\ leg[i].exec = market[i].exec /\ leg[i].exec \in Nat
    BY <2>1, TypeFacts, BoundFacts DEF IInv, LegsFit, Fits, AllDone, Done, Typed, LegType
  <2>3. (\E i \in Legs : market[i].exec > 0) => Filled(leg) # 0
    BY <2>2, LegsFacts DEF Filled
  <2> QED BY <2>1, <2>2, <2>3
<1> QED BY <1>1, Invariance, PTL

(* While entry_working is down no leg can execute at the venue any more.   *)
THEOREM WorkingTrue == Spec => []WorkingIsTrue
<1>1. IInv => WorkingIsTrue
  BY DEF IInv, CtxFits, LegsFit, Fits, AllDone, Done, WorkingIsTrue
<1> QED BY <1>1, Invariance, PTL


(* What becomes of the first leg leaves the second alone.                  *)
LEMMA OnlyFirst ==
    ASSUME leg \in [Legs -> LegType], Split, NEW q,
           \/ Submitted(1, q)
           \/ NotSubmitted(1, q)
           \/ Resized(1, q)
           \/ Revoked(1)
           \/ leg' = leg
    PROVE  leg'[2] = leg[2]
<1>1. CASE Submitted(1, q)
  <2>1. PICK row : leg' = [leg EXCEPT ![1] = row]
    BY <1>1 DEF Submitted
  <2> QED BY <2>1, LegsFacts
<1>2. CASE NotSubmitted(1, q)
  <2>1. PICK st \in {"REJECTED", "UNKNOWN"} : leg' = [leg EXCEPT ![1].status = st, ![1].qty = q]
    BY <1>2 DEF NotSubmitted
  <2> QED BY <2>1, LegsFacts
<1>3. CASE Revoked(1) \/ Resized(1, q)
  BY <1>3, LegsFacts DEF Revoked, Resized
<1> QED BY <1>1, <1>2, <1>3

(* What both action properties say of one step: a leg is only sent while   *)
(* the latch is open, and the second one behind a filled first and a stop  *)
(* that covers the position.                                               *)
SendsFit ==
    /\ ctx.disabled => \A i \in Legs : ~ Sent(i)
    /\ Split /\ Sent(2) => market[1].exec = leg[1].qty /\ ctx.stop >= ctx.qty

(* Every step sends only what the latch and the stop allow. *)
LEMMA SendStep == IInv /\ [Next]_vars => SendsFit
<1> SUFFICES ASSUME IInv, [Next]_vars PROVE SendsFit
  OBVIOUS
<1>t. Typed /\ leg \in [Legs -> LegType]
  BY TypeFacts DEF IInv, Typed
<1>k. PassKnows
  BY DEF IInv
<1>f. LegsFit
  BY DEF IInv
<1>1. CASE executeManagedOpen
  <2>1. ~ ctx.disabled
    BY <1>1, <1>k DEF executeManagedOpen, PassKnows
  <2>3. \/ Submitted(1, leg[1].qty)
        \/ NotSubmitted(1, leg[1].qty)
        \/ Revoked(1)
        \/ leg' = leg
    BY <1>1 DEF executeManagedOpen
  <2>2. Split => leg'[2] = leg[2]
    BY <2>3, <1>t, OnlyFirst
  <2> QED BY <2>1, <2>2 DEF SendsFit, Sent
<1>2. CASE QueryLegs
  <2>1. PICK ok \in SUBSET Answerable :
          leg' = [i \in Legs |-> IF i \in ok THEN Answered(i) ELSE leg[i]]
    BY <1>2 DEF QueryLegs
  <2>2. \A i \in Legs : leg[i].status = "PLANNED" => leg'[i] = leg[i]
    BY <2>1 DEF Answerable, Unsettled
  <2> QED BY <2>2, LegsFacts DEF SendsFit, Sent
<1>3. CASE Settle
  <2>1. leg' = leg
    BY <1>3 DEF Settle, External
  <2> QED BY <2>1 DEF SendsFit, Sent
<1>4. CASE TPProgress
  <2>1. leg' = leg
    BY <1>4 DEF TPProgress, External
  <2> QED BY <2>1 DEF SendsFit, Sent
<1>5. CASE Latch
  <2>1. leg' = leg
    BY <1>5 DEF Latch, External
  <2> QED BY <2>1 DEF SendsFit, Sent
<1>6. CASE CancelLegs
  <2>1. PICK ok \in SUBSET {i \in Legs : i \in Unsettled => market[i].net # "flight"} : CancelSome(ok)
    BY <1>6 DEF CancelLegs
  <2>2. ASSUME NEW i \in Legs, leg[i].status = "PLANNED" PROVE leg'[i] = leg[i] \/ leg'[i].status = "ABANDONED"
    <3>1. leg'[i] = IF i \in ok THEN Ended1(i) ELSE leg[i]
      BY <2>1 DEF CancelSome
    <3> QED BY <2>1, <2>2, <3>1, <1>t, <1>f, EndedFacts
  <2> QED BY <2>2, LegsFacts DEF SendsFit, Sent
<1>7. CASE Protect
  <2>1. leg' = leg
    BY <1>7 DEF Protect, External
  <2> QED BY <2>1 DEF SendsFit, Sent
<1>8. CASE enforceManagedRisk
  <2>1. leg' = leg
    BY <1>8 DEF enforceManagedRisk, External
  <2> QED BY <2>1 DEF SendsFit, Sent
<1>9. CASE ExitStarts
  <2>1. leg' = leg
    BY <1>9 DEF ExitStarts, External
  <2> QED BY <2>1 DEF SendsFit, Sent
<1>10. CASE Decide
  <2>1. leg' = leg
    BY <1>10 DEF Decide, External
  <2> QED BY <2>1 DEF SendsFit, Sent
<1>11. CASE FirstLeg
  <2>1. ~ ctx.disabled
    BY <1>11, <1>k DEF FirstLeg, PassKnows, Passing, Sending
  <2>2. Split => leg'[2] = leg[2]
    BY <1>11, <1>t, OnlyFirst DEF FirstLeg
  <2> QED BY <2>1, <2>2 DEF SendsFit, Sent
<1>12. CASE FirstLegSent
  <2>1. leg' = leg
    BY <1>12 DEF FirstLegSent, External
  <2> QED BY <2>1 DEF SendsFit, Sent
<1>13. CASE NoSecondLeg
  <2>1. leg' = leg
    BY <1>13 DEF NoSecondLeg, External
  <2> QED BY <2>1 DEF SendsFit, Sent
<1>14. CASE SecondLegChecks
  <2>1. leg' = leg
    BY <1>14 DEF SecondLegChecks, External
  <2> QED BY <2>1 DEF SendsFit, Sent
<1>15. CASE SecondLeg
  <2>1. hand.at = "add" /\ ~ hand.mem /\ ~ ctx.disabled /\ ctx.stop >= ctx.qty /\ leg[1].status = "FILLED"
    BY <1>15, <1>k DEF SecondLeg, PassKnows, Passing, Sending
  <2>2. market[1].exec = leg[1].qty
    BY <2>1, <1>f, LegsFacts, StatusFacts DEF LegsFit, Fits
  <2> QED BY <2>1, <2>2 DEF SendsFit
<1>16. CASE Finish
  <2>1. leg' = leg
    BY <1>16 DEF Finish, External
  <2> QED BY <2>1 DEF SendsFit, Sent
<1>17. CASE PassFails
  <2>1. leg' = leg
    BY <1>17 DEF PassFails, External
  <2> QED BY <2>1 DEF SendsFit, Sent
<1>18. CASE reconcileOpenTrade
  <2>1. leg' = leg
    BY <1>18 DEF reconcileOpenTrade, External
  <2> QED BY <2>1 DEF SendsFit, Sent
<1>19. CASE Track
  <2>1. leg' = leg
    BY <1>19 DEF Track, External
  <2> QED BY <2>1 DEF SendsFit, Sent
<1>20. CASE Gone
  <2>1. leg' = leg
    BY <1>20 DEF Gone, External
  <2> QED BY <2>1 DEF SendsFit, Sent
<1>21. CASE Withdraw
  <2>1. leg' = leg
    BY <1>21 DEF Withdraw, External
  <2> QED BY <2>1 DEF SendsFit, Sent
<1>22. CASE reconcileManagedEntry
  <2>1. leg' = leg
    BY <1>22 DEF reconcileManagedEntry, External
  <2> QED BY <2>1 DEF SendsFit, Sent
<1>23. CASE ExecuteClose
  <2>1. leg' = leg
    BY <1>23 DEF ExecuteClose, External
  <2> QED BY <2>1 DEF SendsFit, Sent
<1>24. CASE ExecuteCancel
  <2>1. leg' = leg
    BY <1>24 DEF ExecuteCancel, External
  <2> QED BY <2>1 DEF SendsFit, Sent
<1>25. CASE ExitSettles
  <2>1. leg' = leg
    BY <1>25 DEF ExitSettles, External
  <2> QED BY <2>1 DEF SendsFit, Sent
<1>33. CASE SecondLegRevoked
  <2>1. \A i \in Legs : leg'[i] = leg[i] \/ leg'[i].status = "ABANDONED"
    BY <1>33, <1>t DEF SecondLegRevoked, Revoked, LegType
  <2> QED BY <2>1, LegsFacts DEF SendsFit, Sent
<1>34. CASE finishTradeOrders
  <2>1. PICK n \in {0} \cup Legs : /\ \A i \in 1..n : i \in Unsettled => market[i].net # "flight"
                                  /\ CancelSome(1..n)
    BY <1>34 DEF finishTradeOrders
  <2>2. ASSUME NEW i \in Legs, leg[i].status = "PLANNED" PROVE leg'[i] = leg[i] \/ leg'[i].status = "ABANDONED"
    <3>1. leg'[i] = IF i \in 1..n THEN Ended1(i) ELSE leg[i]
      BY <2>1 DEF CancelSome
    <3> QED BY <2>1, <2>2, <3>1, <1>t, <1>f, EndedFacts
  <2> QED BY <2>2, LegsFacts DEF SendsFit, Sent
<1>26. CASE Crash
  <2>1. leg' = leg
    BY <1>26 DEF Crash, External
  <2> QED BY <2>1 DEF SendsFit, Sent
<1>27. ASSUME NEW i \in Legs, Arrive(i) PROVE SendsFit
  <2>1. leg' = leg
    BY <1>27 DEF Arrive, External
  <2> QED BY <2>1 DEF SendsFit, Sent
<1>28. ASSUME NEW i \in Legs, Fill(i) PROVE SendsFit
  <2>1. leg' = leg
    BY <1>28 DEF Fill, External
  <2> QED BY <2>1 DEF SendsFit, Sent
<1>29. ASSUME NEW i \in Legs, Expire(i) PROVE SendsFit
  <2>1. leg' = leg
    BY <1>29 DEF Expire, External
  <2> QED BY <2>1 DEF SendsFit, Sent
<1>30. CASE PositionMoves
  <2>1. leg' = leg
    BY <1>30 DEF PositionMoves, External
  <2> QED BY <2>1 DEF SendsFit, Sent
<1>31. CASE DeadlinePasses
  <2>1. leg' = leg
    BY <1>31 DEF DeadlinePasses, External
  <2> QED BY <2>1 DEF SendsFit, Sent
<1>32. CASE UNCHANGED vars
  <2>1. leg' = leg
    BY <1>32 DEF vars, External
  <2> QED BY <2>1 DEF SendsFit, Sent
<1> QED BY <1>1, <1>2, <1>3, <1>4, <1>5, <1>6, <1>7, <1>8, <1>9, <1>10, <1>11, <1>12, <1>13,
           <1>14, <1>15, <1>16, <1>17, <1>18, <1>19, <1>20, <1>21, <1>22, <1>23, <1>24, <1>25,
           <1>26, <1>27, <1>28, <1>29, <1>30, <1>31, <1>32, <1>33, <1>34
           DEF Next, Handler, Exchange

(* The one-way latch: once entry_disabled is stored no leg is ever sent,   *)
(* although a pass that began before works on its own copy of the context. *)
THEOREM Latched == Spec => LatchIsOneWay
<1>1. IInv /\ [Next]_vars => [ctx.disabled => \A i \in Legs : ~ Sent(i)]_vars
  BY SendStep DEF SendsFit
<1> QED BY <1>1, Invariance, PTL DEF Spec, LatchIsOneWay

(* The second leg is sent only after the first one filled completely and   *)
(* while the stop covers what the trade holds.                             *)
THEOREM SecondProtected == Spec => SecondLegProtected
<1>1. IInv /\ [Next]_vars =>
        [Split /\ Sent(2) => market[1].exec = leg[1].qty /\ ctx.stop >= ctx.qty]_vars
  BY SendStep DEF SendsFit
<1> QED BY <1>1, Invariance, PTL DEF Spec, SecondLegProtected

-----------------------------------------------------------------------------
(* The two parts together                                                  *)

PartsInv == IInv /\ (part = "journal" => Journal!IInv)

LEMMA PartsInitInv == PartsInit => PartsInv
<1> SUFFICES ASSUME PartsInit PROVE PartsInv
  OBVIOUS
<1>1. IInv
  BY InitInv DEF PartsInit
<1>2. part = "journal" => Journal!IInv
  BY JournalAssumption, Journal!InitInv DEF JournalAssumption, PartsInit
<1> QED BY <1>1, <1>2 DEF PartsInv

(* A step is a step of its own part, and the other stands still.           *)
LEMMA PartSteps ==
    ASSUME [PartsNext]_all
    PROVE  part' = part /\ [Next]_vars /\ (part = "journal" => [Journal!Next]_(Journal!vars))
<1>1. CASE UNCHANGED all
  BY <1>1 DEF all, xs, Journal!vars
<1>2. CASE PartsNext
  BY <1>2 DEF PartsNext, OfEntry, OfJournal
<1> QED BY <1>1, <1>2

LEMMA PartsInductive == PartsInv /\ [PartsNext]_all => PartsInv'
<1> SUFFICES ASSUME PartsInv, [PartsNext]_all PROVE PartsInv'
  OBVIOUS
<1>1. IInv' /\ part' = part
  BY Inductive, PartSteps DEF PartsInv
<1>2. CASE part = "journal"
  BY <1>1, <1>2, Journal!Inductive, PartSteps DEF PartsInv
<1> QED BY <1>1, <1>2 DEF PartsInv

(* Both parts keep their invariants.                                       *)
THEOREM Together == PartsSpec => []PartsInv
<1>1. PartsSpec => PartsInit /\ [][PartsNext]_all
  BY PTL DEF PartsSpec
<1> QED BY <1>1, PartsInitInv, PartsInductive, PTL

(* Both parts are type correct.                                            *)
THEOREM PartsTyped == PartsSpec => []PartsTypeOK
<1>1. PartsInv => PartsTypeOK
  BY DEF PartsInv, PartsTypeOK, IInv, Journal!IInv
<1> QED BY <1>1, Together, PTL

(* An instruction reaches the venue through one journaled action at most,  *)
(* but after an exit that recovery gave up (claimSignal, retryPending,     *)
(* recoverOrphanActions).                                                  *)
THEOREM Once == PartsSpec => []ExecutedOnce
<1>1. PartsInv => ExecutedOnce
  BY Journal!IsOnce DEF PartsInv, ExecutedOnce
<1> QED BY <1>1, Together, PTL

(* A signal is reported executed only when an action journaled for that    *)
(* very revision is done (processMessage, syncRecoveredSignal).            *)
THEOREM Real == PartsSpec => []ExecutedIsReal
<1>1. PartsInv => ExecutedIsReal
  BY DEF PartsInv, ExecutedIsReal, Journal!IInv
<1> QED BY <1>1, Together, PTL
=============================================================================
