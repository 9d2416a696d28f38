----------------------- MODULE ManagedExecution_proofs -----------------------
(***************************************************************************)
(* Proofs about copytrader/managed_execution.go: the durable exit of a     *)
(* trade (module ManagedExit) and, in the last part, the submission        *)
(* protocol of one order (module ManagedOrder).                            *)
(*                                                                         *)
(* ManagedExit is proved for any signals, quantities, resubmissions,       *)
(* orders and positions of the account owner.  That one exit at a time may *)
(* execute is not inductive: it holds because a new exit row is only       *)
(* created while no intent is pending or its row is over (HandlerFits),    *)
(* and a row is only called over when the venue's order is (OverIsOver).   *)
(* That a closed trade is flat rests on reads that lag behind a reduction  *)
(* and never behind an opening (ReadsLag).  That a partial exit is not     *)
(* repeated rests on a bound of what it may still execute (Budget).        *)
(*                                                                         *)
(* ManagedOrder is proved for any set of rows, any order quantity, and any *)
(* grace period longer than the network delay.                             *)
(***************************************************************************)
EXTENDS ManagedExit, ManagedOrder, FiniteSetTheorems, WellFoundedInduction, TLAPS

-----------------------------------------------------------------------------
StateType    == {"OPEN", "BREAKEVEN", "CLOSE_PENDING", "CLOSED"}
ActionStatus == {"none", "executing", "uncertain", "done", "skipped", "rejected"}
ActionType   == [Signals -> ActionStatus]
OrderType    == [signal : Signals \cup {None}, qty : 0..MaxPos, status : RowStatus, exec : 0..MaxPos]
MarketType   == [net : {"none", "flight", "live", "over", "lost"}, exec : 0..MaxPos]
IntentType   == [row : 0..MaxOrders, full : BOOLEAN, attempts : 0..MaxResubmits,
                 seen : {"no", "once", "later"}]
HandType     == [at : {"idle", "pass", "enter", "submit", "settle", "decide", "supersede", "mark",
                       "abandoned"},
                 by : Signals \cup {None}, retry : BOOLEAN, allow : BOOLEAN, full : BOOLEAN,
                 left : SUBSET Signals]

Typed ==
    /\ state \in StateType /\ intent \in IntentType
    /\ order \in [Gen -> OrderType] /\ market \in [Gen -> MarketType]
    /\ action \in ActionType /\ hand \in HandType
    /\ made \in 0..MaxOrders
    /\ pos \in 0..MaxPos /\ shown \in 0..MaxPos /\ entry \in 0..LateFill
    /\ missed \in BOOLEAN /\ opens \in 0..MaxOpens

(* A row that the ledger calls over has an order that cannot execute.      *)
OverIsOver == \A i \in 1..made : Done(i) => ~ MayExecute(i)

(* The intent names the row created last.                                  *)
IntentIsLatest == intent.row \in {0, made}

(* What a running handler relies on was true when it was checked, and      *)
(* still is: only handlers touch the intent.                               *)
HandlerFits ==
    /\ hand.at \in {"submit", "settle", "decide"} => Pending
    /\ hand.at \in {"enter", "mark", "abandoned"} => ~ Pending
    /\ hand.full \/ hand.at \in {"enter", "supersede"} => hand.by \in Signals
    /\ hand.at = "submit" => Current.status = "PLANNED"

(* A read is never ahead of a reduction, and the position is bounded.      *)
ReadsLag == pos <= shown /\ pos + entry <= MaxPos

(* What the ledger and the venue know of a row: the venue executes nothing *)
(* of an order that has not arrived, and no more than it asks for; the     *)
(* ledger is never ahead of the venue, and has read a row that is over     *)
(* exactly.                                                                *)
RowFits(i) ==
    /\ i > made => order[i].status = "PLANNED" /\ order[i].signal = None
    /\ order[i].status = "PLANNED" => market[i].net = "none"
    /\ market[i].net \notin {"live", "over"} => order[i].exec = 0 /\ market[i].exec = 0
    /\ Done(i) => order[i].exec = market[i].exec
    /\ order[i].exec <= market[i].exec
    /\ market[i].exec <= order[i].qty

(* The latest generation of a partial exit asks for no more than what the  *)
(* others left of one of them.                                             *)
Budget(s) ==
    exitRows(s) # {} =>
        \E l \in exitRows(s), b \in exitRows(s) :
            /\ \A k \in exitRows(s) : k <= l
            /\ Executed(s) + (order[l].qty - market[l].exec) <= order[b].qty

RowsFit == \A i \in Gen : RowFits(i)
FullFits == Pending => (intent.full <=> Current.signal \in FullClose)
Budgets == RowsFit /\ FullFits /\ \A s \in Signals \ FullClose : Budget(s)

IInv ==
    /\ TypeOK /\ Budgets
    /\ ExitAccounted /\ OverIsOver /\ IntentIsLatest /\ HandlerFits
    /\ ReadsLag /\ ClosedIsOver

-----------------------------------------------------------------------------
(* What an operator's opening is worth, and that the bound on positions    *)
(* leaves room for it.                                                     *)
LEMMA BoundFacts ==
    /\ MaxPos \in Nat
    /\ StartQty + LateFill <= MaxPos
    /\ MaxOpens > 0 => OpenQty + LateFill <= MaxPos
<1>1. MaxOpens * OpenQty \in Nat
  BY ExitAssumption
<1>2. MaxOpens > 0 => MaxOpens * OpenQty >= OpenQty
  BY ExitAssumption
<1> QED BY <1>1, <1>2, ExitAssumption DEF MaxPos

LEMMA InitInv == Init => IInv
<1> SUFFICES ASSUME Init PROVE IInv
  OBVIOUS
<1> USE DEF Init
<1>1. TypeOK
  <2>3. NoOrder \in OrderType /\ [net |-> "none", exec |-> 0] \in MarketType
    BY BoundFacts DEF NoOrder, OrderType, MarketType, RowStatus
  <2>1. /\ order \in [Gen -> OrderType] /\ market \in [Gen -> MarketType]
        /\ action \in ActionType
    BY <2>3 DEF ActionType, ActionStatus
  <2>2. hand \in HandType /\ intent \in IntentType
    BY ExitAssumption DEF Idle, HandType, NoIntent, IntentType
  <2>4. /\ state \in {"OPEN", "BREAKEVEN", "CLOSE_PENDING", "CLOSED"}
        /\ made \in 0..MaxOrders /\ pos \in 0..MaxPos /\ shown \in 0..MaxPos
        /\ entry \in 0..LateFill /\ missed \in BOOLEAN /\ opens \in 0..MaxOpens
    <3>1. state \in {"OPEN", "BREAKEVEN", "CLOSE_PENDING", "CLOSED"}
      BY DEF Resting
    <3>2. MaxPos \in Nat /\ StartQty \in 0..MaxPos /\ LateFill \in Nat
      BY ExitAssumption, BoundFacts
    <3>3. pos \in 0..MaxPos /\ shown \in 0..MaxPos /\ entry \in 0..LateFill
      BY <3>2
    <3>4. made \in 0..MaxOrders /\ opens \in 0..MaxOpens
      BY ExitAssumption
    <3>5. missed \in BOOLEAN
      OBVIOUS
    <3> HIDE DEF Init
    <3> QED BY <3>1, <3>3, <3>4, <3>5
  <2> HIDE DEF Init
  <2> QED BY <2>1, <2>2, <2>4 DEF TypeOK, OrderType, MarketType, ActionType, ActionStatus,
        HandType, 
         IntentType
<1>2. ExitAccounted /\ OverIsOver /\ IntentIsLatest
  BY DEF ExitAccounted, OverIsOver, IntentIsLatest, Pending, NoIntent, Resting
<1>3. HandlerFits /\ ClosedIsOver
  BY DEF HandlerFits, ClosedIsOver, Idle, Resting
<1>4. ReadsLag
  BY BoundFacts, ExitAssumption DEF ReadsLag
<1>5. Budgets
  BY ExitAssumption DEF Budgets, RowsFit, RowFits, FullFits, Budget, exitRows, Pending, NoIntent,
     NoOrder, Done, orderTerminal, Ended, Voided
<1> QED BY <1>1, <1>2, <1>3, <1>4, <1>5 DEF IInv

(* The same types, named.                                                  *)
LEMMA TypeFacts == TypeOK <=> Typed
BY DEF TypeOK, Typed, StateType, HandType, IntentType, OrderType, MarketType, ActionType,
   ActionStatus

(* The end of a handler is journalled in the table it was given, and       *)
(* leaves no handler or the recovery pass it ran in.                       *)
LEMMA ReturnFacts ==
    ASSUME hand \in HandType, NEW table \in ActionType, NEW err \in BOOLEAN, NEW skip \in BOOLEAN,
           Return(table, err, skip)
    PROVE  /\ action' \in ActionType
           /\ hand' \in HandType
           /\ hand'.at \in {"idle", "pass"} /\ ~ hand'.full
<1>1. action' \in ActionType
  <2>1. CASE hand.by = None
    BY <2>1 DEF Return, Journal
  <2>2. CASE hand.by # None
    <3> DEFINE end(old) == CASE hand.retry /\ err  -> old
                   [] hand.retry /\ ~err -> "done"
                   [] ~hand.retry /\ err -> "uncertain"
                   [] ~hand.retry /\ ~err /\ skip -> "skipped"
                   [] OTHER -> "done"
    <3>1. hand.by \in Signals
      BY <2>2 DEF HandType
    <3>2. action' = [table EXCEPT ![hand.by] = end(table[hand.by])]
      BY <2>2 DEF Return, Journal
    <3>3. table[hand.by] \in ActionStatus
      BY <3>1 DEF ActionType
    <3>4. end(table[hand.by]) \in ActionStatus
      BY <3>3 DEF ActionStatus
    <3> HIDE DEF end
    <3> QED BY <3>1, <3>2, <3>4 DEF ActionType
  <2> QED BY <2>1, <2>2
<1>2. hand' \in HandType /\ hand'.at \in {"idle", "pass"} /\ ~ hand'.full
  <2>1. hand.left \in SUBSET Signals
    BY DEF HandType
  <2> QED BY <2>1 DEF Return, Idle, HandType
<1> QED BY <1>1, <1>2

LEMMA StepReturnsFacts ==
    ASSUME hand \in HandType, NEW table \in ActionType, NEW err \in BOOLEAN, NEW skip \in BOOLEAN,
           StepReturns(table, err, skip)
    PROVE  /\ action' \in ActionType
           /\ hand' \in HandType
           /\ hand'.at \in {"idle", "pass", "supersede"}
           /\ hand'.at = "supersede" => hand'.full
           /\ hand'.full => hand'.by = hand.by /\ hand.full
<1>1. CASE hand.full
  BY <1>1 DEF StepReturns, HandType
<1>2. CASE ~ hand.full
  BY <1>2, ReturnFacts DEF StepReturns
<1> QED BY <1>1, <1>2

(* A new generation of the exit: a planned row, the latest, which the      *)
(* intent names.                                                           *)
LEMMA CreateFacts ==
    ASSUME TypeOK, NEW s \in Signals \cup {None}, NEW q \in 0..MaxPos, NEW full \in BOOLEAN,
           NEW attempts \in 0..MaxResubmits, CreateExitOrder(s, q, full, attempts)
    PROVE  /\ made' = made + 1 /\ made' \in Gen
           /\ intent' \in IntentType /\ intent'.row = made'
           /\ order' \in [Gen -> OrderType]
           /\ order'[made'].status = "PLANNED"
           /\ \A i \in 1..made : order'[i] = order[i]
           /\ state' = "CLOSE_PENDING"
<1> USE DEF CreateExitOrder
<1>t. made \in 0..MaxOrders /\ order \in [Gen -> OrderType]
  BY TypeFacts DEF Typed
<1>1. made' = made + 1 /\ made' \in Gen /\ made + 1 \in 0..MaxOrders /\ state' = "CLOSE_PENDING"
  BY <1>t, ExitAssumption DEF Gen
<1>2. intent' \in IntentType /\ intent'.row = made'
  BY <1>1 DEF IntentType
<1>3. /\ order' \in [Gen -> OrderType]
      /\ order'[made'].status = "PLANNED"
      /\ \A i \in 1..made : order'[i] = order[i]
  <2> DEFINE planned == [signal |-> s, qty |-> q, status |-> "PLANNED", exec |-> 0]
  <2>1. planned \in OrderType /\ planned.status = "PLANNED"
    BY BoundFacts DEF OrderType, RowStatus
  <2>2. order' = [order EXCEPT ![made + 1] = planned]
    OBVIOUS
  <2>3. \A i \in 1..made : i \in Gen /\ i # made + 1
    BY <1>t, ExitAssumption DEF Gen
  <2> HIDE DEF planned, CreateExitOrder
  <2> QED BY <1>t, <1>1, <2>1, <2>2, <2>3
<1> QED BY <1>1, <1>2, <1>3

(* The latest row exists and the intent, when there is one, names it.      *)
LEMMA CurrentFacts ==
    ASSUME IInv, Pending
    PROVE  /\ intent.row = made /\ made \in 1..made /\ made \in Gen
           /\ Current \in OrderType /\ Current.signal \in Signals \cup {None}
           /\ state = "CLOSE_PENDING"
<1>1. intent.row = made /\ made \in 1..made /\ made \in Gen
  BY ExitAssumption DEF IInv, TypeOK, IntentIsLatest, Pending, Gen
<1> QED BY <1>1 DEF IInv, TypeOK, Current, OrderType, ExitAccounted

(* The quantities the handlers ask for are quantities of the position or   *)
(* of the row before it.                                                   *)
LEMMA SizeFacts ==
    ASSUME TypeOK
    PROVE  /\ \A s : CloseSize(s) \in 0..MaxPos /\ (shown = 0 => CloseSize(s) = 0)
           /\ intent.row \in Gen => RemainingSize \in 0..MaxPos
<1>1. shown \in 0..MaxPos /\ MaxPos \in Nat /\ MinLot \in Nat \ {0}
  BY BoundFacts, ExitAssumption DEF TypeOK
<1>2. ASSUME NEW s PROVE CloseSize(s) \in 0..MaxPos /\ (shown = 0 => CloseSize(s) = 0)
  BY <1>1 DEF CloseSize, FloorQuantity
<1>3. ASSUME intent.row \in Gen PROVE RemainingSize \in 0..MaxPos
  <2>1. Current.qty \in 0..MaxPos /\ Current.exec \in 0..MaxPos
    BY <1>3, TypeFacts DEF Typed, Current, OrderType
  <2> DEFINE rest == Current.qty - Current.exec
  <2>2. CASE intent.full \/ shown < rest
    BY <1>1, <2>2 DEF RemainingSize, FloorQuantity
  <2>3. CASE ~ (intent.full \/ shown < rest)
    BY <1>1, <2>1, <2>3 DEF RemainingSize, FloorQuantity
  <2> QED BY <2>2, <2>3
<1> QED BY <1>2, <1>3

(* The action table with a signal's outcome written into it.               *)
LEMMA ActionFacts ==
    ASSUME TypeOK
    PROVE  /\ action \in ActionType
           /\ \A s, st : st \in ActionStatus => [action EXCEPT ![s] = st] \in ActionType
BY DEF TypeOK, ActionType, ActionStatus

(* The two handlers that create a row create the latest.                   *)
LEMMA EnterCreatesFacts ==
    ASSUME IInv, EnterCreates
    PROVE  /\ made' = made + 1 /\ intent'.row = made' /\ state' = "CLOSE_PENDING"
           /\ made' \in Gen /\ intent' \in IntentType /\ order' \in [Gen -> OrderType]
           /\ order'[made'].status = "PLANNED"
           /\ \A i \in 1..made : order'[i] = order[i]
<1>1. hand.by \in Signals /\ CloseSize(hand.by) \in 0..MaxPos
  BY SizeFacts DEF EnterCreates, IInv, HandlerFits
<1>2. PICK full \in BOOLEAN : full = (hand.by \in FullClose)
  <2>1. CASE hand.by \in FullClose
    BY <2>1, TRUE = (hand.by \in FullClose)
  <2>2. CASE hand.by \notin FullClose
    BY <2>2, FALSE = (hand.by \in FullClose)
  <2> QED BY <2>1, <2>2
<1>3. CreateExitOrder(hand.by, CloseSize(hand.by), full, 0)
  BY <1>2 DEF EnterCreates
<1> QED BY <1>1, <1>3, CreateFacts, ExitAssumption DEF IInv

LEMMA ResubmitFacts ==
    ASSUME IInv, Resubmit
    PROVE  /\ made' = made + 1 /\ intent'.row = made' /\ state' = "CLOSE_PENDING"
           /\ made' \in Gen /\ intent' \in IntentType /\ order' \in [Gen -> OrderType]
           /\ order'[made'].status = "PLANNED"
           /\ \A i \in 1..made : order'[i] = order[i]
<1>1. Pending
  BY DEF Resubmit, IInv, HandlerFits
<1>2. /\ RemainingSize \in 0..MaxPos /\ Current.signal \in Signals \cup {None}
      /\ intent.full \in BOOLEAN /\ intent.attempts + 1 \in 0..MaxResubmits
  BY <1>1, CurrentFacts, SizeFacts, TypeFacts, ExitAssumption DEF Resubmit, IInv, Typed,
     IntentType
<1> QED BY <1>2, CreateFacts DEF Resubmit, IInv

(* Every step leaves the running handler with what it relies on. *)
LEMMA HandlerStep == IInv /\ [Next]_vars => HandlerFits'
<1> SUFFICES ASSUME IInv, [Next]_vars PROVE HandlerFits'
  OBVIOUS
<1> USE DEF IInv
<1>t. /\ hand \in HandType /\ intent \in IntentType /\ made \in 0..MaxOrders /\ action \in ActionType
  BY TypeFacts DEF Typed
<1>1. ASSUME NEW s \in Signals, RequestClose(s) PROVE HandlerFits'
  BY <1>1, <1>t DEF RequestClose, closeEntryEligibility, Idle, HandlerFits, Pending, Current,
     Venue, Ledger, Position
<1>2. CASE reconcileOnce
  BY <1>2, <1>t DEF reconcileOnce, Unfinished, Idle, HandlerFits, Pending, Current, Venue,
     Ledger, Position
<1>3. ASSUME NEW s \in Signals, recoverPendingActions(s) PROVE HandlerFits'
  BY <1>3, <1>t DEF recoverPendingActions, HandlerFits, HandType, Pending, Current, Ledger
<1>4. CASE PassSettlesExit
  BY <1>4, <1>t DEF PassSettlesExit, Idle, HandlerFits, Pending, Current, Venue, Ledger,
     Position
<1>5. CASE PassEnds
  BY <1>5, <1>t DEF PassEnds, Idle, HandlerFits, Pending, Current, Venue, Ledger, Position
<1>6. CASE reconcileOpenTrade
  BY <1>6, <1>t DEF reconcileOpenTrade, closeEntryEligibility, PositionGone, Idle, HandlerFits,
     Pending, Current, Venue, Ledger, Position
<1>7. CASE EnterRefused
  BY <1>7, <1>t, ReturnFacts DEF EnterRefused, HandlerFits, Idle
<1>8. CASE EnterCreates
  <2>1. Pending' /\ Current'.status = "PLANNED"
    BY <1>8, EnterCreatesFacts, ExitAssumption DEF Pending, Current, Gen
  <2> QED BY <1>8, <2>1, <1>t DEF EnterCreates, HandlerFits, HandType
<1>9. CASE SubmitAccepted
  BY <1>9, <1>t DEF SubmitAccepted, HandlerFits, Pending, Current, Venue, Ledger, Position
<1>10. CASE SubmitFailed
  BY <1>10, <1>t, StepReturnsFacts DEF SubmitFailed, HandlerFits, Idle
<1>11. CASE SettleSubmits
  BY <1>11, <1>t DEF SettleSubmits, HandlerFits, Pending, Current, Venue, Ledger, Position
<1>12. CASE SettleSkips
  BY <1>12, <1>t DEF SettleSkips, HandlerFits, Pending, Current, Venue, Ledger, Position
<1>13. CASE SettleQueries
  BY <1>13, <1>t DEF SettleQueries, HandlerFits, Pending, Current, Venue, Ledger, Position
<1>14. CASE StepFails
  BY <1>14, <1>t, StepReturnsFacts DEF StepFails, HandlerFits, Idle
<1>15. CASE DecideWaits
  BY <1>15, <1>t, StepReturnsFacts DEF DecideWaits, HandlerFits, Idle
<1>16. CASE DecideCloses
  <2>1. [action EXCEPT ![Current.signal] = "done"] \in ActionType
    BY <1>t, ActionFacts DEF IInv, ActionStatus
  <2> QED BY <1>16, <1>t, <2>1, StepReturnsFacts DEF DecideCloses, HandlerFits, Idle
<1>17. CASE DecideReduced
  <2>1. [action EXCEPT ![Current.signal] = "done"] \in ActionType
    BY <1>t, ActionFacts DEF IInv, ActionStatus
  <2> QED BY <1>17, <1>t, <2>1, StepReturnsFacts DEF DecideReduced, HandlerFits, Idle
<1>18. CASE DecideResidual
  BY <1>18, <1>t, StepReturnsFacts DEF DecideResidual, HandlerFits, Idle
<1>19. CASE DecideHolds
  BY <1>19, <1>t, StepReturnsFacts DEF DecideHolds, HandlerFits, Idle
<1>20. CASE Resubmit
  <2>1. Pending' /\ Current'.status = "PLANNED"
    BY <1>20, ResubmitFacts, ExitAssumption DEF Pending, Current, Gen
  <2> QED BY <1>20, <2>1, <1>t DEF Resubmit, HandlerFits, HandType
<1>21. CASE Abandon
  BY <1>21, <1>t DEF Abandon, NoIntent, HandType, HandlerFits, Pending, Current, Venue, Ledger,
     Position
<1>22. CASE MarkAbandoned
  BY <1>22, <1>t DEF MarkAbandoned, Unfinished, HandlerFits, Pending, Current, Venue, Ledger,
     Position
<1>23. CASE AbandonReturns
  BY <1>23, <1>t DEF AbandonReturns, Return, Journal, Idle, HandlerFits, Pending, Current,
     Venue, Ledger, Position
<1>24. CASE SupersedeWaits
  BY <1>24, <1>t DEF SupersedeWaits, Return, Journal, Idle, HandlerFits, Pending, Current,
     Venue, Ledger, Position
<1>25. CASE supersedePartialExit
  BY <1>25, <1>t DEF supersedePartialExit, NoIntent, HandType, Ledger, Venue, HandlerFits,
     Pending, Current, Position
<1>26. CASE SupersedeSettled
  <2>1. CASE state = "CLOSED"
    BY <1>26, <2>1, <1>t, ReturnFacts DEF SupersedeSettled, HandlerFits, Idle
  <2>2. CASE state # "CLOSED"
    BY <1>26, <2>2, <1>t DEF SupersedeSettled, HandlerFits, HandType, Pending
  <2> QED BY <2>1, <2>2
<1>27. CASE Crash
  BY <1>27, <1>t DEF Crash, Idle, HandlerFits, Pending, Current, Venue, Ledger, Position
<1>28. ASSUME NEW i \in Gen, OrderArrives(i) PROVE HandlerFits'
  BY <1>28, <1>t DEF OrderArrives, HandlerFits, Pending, Current, Venue, Ledger, Position
<1>29. ASSUME NEW i \in Gen, OrderFills(i) PROVE HandlerFits'
  BY <1>29, <1>t DEF OrderFills, Reduce, HandlerFits, Pending, Current, Venue, Ledger, Position
<1>30. ASSUME NEW i \in Gen, OrderExpires(i) PROVE HandlerFits'
  BY <1>30, <1>t DEF OrderExpires, HandlerFits, Pending, Current, Venue, Ledger, Position
<1>31. CASE ProtectionFills
  BY <1>31, <1>t DEF ProtectionFills, Reduce, HandlerFits, Pending, Current, Venue, Ledger,
     Position
<1>32. CASE EntryFills
  BY <1>32, <1>t DEF EntryFills, HandlerFits, Pending, Current, Venue, Ledger, Position
<1>33. CASE ReadCatchesUp
  BY <1>33, <1>t DEF ReadCatchesUp, HandlerFits, Pending, Current, Venue, Ledger, Position
<1>34. CASE ResidualConfirmTime
  BY <1>34, <1>t DEF ResidualConfirmTime, HandlerFits, Pending, Current, Venue, Ledger, Position
<1>35. CASE OwnerOpens
  BY <1>35, <1>t DEF OwnerOpens, HandlerFits, Pending, Current, Venue, Ledger, Position
<1>36. CASE UNCHANGED vars
  BY <1>36, <1>t DEF vars, HandlerFits, Pending, Current, Venue, Ledger, Position
<1> QED BY <1>1, <1>2, <1>3, <1>4, <1>5, <1>6, <1>7, <1>8, <1>9, <1>10, <1>11, <1>12, <1>13,
           <1>14, <1>15, <1>16, <1>17, <1>18, <1>19, <1>20, <1>21, <1>22, <1>23, <1>24, <1>25,
           <1>26, <1>27, <1>28, <1>29, <1>30, <1>31, <1>32, <1>33, <1>34, <1>35, <1>36 DEF Next,
           Handler, Exchange

(* Every step keeps the types. *)
LEMMA TypeStep == IInv /\ [Next]_vars => Typed'
<1> SUFFICES ASSUME IInv, [Next]_vars PROVE Typed'
  OBVIOUS
<1>t. Typed
  BY TypeFacts DEF IInv
<1> USE <1>t DEF Typed
<1>1. ASSUME NEW s \in Signals, RequestClose(s) PROVE Typed'
  <2>1. action' \in ActionType
    BY <1>1, ActionFacts DEF RequestClose, ActionStatus, IInv
  <2>2. hand' \in HandType
    BY <1>1 DEF RequestClose, HandType, Idle
  <2>3. entry' \in 0..LateFill
    BY <1>1, ExitAssumption DEF RequestClose, closeEntryEligibility
  <2> QED BY <1>1, <2>1, <2>2, <2>3 DEF RequestClose, Ledger, Position
<1>2. CASE reconcileOnce
  <2>1. hand' \in HandType
    BY <1>2 DEF reconcileOnce, HandType, Idle, Unfinished
  <2> QED BY <1>2, <2>1 DEF reconcileOnce, Venue, Ledger
<1>3. ASSUME NEW s \in Signals, recoverPendingActions(s) PROVE Typed'
  <2>1. action' \in ActionType
    BY <1>3, ActionFacts DEF recoverPendingActions, ActionStatus, IInv
  <2>2. hand' \in HandType
    <3>1. hand.left \ {s} \in SUBSET Signals
      BY DEF HandType
    <3>2. \/ hand' = [hand EXCEPT !.left = @ \ {s}]
          \/ hand' = [hand EXCEPT !.at = "enter", !.by = s, !.retry = TRUE, !.left = @ \ {s}]
      BY <1>3 DEF recoverPendingActions
    <3> QED BY <3>1, <3>2 DEF HandType
  <2>3. entry' \in 0..LateFill
    BY <1>3, ExitAssumption DEF recoverPendingActions, closeEntryEligibility
  <2> QED BY <1>3, <2>1, <2>2, <2>3 DEF recoverPendingActions, Ledger, Position
<1>4. CASE PassSettlesExit
  <2>1. hand' \in HandType
    BY <1>4 DEF PassSettlesExit, HandType, Idle, Unfinished
  <2> QED BY <1>4, <2>1 DEF PassSettlesExit, Venue, Ledger
<1>5. CASE PassEnds
  <2>1. hand' \in HandType
    BY <1>5 DEF PassEnds, HandType, Idle, Unfinished
  <2> QED BY <1>5, <2>1 DEF PassEnds, Venue, Ledger
<1>6. CASE reconcileOpenTrade
  <2>1. hand' \in HandType
    BY <1>6 DEF reconcileOpenTrade, HandType, Idle
  <2>2. entry' \in 0..LateFill
    BY <1>6, ExitAssumption DEF reconcileOpenTrade, PositionGone, closeEntryEligibility
  <2>3. state' \in StateType
    BY <1>6 DEF reconcileOpenTrade, PositionGone, StateType
  <2>4. missed' \in BOOLEAN
    BY <1>6 DEF reconcileOpenTrade, PositionGone
  <2> QED BY <1>6, <2>1, <2>2, <2>3, <2>4 DEF reconcileOpenTrade, Ledger, Position
<1>7. CASE EnterRefused
  BY <1>7, ReturnFacts DEF EnterRefused, Venue, Ledger
<1>8. CASE EnterCreates
  <2>1. hand' \in HandType
    BY <1>8 DEF EnterCreates, HandType
  <2> QED BY <1>8, <2>1, EnterCreatesFacts DEF EnterCreates, Venue, StateType, Gen
<1>9. CASE SubmitAccepted
  <2>0. intent.row \in Gen
    BY <1>9, CurrentFacts DEF SubmitAccepted, IInv, HandlerFits, Pending, Gen
  <2>1. order' \in [Gen -> OrderType]
    BY <1>9, <2>0 DEF SubmitAccepted, OrderType, RowStatus, Working
  <2>2. market' \in [Gen -> MarketType]
    BY <1>9, <2>0 DEF SubmitAccepted, MarketType
  <2>3. hand' \in HandType
    BY <1>9 DEF SubmitAccepted, HandType
  <2> QED BY <1>9, <2>1, <2>2, <2>3 DEF SubmitAccepted
<1>10. CASE SubmitFailed
  <2>0. intent.row \in Gen
    BY <1>10, CurrentFacts DEF SubmitFailed, IInv, HandlerFits, Pending, Gen
  <2>1. order' \in [Gen -> OrderType]
    BY <1>10, <2>0 DEF SubmitFailed, OrderType, RowStatus, Uncertain, Voided
  <2>2. market' \in [Gen -> MarketType]
    BY <1>10, <2>0 DEF SubmitFailed, MarketType
  <2> QED BY <1>10, <2>1, <2>2, StepReturnsFacts DEF SubmitFailed
<1>11. CASE SettleSubmits
  <2>1. hand' \in HandType
    BY <1>11 DEF SettleSubmits, HandType, Idle, Unfinished
  <2> QED BY <1>11, <2>1 DEF SettleSubmits, Venue, Ledger
<1>12. CASE SettleSkips
  <2>1. hand' \in HandType
    BY <1>12 DEF SettleSkips, HandType, Idle, Unfinished
  <2> QED BY <1>12, <2>1 DEF SettleSkips, Venue, Ledger
<1>13. CASE SettleQueries
  <2>0. intent.row \in Gen
    BY <1>13, CurrentFacts DEF SettleQueries, IInv, HandlerFits, Pending, Gen
  <2>1. market[intent.row].exec \in 0..MaxPos
    BY <2>0 DEF MarketType
  <2>2. order' \in [Gen -> OrderType]
    <3> DEFINE answer == IF market[intent.row].net = "live" THEN WorkingStatus(market[intent.row].exec)
                        ELSE IF market[intent.row].exec = Current.qty THEN "FILLED" ELSE "EXPIRED"
    <3>1. answer \in RowStatus /\ "ABANDONED" \in RowStatus
      BY DEF RowStatus, WorkingStatus, Working, Ended, Voided
    <3>2. \/ order' = [order EXCEPT ![intent.row].exec = market[intent.row].exec,
                                    ![intent.row].status = answer]
          \/ order' = [order EXCEPT ![intent.row].status = "ABANDONED"]
      BY <1>13 DEF SettleQueries
    <3> HIDE DEF answer
    <3> QED BY <2>0, <2>1, <3>1, <3>2 DEF OrderType
  <2>3. hand' \in HandType
    BY <1>13 DEF SettleQueries, HandType
  <2> QED BY <1>13, <2>2, <2>3 DEF SettleQueries, Venue
<1>14. CASE StepFails
  <2>1. entry' \in 0..LateFill
    BY <1>14, ExitAssumption DEF StepFails
  <2> QED BY <1>14, <2>1, StepReturnsFacts DEF StepFails, Ledger, Position
<1>15. CASE DecideWaits
  BY <1>15, StepReturnsFacts DEF DecideWaits, Venue, Ledger, Position
<1>16. CASE DecideCloses
  <2>1. [action EXCEPT ![Current.signal] = "done"] \in ActionType
    BY ActionFacts DEF IInv, ActionStatus
  <2>2. NoIntent \in IntentType /\ Resting \in StateType /\ "CLOSED" \in StateType /\ 0 \in 0..LateFill
    BY ExitAssumption DEF NoIntent, IntentType, Resting, StateType
  <2> QED BY <1>16, <2>1, <2>2, StepReturnsFacts DEF DecideCloses, Venue, Ledger
<1>17. CASE DecideReduced
  <2>1. [action EXCEPT ![Current.signal] = "done"] \in ActionType
    BY ActionFacts DEF IInv, ActionStatus
  <2>2. NoIntent \in IntentType /\ Resting \in StateType /\ "CLOSED" \in StateType /\ 0 \in 0..LateFill
    BY ExitAssumption DEF NoIntent, IntentType, Resting, StateType
  <2> QED BY <1>17, <2>1, <2>2, StepReturnsFacts DEF DecideReduced, Venue, Ledger
<1>18. CASE DecideResidual
  <2>1. intent' \in IntentType
    BY <1>18 DEF DecideResidual, IntentType
  <2> QED BY <1>18, <2>1, StepReturnsFacts DEF DecideResidual, Venue, Ledger
<1>19. CASE DecideHolds
  BY <1>19, StepReturnsFacts DEF DecideHolds, Venue, Ledger, Position
<1>20. CASE Resubmit
  <2>1. hand' \in HandType
    BY <1>20 DEF Resubmit, HandType
  <2> QED BY <1>20, <2>1, ResubmitFacts DEF Resubmit, Venue, StateType, Gen
<1>21. CASE Abandon
  <2>1. NoIntent \in IntentType /\ Resting \in StateType
    BY ExitAssumption DEF NoIntent, IntentType, Resting, StateType
  <2>2. hand' \in HandType
    BY <1>21 DEF Abandon, HandType
  <2> QED BY <1>21, <2>1, <2>2 DEF Abandon, Venue, Ledger
<1>22. CASE MarkAbandoned
  <2>1. action' \in ActionType
    BY <1>22, ActionFacts DEF MarkAbandoned, ActionStatus, IInv
  <2>2. hand' \in HandType
    BY <1>22 DEF MarkAbandoned, HandType
  <2> QED BY <1>22, <2>1, <2>2 DEF MarkAbandoned, Venue, Ledger
<1>23. CASE AbandonReturns
  BY <1>23, ReturnFacts DEF AbandonReturns, Venue, Ledger
<1>24. CASE SupersedeWaits
  BY <1>24, ReturnFacts DEF SupersedeWaits, Venue, Ledger
<1>25. CASE supersedePartialExit
  <2>1. NoIntent \in IntentType /\ Resting \in StateType
    BY ExitAssumption DEF NoIntent, IntentType, Resting, StateType
  <2>2. hand' \in HandType
    BY <1>25 DEF supersedePartialExit, HandType
  <2> QED BY <1>25, <2>1, <2>2 DEF supersedePartialExit, Venue, Ledger
<1>26. CASE SupersedeSettled
  <2>1. CASE state = "CLOSED"
    BY <1>26, <2>1, ReturnFacts DEF SupersedeSettled, Venue, Ledger
  <2>2. CASE state # "CLOSED"
    BY <1>26, <2>2 DEF SupersedeSettled, HandType, Venue, Ledger
  <2> QED BY <2>1, <2>2
<1>27. CASE Crash
  <2>1. hand' \in HandType
    BY <1>27 DEF Crash, HandType, Idle, Unfinished
  <2> QED BY <1>27, <2>1 DEF Crash, Venue, Ledger
<1>28. ASSUME NEW i \in Gen, OrderArrives(i) PROVE Typed'
  <2>1. market' \in [Gen -> MarketType]
    BY <1>28 DEF OrderArrives, MarketType
  <2> QED BY <1>28, <2>1 DEF OrderArrives, Ledger
<1>29. ASSUME NEW i \in Gen, OrderFills(i) PROVE Typed'
  <2>1. PICK k \in 1..pos :
            /\ market[i].exec + k <= order[i].qty
            /\ market' = [market EXCEPT ![i] =
                  [net  |-> IF market[i].exec + k = order[i].qty THEN "over" ELSE "live",
                   exec |-> market[i].exec + k]]
            /\ Reduce(k)
    BY <1>29 DEF OrderFills
  <2>2. order[i].qty \in 0..MaxPos /\ market[i].exec \in 0..MaxPos
    BY DEF OrderType, MarketType
  <2>3. [net  |-> IF market[i].exec + k = order[i].qty THEN "over" ELSE "live",
         exec |-> market[i].exec + k] \in MarketType
    BY <2>1, <2>2, BoundFacts DEF MarketType
  <2>4. market' \in [Gen -> MarketType]
    BY <2>1, <2>3
  <2>5. pos' \in 0..MaxPos /\ shown' \in 0..MaxPos
    BY <2>1, BoundFacts DEF Reduce
  <2> QED BY <1>29, <2>4, <2>5 DEF OrderFills, Ledger
<1>30. ASSUME NEW i \in Gen, OrderExpires(i) PROVE Typed'
  <2>1. market' \in [Gen -> MarketType]
    BY <1>30 DEF OrderExpires, MarketType
  <2> QED BY <1>30, <2>1 DEF OrderExpires, Ledger
<1>31. CASE ProtectionFills
  <2>1. pos' \in 0..MaxPos /\ shown' \in 0..MaxPos
    BY <1>31, BoundFacts DEF ProtectionFills, Reduce
  <2> QED BY <1>31, <2>1 DEF ProtectionFills, Ledger
<1>32. CASE EntryFills
  <2>1. pos' \in 0..MaxPos /\ shown' \in 0..MaxPos /\ entry' \in 0..LateFill
    BY <1>32, BoundFacts, ExitAssumption DEF EntryFills, IInv, ReadsLag
  <2> QED BY <1>32, <2>1 DEF EntryFills, Ledger
<1>33. CASE ReadCatchesUp
  BY <1>33 DEF ReadCatchesUp, Ledger
<1>34. CASE ResidualConfirmTime
  <2>1. intent' \in IntentType
    BY <1>34 DEF ResidualConfirmTime, IntentType
  <2> QED BY <1>34, <2>1 DEF ResidualConfirmTime, Venue, Ledger
<1>35. CASE OwnerOpens
  <2>1. pos' \in 0..MaxPos /\ shown' \in 0..MaxPos /\ opens' \in 0..MaxOpens
    BY <1>35, BoundFacts, ExitAssumption DEF OwnerOpens
  <2> QED BY <1>35, <2>1 DEF OwnerOpens, Ledger
<1>36. CASE UNCHANGED vars
  BY <1>36 DEF vars
<1> QED BY <1>1, <1>2, <1>3, <1>4, <1>5, <1>6, <1>7, <1>8, <1>9, <1>10, <1>11, <1>12, <1>13,
           <1>14, <1>15, <1>16, <1>17, <1>18, <1>19, <1>20, <1>21, <1>22, <1>23, <1>24, <1>25,
           <1>26, <1>27, <1>28, <1>29, <1>30, <1>31, <1>32, <1>33, <1>34, <1>35, <1>36 DEF Next,
           Handler, Exchange

Accounting == ExitAccounted /\ OverIsOver /\ IntentIsLatest

(* Every step keeps the exits accounted for. *)
LEMMA AccountStep == IInv /\ [Next]_vars => Accounting'
<1> SUFFICES ASSUME IInv, [Next]_vars PROVE Accounting'
  OBVIOUS
<1>t. /\ order \in [Gen -> OrderType] /\ market \in [Gen -> MarketType] /\ made \in 0..MaxOrders
      /\ intent \in IntentType
  BY TypeFacts DEF IInv, Typed
<1>g. \A i \in 1..made : i \in Gen
  BY <1>t, ExitAssumption DEF Gen
<1>h. Accounting /\ HandlerFits
  BY DEF IInv, Accounting
<1> USE <1>h
<1>1. ASSUME NEW s \in Signals, RequestClose(s) PROVE Accounting'
  BY <1>1 DEF RequestClose, Venue, Ledger, Position, Accounting, ExitAccounted, OverIsOver,
     IntentIsLatest, Pending, Done, MayExecute, orderTerminal, Ended, Voided
<1>2. CASE reconcileOnce
  BY <1>2 DEF reconcileOnce, Venue, Ledger, Position, Accounting, ExitAccounted, OverIsOver,
     IntentIsLatest, Pending, Done, MayExecute, orderTerminal, Ended, Voided
<1>3. ASSUME NEW s \in Signals, recoverPendingActions(s) PROVE Accounting'
  BY <1>3 DEF recoverPendingActions, Venue, Ledger, Position, Accounting, ExitAccounted,
     OverIsOver, IntentIsLatest, Pending, Done, MayExecute, orderTerminal, Ended, Voided
<1>4. CASE PassSettlesExit
  BY <1>4 DEF PassSettlesExit, Venue, Ledger, Position, Accounting, ExitAccounted, OverIsOver,
     IntentIsLatest, Pending, Done, MayExecute, orderTerminal, Ended, Voided
<1>5. CASE PassEnds
  BY <1>5 DEF PassEnds, Venue, Ledger, Position, Accounting, ExitAccounted, OverIsOver,
     IntentIsLatest, Pending, Done, MayExecute, orderTerminal, Ended, Voided
<1>6. CASE reconcileOpenTrade
  BY <1>6 DEF reconcileOpenTrade, PositionGone, Ledger, Position, Accounting, ExitAccounted,
     OverIsOver, IntentIsLatest, Pending, Done, MayExecute, orderTerminal, Ended, Voided
<1>7. CASE EnterRefused
  BY <1>7 DEF EnterRefused, Venue, Ledger, Position, Accounting, ExitAccounted, OverIsOver,
     IntentIsLatest, Pending, Done, MayExecute, orderTerminal, Ended, Voided
<1>8. CASE EnterCreates
  <2>1. ~ Pending /\ hand.by \in Signals
    BY <1>8 DEF EnterCreates, HandlerFits
  <2>2. /\ made' = made + 1 /\ intent'.row = made' /\ state' = "CLOSE_PENDING"
        /\ order'[made'].status = "PLANNED"
        /\ \A i \in 1..made : order'[i] = order[i]
    BY <1>8, EnterCreatesFacts
  <2>3. \A i \in 1..made : ~ MayExecute(i) /\ Done(i)
    BY <2>1 DEF Accounting, ExitAccounted, OverIsOver, Pending, HandlerFits
  <2>4. market' = market
    BY <1>8 DEF EnterCreates, Venue
  <2>5. \A i \in 1..made' : i \in 1..made \/ i = made'
    BY <2>2, <1>t
  <2>6. ~ orderTerminal(order'[made'].status)
    BY <2>2 DEF orderTerminal, Ended, Voided
  <2>7. \A i \in 1..made : ~ MayExecute(i)' /\ Done(i)' = Done(i)
    BY <2>2, <2>3, <2>4 DEF MayExecute, Done
  <2>8. ExitAccounted'
    BY <2>2, <2>3, <2>5, <2>7, <1>t DEF ExitAccounted, Pending
  <2>9. OverIsOver' /\ IntentIsLatest'
    BY <2>2, <2>5, <2>6, <2>7 DEF OverIsOver, IntentIsLatest, Done
  <2> QED BY <2>8, <2>9 DEF Accounting
<1>9. CASE SubmitAccepted
  <2>1. Pending /\ intent.row \in 1..made /\ intent.row \in Gen
    BY <1>9, CurrentFacts DEF SubmitAccepted, HandlerFits
  <2>2. /\ order'[intent.row].status = "NEW" /\ market'[intent.row].net = "live"
        /\ \A i \in Gen \ {intent.row} : order'[i] = order[i] /\ market'[i] = market[i]
    BY <1>9, <2>1, <1>t DEF SubmitAccepted
  <2> QED BY <1>9, <2>1, <2>2, <1>g DEF SubmitAccepted, Accounting, ExitAccounted, OverIsOver,
        IntentIsLatest, Pending, Done, MayExecute, orderTerminal, Ended, Voided
<1>10. CASE SubmitFailed
  <2>1. Pending /\ intent.row \in 1..made /\ intent.row \in Gen
    BY <1>10, CurrentFacts DEF SubmitFailed, HandlerFits
  <2>2. /\ \/ order'[intent.row].status = "REJECTED" /\ market'[intent.row].net = "lost"
           \/ order'[intent.row].status = "UNKNOWN"
        /\ \A i \in Gen \ {intent.row} : order'[i] = order[i] /\ market'[i] = market[i]
    BY <1>10, <2>1, <1>t DEF SubmitFailed, OrderType, MarketType
  <2> QED BY <1>10, <2>1, <2>2, <1>g DEF SubmitFailed, Accounting, ExitAccounted, OverIsOver,
        IntentIsLatest, Pending, Done, MayExecute, orderTerminal, Ended, Voided
<1>11. CASE SettleSubmits
  BY <1>11 DEF SettleSubmits, Venue, Ledger, Position, Accounting, ExitAccounted, OverIsOver,
     IntentIsLatest, Pending, Done, MayExecute, orderTerminal, Ended, Voided
<1>12. CASE SettleSkips
  BY <1>12 DEF SettleSkips, Venue, Ledger, Position, Accounting, ExitAccounted, OverIsOver,
     IntentIsLatest, Pending, Done, MayExecute, orderTerminal, Ended, Voided
<1>13. CASE SettleQueries
  <2>1. Pending /\ intent.row \in 1..made /\ intent.row \in Gen
    BY <1>13, CurrentFacts DEF SettleQueries, HandlerFits
  <2>2. /\ market[intent.row].net \in {"live", "over", "lost"}
        /\ \A i \in Gen \ {intent.row} : order'[i] = order[i]
    BY <1>13, <2>1, <1>t DEF SettleQueries
  <2>3. ASSUME market[intent.row].net = "live"
        PROVE  ~ orderTerminal(order'[intent.row].status)
    <3> DEFINE answer == IF market[intent.row].net = "live" THEN WorkingStatus(market[intent.row].exec)
                        ELSE IF market[intent.row].exec = Current.qty THEN "FILLED" ELSE "EXPIRED"
    <3>0. answer = WorkingStatus(market[intent.row].exec)
      BY <2>3
    <3>1. order' = [order EXCEPT ![intent.row].exec = market[intent.row].exec,
                                 ![intent.row].status = answer]
      BY <1>13, <2>3 DEF SettleQueries
    <3> HIDE DEF answer
    <3>2. order'[intent.row].status = WorkingStatus(market[intent.row].exec)
      BY <2>1, <3>0, <3>1, <1>t DEF OrderType
    <3> QED BY <3>2 DEF WorkingStatus, orderTerminal, Ended, Voided
  <2> QED BY <1>13, <2>1, <2>2, <2>3, <1>g DEF SettleQueries, Accounting, Venue, ExitAccounted,
        OverIsOver, IntentIsLatest, Pending, Done, MayExecute, orderTerminal, Ended, Voided
<1>14. CASE StepFails
  BY <1>14 DEF StepFails, Venue, Ledger, Position, Accounting, ExitAccounted, OverIsOver,
     IntentIsLatest, Pending, Done, MayExecute, orderTerminal, Ended, Voided
<1>15. CASE DecideWaits
  BY <1>15 DEF DecideWaits, Venue, Ledger, Position, Accounting, ExitAccounted, OverIsOver,
     IntentIsLatest, Pending, Done, MayExecute, orderTerminal, Ended, Voided
<1>16. CASE DecideCloses
  <2>1. Pending /\ Done(intent.row) /\ intent.row \in 1..made
    BY <1>16, CurrentFacts DEF DecideCloses, HandlerFits
  <2>2. \A i \in 1..made : ~ MayExecute(i) /\ Done(i)
    BY <2>1 DEF Accounting, ExitAccounted, OverIsOver
  <2> QED BY <1>16, <2>2 DEF DecideCloses, NoIntent, Resting, Venue, Ledger, Position,
        Accounting, ExitAccounted, OverIsOver, IntentIsLatest, Pending, Done, MayExecute,
        orderTerminal, Ended, Voided
<1>17. CASE DecideReduced
  <2>1. Pending /\ Done(intent.row) /\ intent.row \in 1..made
    BY <1>17, CurrentFacts DEF DecideReduced, Done, Current, orderTerminal, Ended, HandlerFits
  <2>2. \A i \in 1..made : ~ MayExecute(i) /\ Done(i)
    BY <2>1 DEF Accounting, ExitAccounted, OverIsOver
  <2> QED BY <1>17, <2>2 DEF DecideReduced, NoIntent, Resting, Venue, Ledger, Position,
        Accounting, ExitAccounted, OverIsOver, IntentIsLatest, Pending, Done, MayExecute,
        orderTerminal, Ended, Voided
<1>18. CASE DecideResidual
  BY <1>18, <1>t DEF DecideResidual, Venue, Ledger, IntentType, Accounting, ExitAccounted,
     OverIsOver, IntentIsLatest, Pending, Done, MayExecute, orderTerminal, Ended, Voided
<1>19. CASE DecideHolds
  BY <1>19 DEF DecideHolds, Venue, Ledger, Position, Accounting, ExitAccounted, OverIsOver,
     IntentIsLatest, Pending, Done, MayExecute, orderTerminal, Ended, Voided
<1>20. CASE Resubmit
  <2>1. Pending /\ Done(intent.row) /\ intent.row = made /\ made \in 1..made
    BY <1>20, CurrentFacts DEF Resubmit, ExitEnded, HandlerFits
  <2>2. /\ made' = made + 1 /\ intent'.row = made' /\ state' = "CLOSE_PENDING"
        /\ order'[made'].status = "PLANNED"
        /\ \A i \in 1..made : order'[i] = order[i]
    BY <1>20, ResubmitFacts
  <2>3. \A i \in 1..made : ~ MayExecute(i) /\ Done(i)
    BY <2>1 DEF Accounting, ExitAccounted, OverIsOver, Pending, HandlerFits
  <2>4. market' = market
    BY <1>20 DEF Resubmit, Venue
  <2>5. \A i \in 1..made' : i \in 1..made \/ i = made'
    BY <2>2, <1>t
  <2>6. ~ orderTerminal(order'[made'].status)
    BY <2>2 DEF orderTerminal, Ended, Voided
  <2>7. \A i \in 1..made : ~ MayExecute(i)' /\ Done(i)' = Done(i)
    BY <2>2, <2>3, <2>4 DEF MayExecute, Done
  <2>8. ExitAccounted'
    BY <2>2, <2>3, <2>5, <2>7, <1>t DEF ExitAccounted, Pending
  <2>9. OverIsOver' /\ IntentIsLatest'
    BY <2>2, <2>5, <2>6, <2>7 DEF OverIsOver, IntentIsLatest, Done
  <2> QED BY <2>8, <2>9 DEF Accounting
<1>21. CASE Abandon
  <2>1. Pending /\ Done(intent.row) /\ intent.row \in 1..made
    BY <1>21, CurrentFacts DEF Abandon, ExitEnded, HandlerFits
  <2>2. \A i \in 1..made : ~ MayExecute(i) /\ Done(i)
    BY <2>1 DEF Accounting, ExitAccounted, OverIsOver
  <2> QED BY <1>21, <2>2 DEF Abandon, NoIntent, Resting, Venue, Ledger, Position, Accounting,
        ExitAccounted, OverIsOver, IntentIsLatest, Pending, Done, MayExecute, orderTerminal,
        Ended, Voided
<1>22. CASE MarkAbandoned
  BY <1>22 DEF MarkAbandoned, Venue, Ledger, Position, Accounting, ExitAccounted, OverIsOver,
     IntentIsLatest, Pending, Done, MayExecute, orderTerminal, Ended, Voided
<1>23. CASE AbandonReturns
  BY <1>23 DEF AbandonReturns, Venue, Ledger, Position, Accounting, ExitAccounted, OverIsOver,
     IntentIsLatest, Pending, Done, MayExecute, orderTerminal, Ended, Voided
<1>24. CASE SupersedeWaits
  BY <1>24 DEF SupersedeWaits, Venue, Ledger, Position, Accounting, ExitAccounted, OverIsOver,
     IntentIsLatest, Pending, Done, MayExecute, orderTerminal, Ended, Voided
<1>25. CASE supersedePartialExit
  <2>1. Pending /\ Done(intent.row) /\ intent.row \in 1..made
    BY <1>25, CurrentFacts DEF supersedePartialExit, HandlerFits
  <2>2. \A i \in 1..made : ~ MayExecute(i) /\ Done(i)
    BY <2>1 DEF Accounting, ExitAccounted, OverIsOver
  <2> QED BY <1>25, <2>2 DEF supersedePartialExit, NoIntent, Resting, Venue, Ledger, Position,
        Accounting, ExitAccounted, OverIsOver, IntentIsLatest, Pending, Done, MayExecute,
        orderTerminal, Ended, Voided
<1>26. CASE SupersedeSettled
  BY <1>26 DEF SupersedeSettled, Venue, Ledger, Position, Accounting, ExitAccounted, OverIsOver,
     IntentIsLatest, Pending, Done, MayExecute, orderTerminal, Ended, Voided
<1>27. CASE Crash
  BY <1>27 DEF Crash, Venue, Ledger, Position, Accounting, ExitAccounted, OverIsOver,
     IntentIsLatest, Pending, Done, MayExecute, orderTerminal, Ended, Voided
<1>28. ASSUME NEW i \in Gen, OrderArrives(i) PROVE Accounting'
  BY <1>28, <1>t, <1>g DEF OrderArrives, MarketType, Ledger, Accounting, ExitAccounted,
     OverIsOver, IntentIsLatest, Pending, Done, MayExecute, orderTerminal, Ended, Voided
<1>29. ASSUME NEW i \in Gen, OrderFills(i) PROVE Accounting'
  BY <1>29, <1>t, <1>g DEF OrderFills, MarketType, Ledger, Accounting, ExitAccounted,
     OverIsOver, IntentIsLatest, Pending, Done, MayExecute, orderTerminal, Ended, Voided
<1>30. ASSUME NEW i \in Gen, OrderExpires(i) PROVE Accounting'
  BY <1>30, <1>t, <1>g DEF OrderExpires, MarketType, Ledger, Accounting, ExitAccounted,
     OverIsOver, IntentIsLatest, Pending, Done, MayExecute, orderTerminal, Ended, Voided
<1>31. CASE ProtectionFills
  BY <1>31 DEF ProtectionFills, Venue, Ledger, Position, Accounting, ExitAccounted, OverIsOver,
     IntentIsLatest, Pending, Done, MayExecute, orderTerminal, Ended, Voided
<1>32. CASE EntryFills
  BY <1>32 DEF EntryFills, Venue, Ledger, Position, Accounting, ExitAccounted, OverIsOver,
     IntentIsLatest, Pending, Done, MayExecute, orderTerminal, Ended, Voided
<1>33. CASE ReadCatchesUp
  BY <1>33 DEF ReadCatchesUp, Venue, Ledger, Position, Accounting, ExitAccounted, OverIsOver,
     IntentIsLatest, Pending, Done, MayExecute, orderTerminal, Ended, Voided
<1>34. CASE ResidualConfirmTime
  BY <1>34, <1>t DEF ResidualConfirmTime, Venue, Ledger, IntentType, Accounting, ExitAccounted,
     OverIsOver, IntentIsLatest, Pending, Done, MayExecute, orderTerminal, Ended, Voided
<1>35. CASE OwnerOpens
  BY <1>35 DEF OwnerOpens, Ledger, Accounting, ExitAccounted, OverIsOver, IntentIsLatest,
     Pending, Done, MayExecute, orderTerminal, Ended, Voided
<1>36. CASE UNCHANGED vars
  BY <1>36 DEF vars, Accounting, ExitAccounted, OverIsOver, IntentIsLatest, Pending, Done,
     MayExecute, orderTerminal, Ended, Voided
<1> QED BY <1>1, <1>2, <1>3, <1>4, <1>5, <1>6, <1>7, <1>8, <1>9, <1>10, <1>11, <1>12, <1>13,
           <1>14, <1>15, <1>16, <1>17, <1>18, <1>19, <1>20, <1>21, <1>22, <1>23, <1>24, <1>25,
           <1>26, <1>27, <1>28, <1>29, <1>30, <1>31, <1>32, <1>33, <1>34, <1>35, <1>36 DEF Next,
           Handler, Exchange

(* Reads stay behind reductions and never behind an opening. *)
LEMMA ReadsStep == IInv /\ [Next]_vars => ReadsLag'
<1> SUFFICES ASSUME IInv, [Next]_vars PROVE ReadsLag'
  OBVIOUS
<1>t. /\ pos \in 0..MaxPos /\ shown \in 0..MaxPos /\ entry \in 0..LateFill
      /\ MaxPos \in Nat /\ LateFill \in Nat /\ opens \in 0..MaxOpens
  BY BoundFacts, ExitAssumption, TypeFacts DEF IInv, Typed
<1>r. ReadsLag
  BY DEF IInv
<1> USE <1>r
<1>1. ASSUME NEW s \in Signals, RequestClose(s) PROVE ReadsLag'
  BY <1>1, <1>t DEF RequestClose, Venue, Position, ReadsLag, closeEntryEligibility
<1>2. CASE reconcileOnce
  BY <1>2, <1>t DEF reconcileOnce, Venue, Position, ReadsLag
<1>3. ASSUME NEW s \in Signals, recoverPendingActions(s) PROVE ReadsLag'
  BY <1>3, <1>t DEF recoverPendingActions, Venue, Position, ReadsLag, closeEntryEligibility
<1>4. CASE PassSettlesExit
  BY <1>4, <1>t DEF PassSettlesExit, Venue, Position, ReadsLag
<1>5. CASE PassEnds
  BY <1>5, <1>t DEF PassEnds, Venue, Position, ReadsLag
<1>6. CASE reconcileOpenTrade
  BY <1>6, <1>t DEF reconcileOpenTrade, Venue, Position, ReadsLag, PositionGone,
     closeEntryEligibility
<1>7. CASE EnterRefused
  BY <1>7, <1>t DEF EnterRefused, Venue, Position, ReadsLag
<1>8. CASE EnterCreates
  BY <1>8, <1>t DEF EnterCreates, Venue, Position, ReadsLag
<1>9. CASE SubmitAccepted
  BY <1>9, <1>t DEF SubmitAccepted, Venue, Position, ReadsLag
<1>10. CASE SubmitFailed
  BY <1>10, <1>t DEF SubmitFailed, Venue, Position, ReadsLag
<1>11. CASE SettleSubmits
  BY <1>11, <1>t DEF SettleSubmits, Venue, Position, ReadsLag
<1>12. CASE SettleSkips
  BY <1>12, <1>t DEF SettleSkips, Venue, Position, ReadsLag
<1>13. CASE SettleQueries
  BY <1>13, <1>t DEF SettleQueries, Venue, Position, ReadsLag
<1>14. CASE StepFails
  BY <1>14, <1>t DEF StepFails, Venue, Position, ReadsLag
<1>15. CASE DecideWaits
  BY <1>15, <1>t DEF DecideWaits, Venue, Position, ReadsLag
<1>16. CASE DecideCloses
  BY <1>16, <1>t DEF DecideCloses, Venue, Position, ReadsLag
<1>17. CASE DecideReduced
  BY <1>17, <1>t DEF DecideReduced, Venue, Position, ReadsLag
<1>18. CASE DecideResidual
  BY <1>18, <1>t DEF DecideResidual, Venue, Position, ReadsLag
<1>19. CASE DecideHolds
  BY <1>19, <1>t DEF DecideHolds, Venue, Position, ReadsLag
<1>20. CASE Resubmit
  BY <1>20, <1>t DEF Resubmit, Venue, Position, ReadsLag
<1>21. CASE Abandon
  BY <1>21, <1>t DEF Abandon, Venue, Position, ReadsLag
<1>22. CASE MarkAbandoned
  BY <1>22, <1>t DEF MarkAbandoned, Venue, Position, ReadsLag
<1>23. CASE AbandonReturns
  BY <1>23, <1>t DEF AbandonReturns, Venue, Position, ReadsLag
<1>24. CASE SupersedeWaits
  BY <1>24, <1>t DEF SupersedeWaits, Venue, Position, ReadsLag
<1>25. CASE supersedePartialExit
  BY <1>25, <1>t DEF supersedePartialExit, Venue, Position, ReadsLag
<1>26. CASE SupersedeSettled
  BY <1>26, <1>t DEF SupersedeSettled, Venue, Position, ReadsLag
<1>27. CASE Crash
  BY <1>27, <1>t DEF Crash, Venue, Position, ReadsLag
<1>28. ASSUME NEW i \in Gen, OrderArrives(i) PROVE ReadsLag'
  BY <1>28, <1>t DEF OrderArrives, Venue, Position, ReadsLag
<1>29. ASSUME NEW i \in Gen, OrderFills(i) PROVE ReadsLag'
  BY <1>29, <1>t DEF OrderFills, Venue, Position, ReadsLag, Reduce
<1>30. ASSUME NEW i \in Gen, OrderExpires(i) PROVE ReadsLag'
  BY <1>30, <1>t DEF OrderExpires, Venue, Position, ReadsLag
<1>31. CASE ProtectionFills
  BY <1>31, <1>t DEF ProtectionFills, Venue, Position, ReadsLag, Reduce
<1>32. CASE EntryFills
  BY <1>32, <1>t DEF EntryFills, Venue, Position, ReadsLag
<1>33. CASE ReadCatchesUp
  BY <1>33, <1>t DEF ReadCatchesUp, Venue, Position, ReadsLag
<1>34. CASE ResidualConfirmTime
  BY <1>34, <1>t DEF ResidualConfirmTime, Venue, Position, ReadsLag
<1>35. CASE OwnerOpens
  <2>1. entry = 0 /\ MaxOpens > 0
    BY <1>35, <1>t, ExitAssumption DEF OwnerOpens, IInv, ClosedIsOver
  <2> QED BY <1>35, <1>t, <2>1, BoundFacts, ExitAssumption DEF OwnerOpens, ReadsLag
<1>36. CASE UNCHANGED vars
  BY <1>36 DEF vars, ReadsLag
<1> QED BY <1>1, <1>2, <1>3, <1>4, <1>5, <1>6, <1>7, <1>8, <1>9, <1>10, <1>11, <1>12, <1>13,
           <1>14, <1>15, <1>16, <1>17, <1>18, <1>19, <1>20, <1>21, <1>22, <1>23, <1>24, <1>25,
           <1>26, <1>27, <1>28, <1>29, <1>30, <1>31, <1>32, <1>33, <1>34, <1>35, <1>36 DEF Next,
           Handler, Exchange

(* What a closed trade leaves behind stays over. *)
LEMMA ClosedStep == IInv /\ [Next]_vars => ClosedIsOver'
<1> SUFFICES ASSUME IInv, [Next]_vars PROVE ClosedIsOver'
  OBVIOUS
<1>t. /\ pos \in 0..MaxPos /\ shown \in 0..MaxPos /\ entry \in 0..LateFill
      /\ MaxPos \in Nat /\ LateFill \in Nat /\ opens \in 0..MaxOpens /\ MaxOpens \in Nat
      /\ market \in [Gen -> MarketType] /\ made \in 0..MaxOrders
  BY BoundFacts, ExitAssumption, TypeFacts DEF IInv, Typed
<1>r. ReadsLag /\ ExitAccounted /\ OverIsOver /\ HandlerFits /\ ClosedIsOver
  BY DEF IInv
<1> USE <1>r
<1>1. ASSUME NEW s \in Signals, RequestClose(s) PROVE ClosedIsOver'
  BY <1>1, <1>t DEF RequestClose, Venue, Ledger, Position, ClosedIsOver, MayExecute,
     closeEntryEligibility
<1>2. CASE reconcileOnce
  BY <1>2, <1>t DEF reconcileOnce, Venue, Ledger, Position, ClosedIsOver, MayExecute
<1>3. ASSUME NEW s \in Signals, recoverPendingActions(s) PROVE ClosedIsOver'
  BY <1>3, <1>t DEF recoverPendingActions, Venue, Ledger, Position, ClosedIsOver, MayExecute,
     closeEntryEligibility
<1>4. CASE PassSettlesExit
  BY <1>4, <1>t DEF PassSettlesExit, Venue, Ledger, Position, ClosedIsOver, MayExecute
<1>5. CASE PassEnds
  BY <1>5, <1>t DEF PassEnds, Venue, Ledger, Position, ClosedIsOver, MayExecute
<1>6. CASE reconcileOpenTrade
  <2>1. \A i \in 1..made : ~ MayExecute(i)
    BY <1>6 DEF reconcileOpenTrade, ExitAccounted, Pending
  <2>2. CASE state' # "CLOSED"
    BY <2>2 DEF ClosedIsOver
  <2>3. CASE state' = "CLOSED"
    <3>1. shown = 0 /\ entry' = 0
      BY <1>6, <2>3 DEF reconcileOpenTrade, PositionGone
    <3>2. pos = 0
      BY <3>1, <1>t DEF ReadsLag
    <3> QED BY <1>6, <2>1, <3>1, <3>2 DEF reconcileOpenTrade, Ledger, Position, ClosedIsOver,
        MayExecute
  <2> QED BY <2>2, <2>3
<1>7. CASE EnterRefused
  BY <1>7, <1>t DEF EnterRefused, Venue, Ledger, Position, ClosedIsOver, MayExecute
<1>8. CASE EnterCreates
  BY <1>8, <1>t DEF EnterCreates, Venue, Ledger, Position, ClosedIsOver, MayExecute,
     CreateExitOrder
<1>9. CASE SubmitAccepted
  <2>1. state = "CLOSE_PENDING" /\ state' = state
    BY <1>9 DEF SubmitAccepted, HandlerFits, ExitAccounted
  <2> QED BY <2>1 DEF ClosedIsOver
<1>10. CASE SubmitFailed
  <2>1. state = "CLOSE_PENDING" /\ state' = state
    BY <1>10 DEF SubmitFailed, HandlerFits, ExitAccounted
  <2> QED BY <2>1 DEF ClosedIsOver
<1>11. CASE SettleSubmits
  BY <1>11, <1>t DEF SettleSubmits, Venue, Ledger, Position, ClosedIsOver, MayExecute
<1>12. CASE SettleSkips
  BY <1>12, <1>t DEF SettleSkips, Venue, Ledger, Position, ClosedIsOver, MayExecute
<1>13. CASE SettleQueries
  BY <1>13, <1>t DEF SettleQueries, Venue, Ledger, Position, ClosedIsOver, MayExecute, Pending,
     HandlerFits
<1>14. CASE StepFails
  BY <1>14, <1>t DEF StepFails, Venue, Ledger, Position, ClosedIsOver, MayExecute
<1>15. CASE DecideWaits
  BY <1>15, <1>t DEF DecideWaits, Venue, Ledger, Position, ClosedIsOver, MayExecute
<1>16. CASE DecideCloses
  <2>1. Pending /\ Done(intent.row) /\ intent.row \in 1..made
    BY <1>16, CurrentFacts DEF DecideCloses, HandlerFits
  <2>2. \A i \in 1..made : ~ MayExecute(i)
    BY <2>1 DEF ExitAccounted, OverIsOver
  <2>3. pos = 0
    BY <1>16, <1>t DEF DecideCloses, ReadsLag
  <2> QED BY <1>16, <2>2, <2>3 DEF DecideCloses, Ledger, ClosedIsOver, MayExecute
<1>17. CASE DecideReduced
  BY <1>17, <1>t DEF DecideReduced, Venue, Ledger, Position, ClosedIsOver, MayExecute, Resting
<1>18. CASE DecideResidual
  BY <1>18, <1>t DEF DecideResidual, Venue, Ledger, Position, ClosedIsOver, MayExecute, Pending,
     HandlerFits
<1>19. CASE DecideHolds
  BY <1>19, <1>t DEF DecideHolds, Venue, Ledger, Position, ClosedIsOver, MayExecute
<1>20. CASE Resubmit
  BY <1>20, <1>t DEF Resubmit, Venue, Ledger, Position, ClosedIsOver, MayExecute,
     CreateExitOrder
<1>21. CASE Abandon
  BY <1>21, <1>t DEF Abandon, Venue, Ledger, Position, ClosedIsOver, MayExecute, Resting
<1>22. CASE MarkAbandoned
  BY <1>22, <1>t DEF MarkAbandoned, Venue, Ledger, Position, ClosedIsOver, MayExecute
<1>23. CASE AbandonReturns
  BY <1>23, <1>t DEF AbandonReturns, Venue, Ledger, Position, ClosedIsOver, MayExecute
<1>24. CASE SupersedeWaits
  BY <1>24, <1>t DEF SupersedeWaits, Venue, Ledger, Position, ClosedIsOver, MayExecute
<1>25. CASE supersedePartialExit
  BY <1>25, <1>t DEF supersedePartialExit, Venue, Ledger, Position, ClosedIsOver, MayExecute,
     Resting
<1>26. CASE SupersedeSettled
  BY <1>26, <1>t DEF SupersedeSettled, Venue, Ledger, Position, ClosedIsOver, MayExecute
<1>27. CASE Crash
  BY <1>27, <1>t DEF Crash, Venue, Ledger, Position, ClosedIsOver, MayExecute
<1>28. ASSUME NEW i \in Gen, OrderArrives(i) PROVE ClosedIsOver'
  <2>1. CASE state' # "CLOSED"
    BY <2>1 DEF ClosedIsOver
  <2>2. CASE state' = "CLOSED"
    <3>1. state = "CLOSED" /\ i \notin 1..made
      BY <1>28, <2>2 DEF OrderArrives, ClosedIsOver, MayExecute
    <3>2. \A j \in 1..made : market'[j] = market[j]
      BY <1>28, <3>1, <1>t DEF OrderArrives
    <3> QED BY <1>28, <3>1, <3>2 DEF OrderArrives, Ledger, ClosedIsOver, MayExecute
  <2> QED BY <2>1, <2>2
<1>29. ASSUME NEW i \in Gen, OrderFills(i) PROVE ClosedIsOver'
  <2>1. CASE state' # "CLOSED"
    BY <2>1 DEF ClosedIsOver
  <2>2. CASE state' = "CLOSED"
    <3>1. state = "CLOSED" /\ i \notin 1..made /\ opens # 0
      BY <1>29, <2>2, <1>t DEF OrderFills, ClosedIsOver, MayExecute
    <3>2. \A j \in 1..made : market'[j] = market[j]
      BY <1>29, <3>1, <1>t DEF OrderFills
    <3> QED BY <1>29, <3>1, <3>2, <1>t DEF OrderFills, Ledger, ClosedIsOver, MayExecute
  <2> QED BY <2>1, <2>2
<1>30. ASSUME NEW i \in Gen, OrderExpires(i) PROVE ClosedIsOver'
  <2>1. CASE state' # "CLOSED"
    BY <2>1 DEF ClosedIsOver
  <2>2. CASE state' = "CLOSED"
    <3>1. state = "CLOSED" /\ i \notin 1..made
      BY <1>30, <2>2 DEF OrderExpires, ClosedIsOver, MayExecute
    <3>2. \A j \in 1..made : market'[j] = market[j]
      BY <1>30, <3>1, <1>t DEF OrderExpires
    <3> QED BY <1>30, <3>1, <3>2 DEF OrderExpires, Ledger, ClosedIsOver, MayExecute
  <2> QED BY <2>1, <2>2
<1>31. CASE ProtectionFills
  BY <1>31, <1>t DEF ProtectionFills, Venue, Ledger, Position, ClosedIsOver, MayExecute, Reduce
<1>32. CASE EntryFills
  BY <1>32, <1>t DEF EntryFills, Venue, Ledger, Position, ClosedIsOver, MayExecute
<1>33. CASE ReadCatchesUp
  BY <1>33, <1>t DEF ReadCatchesUp, Venue, Ledger, Position, ClosedIsOver, MayExecute
<1>34. CASE ResidualConfirmTime
  BY <1>34, <1>t DEF ResidualConfirmTime, Venue, Ledger, Position, ClosedIsOver, MayExecute,
     Pending, HandlerFits
<1>35. CASE OwnerOpens
  BY <1>35, <1>t DEF OwnerOpens, Venue, Ledger, Position, ClosedIsOver, MayExecute
<1>36. CASE UNCHANGED vars
  BY <1>36 DEF vars, ClosedIsOver, MayExecute
<1> QED BY <1>1, <1>2, <1>3, <1>4, <1>5, <1>6, <1>7, <1>8, <1>9, <1>10, <1>11, <1>12, <1>13,
           <1>14, <1>15, <1>16, <1>17, <1>18, <1>19, <1>20, <1>21, <1>22, <1>23, <1>24, <1>25,
           <1>26, <1>27, <1>28, <1>29, <1>30, <1>31, <1>32, <1>33, <1>34, <1>35, <1>36 DEF Next,
           Handler, Exchange

-----------------------------------------------------------------------------
(* Sums over the generations.  The library's theorems of induction take an *)
(* operator as a parameter; what is used of them here is that < is         *)
(* well-founded on Nat, which gives induction for sets.                    *)

Less == {ss \in Nat \X Nat : ss[1] < ss[2]}

LEMMA LessIsWellFounded == IsWellFoundedOn(Less, Nat)
<1>1. Less \cap (Nat \X Nat) \subseteq OpToRel(<, Nat)
  BY Zenon DEF Less, OpToRel
<1> QED BY <1>1, NatLessThanWellFounded, IsWellFoundedOnSubrelation

LEMMA Induction ==
    ASSUME NEW T \in SUBSET Nat, 0 \in T, \A n \in T : n + 1 \in T PROVE Nat \subseteq T
<1> SUFFICES ASSUME Nat \ T # {} PROVE FALSE
  OBVIOUS
<1>1. PICK x \in Nat \ T : \A y \in Nat \ T : <<y, x>> \notin Less
  BY LessIsWellFounded, WFMin
<1>2. x # 0 /\ x - 1 \in Nat
  BY <1>1
<1>3. <<x - 1, x>> \in Less
  BY <1>2 DEF Less
<1>4. x - 1 \in T
  BY <1>1, <1>2, <1>3
<1>5. x - 1 + 1 = x
  BY <1>1
<1> QED BY <1>4, <1>5, <1>1

LEMMA OrdersNat == MaxOrders \in Nat
BY ExitAssumption

\* The running sums of f, as Total defines them, and up to a generation n.
Running(g, f) == g = [l \in 0 .. MaxOrders |-> IF l = 0 THEN 0 ELSE g[l - 1] + f[l]]
AddsUp(g, f, n) == g[0] = 0 /\ \A k \in 1 .. n : g[k] = g[k - 1] + f[k]

LEMMA TotalsExist ==
    ASSUME NEW f \in [Gen -> Int]
    PROVE  \E g \in [0 .. MaxOrders -> Int] : AddsUp(g, f, MaxOrders)
<1> DEFINE T == {n \in Nat : n <= MaxOrders => \E g \in [0 .. n -> Int] : AddsUp(g, f, n)}
<1>1. 0 \in T
  <2>1. AddsUp([k \in 0 .. 0 |-> 0], f, 0) /\ [k \in 0 .. 0 |-> 0] \in [0 .. 0 -> Int]
    BY DEF AddsUp
  <2> QED BY <2>1
<1>2. ASSUME NEW n \in T PROVE n + 1 \in T
  <2> SUFFICES ASSUME n + 1 <= MaxOrders
               PROVE  \E g \in [0 .. n + 1 -> Int] : AddsUp(g, f, n + 1)
    OBVIOUS
  <2>1. PICK g \in [0 .. n -> Int] : AddsUp(g, f, n)
    BY OrdersNat
  <2>2. n + 1 \in Gen /\ f[n + 1] \in Int /\ n \in 0 .. n
    BY OrdersNat DEF Gen
  <2> DEFINE h == [k \in 0 .. n + 1 |-> IF k = n + 1 THEN g[n] + f[n + 1] ELSE g[k]]
  <2>3. h \in [0 .. n + 1 -> Int]
    BY <2>2
  <2>4. h[0] = 0
    BY <2>1 DEF AddsUp
  <2>5. ASSUME NEW k \in 1 .. n + 1 PROVE h[k] = h[k - 1] + f[k]
    <3>1. CASE k = n + 1
      BY <3>1
    <3>2. CASE k # n + 1
      <4>1. k \in 1 .. n /\ k - 1 \in 0 .. n + 1 /\ k \in 0 .. n + 1 /\ k - 1 # n + 1
        BY <3>2
      <4>2. g[k] = g[k - 1] + f[k]
        BY <4>1, <2>1 DEF AddsUp
      <4> QED BY <4>1, <4>2, <3>2
    <3> QED BY <3>1, <3>2
  <2> HIDE DEF h
  <2> QED BY <2>3, <2>4, <2>5 DEF AddsUp
<1> HIDE DEF T
<1>3. Nat \subseteq T
  BY <1>1, <1>2, Induction DEF T
<1> QED BY <1>3, OrdersNat DEF T

LEMMA RunningSums ==
    ASSUME NEW f \in [Gen -> Int]
    PROVE  \E g \in [0 .. MaxOrders -> Int] : AddsUp(g, f, MaxOrders) /\ Total(f) = g[MaxOrders]
<1> DEFINE h == CHOOSE g : Running(g, f)
<1>1. Total(f) = h[MaxOrders]
  BY DEF Total, Running
<1>2. PICK g \in [0 .. MaxOrders -> Int] : AddsUp(g, f, MaxOrders)
  BY TotalsExist
<1>3. Running(g, f)
  <2>1. \A l \in 0 .. MaxOrders : g[l] = IF l = 0 THEN 0 ELSE g[l - 1] + f[l]
    BY <1>2, OrdersNat DEF AddsUp
  <2> QED BY <1>2, <2>1 DEF Running
<1>4. Running(h, f)
  BY <1>3
<1> HIDE DEF h
<1>5. h[0] = 0 /\ \A k \in 1 .. MaxOrders : h[k] = h[k - 1] + f[k]
  BY <1>4, OrdersNat DEF Running
<1>6. h \in [0 .. MaxOrders -> Int]
  <2> DEFINE T == {n \in Nat : n <= MaxOrders => h[n] \in Int}
  <2>1. 0 \in T
    BY <1>5
  <2>2. ASSUME NEW n \in T PROVE n + 1 \in T
    BY <1>5, OrdersNat DEF Gen
  <2> HIDE DEF T
  <2>3. Nat \subseteq T
    BY <2>1, <2>2, Induction DEF T
  <2>4. \A n \in 0 .. MaxOrders : h[n] \in Int
    BY <2>3, OrdersNat DEF T
  <2>5. h = [l \in 0 .. MaxOrders |-> h[l]]
    BY <1>4 DEF Running
  <2> QED BY <2>4, <2>5
<1> QED BY <1>1, <1>5, <1>6 DEF AddsUp

LEMMA TotalInt == ASSUME NEW f \in [Gen -> Int] PROVE Total(f) \in Int
BY RunningSums, OrdersNat

(* A sum without one of its terms.                                         *)
LEMMA TotalSplit ==
    ASSUME NEW f \in [Gen -> Int], NEW j \in Gen
    PROVE  Total(f) = Total([l \in Gen |-> IF l = j THEN 0 ELSE f[l]]) + f[j]
<1> DEFINE g == [l \in Gen |-> IF l = j THEN 0 ELSE f[l]]
<1>g. g \in [Gen -> Int] /\ g[j] = 0 /\ \A l \in Gen : l # j => g[l] = f[l]
  OBVIOUS
<1>j. f[j] \in Int /\ j \in Nat /\ j > 0
  <2>1. j \in 1 .. MaxOrders
    BY DEF Gen
  <2> QED BY <2>1, OrdersNat
<1> HIDE DEF g
<1>1. PICK u \in [0 .. MaxOrders -> Int] : AddsUp(u, f, MaxOrders) /\ Total(f) = u[MaxOrders]
  BY RunningSums
<1>2. PICK v \in [0 .. MaxOrders -> Int] : AddsUp(v, g, MaxOrders) /\ Total(g) = v[MaxOrders]
  BY <1>g, RunningSums
<1> DEFINE T == {n \in Nat : n <= MaxOrders => u[n] = v[n] + (IF j <= n THEN f[j] ELSE 0)}
<1>3. 0 \in T
  BY <1>1, <1>2, <1>j DEF AddsUp
<1>4. ASSUME NEW n \in T PROVE n + 1 \in T
  <2> SUFFICES ASSUME n + 1 <= MaxOrders
               PROVE  u[n + 1] = v[n + 1] + (IF j <= n + 1 THEN f[j] ELSE 0)
    OBVIOUS
  <2>1. u[n + 1] = u[n] + f[n + 1] /\ v[n + 1] = v[n] + g[n + 1]
    BY <1>1, <1>2, OrdersNat DEF AddsUp
  <2>0. n \in Nat /\ n \in 0 .. MaxOrders /\ n + 1 \in Gen
    BY OrdersNat DEF Gen
  <2>2. u[n] \in Int /\ v[n] \in Int /\ f[n + 1] \in Int /\ g[n + 1] \in Int
    BY <1>g, <2>0
  <2>3. u[n] = v[n] + (IF j <= n THEN f[j] ELSE 0)
    BY <2>0, OrdersNat
  <2>4. CASE j = n + 1
    BY <1>g, <1>j, <2>0, <2>1, <2>2, <2>3, <2>4
  <2>5. CASE j # n + 1
    <3>1. g[n + 1] = f[n + 1] /\ (j <= n <=> j <= n + 1)
      BY <1>g, <1>j, <2>0, <2>5
    <3> QED BY <1>j, <2>0, <2>1, <2>2, <2>3, <3>1
  <2> QED BY <2>4, <2>5
<1> HIDE DEF T
<1>5. Nat \subseteq T
  BY <1>3, <1>4, Induction DEF T
<1>6. j <= MaxOrders
  BY OrdersNat DEF Gen
<1> QED BY <1>1, <1>2, <1>5, <1>6, OrdersNat DEF T, g

LEMMA TotalZero ==
    ASSUME NEW f \in [Gen -> Int], \A i \in Gen : f[i] = 0
    PROVE  Total(f) = 0
<1>1. PICK g \in [0 .. MaxOrders -> Int] : AddsUp(g, f, MaxOrders) /\ Total(f) = g[MaxOrders]
  BY RunningSums
<1> DEFINE T == {n \in Nat : n <= MaxOrders => g[n] = 0}
<1>2. 0 \in T
  BY <1>1 DEF AddsUp
<1>3. ASSUME NEW n \in T PROVE n + 1 \in T
  <2> SUFFICES ASSUME n + 1 <= MaxOrders PROVE g[n + 1] = 0
    OBVIOUS
  <2>1. n + 1 \in Gen /\ n + 1 - 1 = n /\ g[n] = 0
    BY OrdersNat DEF Gen
  <2>2. g[n + 1] = g[n] + f[n + 1]
    BY <1>1, <2>1 DEF AddsUp, Gen
  <2> QED BY <2>1, <2>2
<1> HIDE DEF T
<1>4. Nat \subseteq T
  BY <1>2, <1>3, Induction DEF T
<1> QED BY <1>1, <1>4, OrdersNat DEF T

(* A sum whose terms differ only in one.                                   *)
LEMMA TotalChanges ==
    ASSUME NEW f \in [Gen -> Int], NEW g \in [Gen -> Int], NEW j \in Gen,
           \A i \in Gen : i # j => g[i] = f[i]
    PROVE  Total(g) = Total(f) - f[j] + g[j]
<1> DEFINE without(h) == [l \in Gen |-> IF l = j THEN 0 ELSE h[l]]
<1>1. without(f) = without(g) /\ without(f) \in [Gen -> Int]
  OBVIOUS
<1>2. Total(f) = Total(without(f)) + f[j] /\ Total(g) = Total(without(g)) + g[j]
  BY TotalSplit
<1>3. Total(without(f)) \in Int /\ f[j] \in Int /\ g[j] \in Int
  BY <1>1, TotalInt
<1> HIDE DEF without
<1> QED BY <1>1, <1>2, <1>3
-----------------------------------------------------------------------------
(* What the generations of a signal executed, row by row.                  *)
Shares(s) == [i \in Gen |-> IF order[i].signal = s THEN market[i].exec ELSE 0]

LEMMA RowsAreGen == ASSUME TypeOK PROVE \A i \in 1..made : i \in Gen
BY ExitAssumption DEF TypeOK, Gen

LEMMA QuantitiesInt ==
    ASSUME TypeOK, NEW i \in Gen PROVE order[i].qty \in Int /\ market[i].exec \in Nat
BY BoundFacts, TypeFacts DEF Typed, OrderType, MarketType

LEMMA SharesInt == ASSUME TypeOK, NEW s PROVE Shares(s) \in [Gen -> Int]
BY QuantitiesInt DEF Shares

LEMMA ExecutedInt == ASSUME TypeOK, NEW s PROVE Executed(s) \in Int
BY SharesInt, TotalInt DEF Shares, Executed

(* Rows that are created, and rows the ledger learns about, leave what was *)
(* executed of a signal as it was.                                         *)
LEMMA ExecutedStays ==
    ASSUME NEW s, \A i \in Gen : Shares(s)[i] = Shares(s)'[i]
    PROVE  Executed(s)' = Executed(s)
<1>1. Shares(s) = Shares(s)'
  BY DEF Shares
<1> QED BY <1>1 DEF Shares, Executed

(* Steps of the handlers that touch neither the rows nor their orders.     *)
LEMMA StillBudget ==
    ASSUME Budgets, UNCHANGED <<order, made, market>>,
           intent'.row = 0 \/ (intent'.row = intent.row /\ intent'.full = intent.full)
    PROVE  Budgets'
<1>1. RowsFit'
  BY DEF Budgets, RowsFit, RowFits, Done
<1>2. FullFits'
  BY DEF Budgets, FullFits, Pending, Current
<1>3. ASSUME NEW s \in Signals \ FullClose PROVE Budget(s)'
  BY DEF Budgets, Budget, exitRows, Executed
<1> QED BY <1>1, <1>2, <1>3 DEF Budgets

(* Steps that leave every row's signal, quantity and executed quantity.    *)
LEMMA SameBudget ==
    ASSUME IInv, made' = made, intent' = intent, RowsFit',
           \A i \in Gen : /\ order'[i].signal = order[i].signal /\ order'[i].qty = order[i].qty
                          /\ market'[i].exec = market[i].exec
    PROVE  Budgets'
<1>g. \A i \in 1..made : i \in Gen
  BY RowsAreGen DEF IInv
<1>2. FullFits'
  BY CurrentFacts DEF IInv, Budgets, FullFits, Pending, Current
<1>3. ASSUME NEW s \in Signals \ FullClose PROVE Budget(s)'
  <2>1. Executed(s)' = Executed(s)
    BY ExecutedStays DEF Shares
  <2>2. exitRows(s)' = exitRows(s)
    BY <1>g DEF exitRows
  <2>3. \A i \in exitRows(s) : i \in Gen
    BY <1>g DEF exitRows
  <2>4. Budget(s)
    BY DEF IInv, Budgets
  <2> QED BY <2>1, <2>2, <2>3, <2>4 DEF Budget
<1> QED BY <1>2, <1>3 DEF Budgets

(* The ledger and the venue move one row on, without executing anything.   *)
LEMMA RowMoves ==
    ASSUME IInv, NEW m \in 1..made,
           order'[m].signal = order[m].signal, order'[m].qty = order[m].qty,
           market'[m].exec = market[m].exec, order'[m].status # "PLANNED",
           market'[m].net \notin {"live", "over"} => order'[m].exec = 0 /\ market'[m].exec = 0,
           orderTerminal(order'[m].status) => order'[m].exec = market'[m].exec,
           order'[m].exec <= market'[m].exec,
           \A i \in Gen : i # m => order'[i] = order[i] /\ market'[i] = market[i],
           made' = made, intent' = intent
    PROVE  Budgets'
<1>t. made \in 0..MaxOrders
  BY TypeFacts DEF Typed, IInv
<1>1. m \in Gen /\ ~ m > made
  BY <1>t, RowsAreGen DEF IInv
<1>2. RowsFit'
  <2>1. ASSUME NEW i \in Gen, i # m PROVE RowFits(i)'
    BY <2>1 DEF IInv, Budgets, RowsFit, RowFits, Done
  <2>2. market[m].exec <= order[m].qty
    BY <1>1 DEF IInv, Budgets, RowsFit, RowFits
  <2>3. RowFits(m)'
    BY <1>1, <2>2 DEF RowFits, Done
  <2> QED BY <2>1, <2>3 DEF RowsFit
<1>3. \A i \in Gen : /\ order'[i].signal = order[i].signal /\ order'[i].qty = order[i].qty
                     /\ market'[i].exec = market[i].exec
  OBVIOUS
<1> QED BY <1>2, <1>3, SameBudget

(* A partial exit none of whose rows or orders moves keeps what it may     *)
(* still execute.                                                          *)
LEMMA OthersBudget ==
    ASSUME NEW r, Budget(r), Executed(r)' = Executed(r), exitRows(r)' = exitRows(r),
           \A i \in exitRows(r) : order'[i] = order[i] /\ market'[i] = market[i]
    PROVE  Budget(r)'
BY DEF Budget

(* A new row of s leaves the other signals' exits as they were.            *)
LEMMA CreateKeepsOthers ==
    ASSUME IInv, NEW s, NEW q, NEW full, NEW attempts, CreateExitOrder(s, q, full, attempts),
           UNCHANGED market
    PROVE  /\ RowsFit' <=> q >= 0
           /\ \A r : Executed(r)' = Executed(r)
           /\ \A r : r # s => exitRows(r)' = exitRows(r)
           /\ exitRows(s)' = exitRows(s) \cup {made'}
           /\ \A i \in 1..made : order'[i] = order[i]
           /\ order'[made'].qty = q /\ order'[made'].signal = s
           /\ market[made'].exec = 0 /\ made' = made + 1 /\ made' \in Gen
           /\ made' \notin 1..made
<1>t. made \in 0..MaxOrders /\ order \in [Gen -> OrderType] /\ market \in [Gen -> MarketType]
  BY TypeFacts DEF Typed, IInv
<1>1. made' = made + 1 /\ made' \in Gen /\ made' > made /\ made' \notin 1..made
  BY <1>t, ExitAssumption DEF Gen, CreateExitOrder
<1> DEFINE planned == [signal |-> s, qty |-> q, status |-> "PLANNED", exec |-> 0]
<1>2. order' = [order EXCEPT ![made'] = planned]
  BY <1>1 DEF CreateExitOrder
<1> HIDE DEF planned
<1>3. order'[made'] = planned /\ \A i \in Gen : i # made' => order'[i] = order[i]
  BY <1>t, <1>1, <1>2
<1>4. planned.signal = s /\ planned.qty = q /\ planned.status = "PLANNED" /\ planned.exec = 0
  BY DEF planned
<1>5. \A i \in 1..made : i \in Gen /\ i # made'
  BY <1>1, RowsAreGen DEF IInv
<1>6. /\ order[made'].signal = None /\ market[made'].net = "none" /\ market[made'].exec = 0
  BY <1>1 DEF IInv, Budgets, RowsFit, RowFits
<1>7. ASSUME NEW r PROVE Executed(r)' = Executed(r)
  <2>1. ASSUME NEW i \in Gen PROVE Shares(r)[i] = Shares(r)'[i]
    <3>1. CASE i = made'
      BY <3>1, <1>6, <2>1 DEF Shares
    <3>2. CASE i # made'
      BY <3>2, <1>3, <2>1 DEF Shares
    <3> QED BY <3>1, <3>2
  <2> QED BY <2>1, ExecutedStays
<1>8. 1..made' = 1..made \cup {made'}
  BY <1>1, <1>t
<1>9. ASSUME NEW r, r # s PROVE exitRows(r)' = exitRows(r)
  BY <1>9, <1>3, <1>4, <1>5, <1>8 DEF exitRows
<1>10. exitRows(s)' = exitRows(s) \cup {made'}
  BY <1>3, <1>4, <1>5, <1>8 DEF exitRows
<1>11. RowsFit' <=> q >= 0
  <2>1. ASSUME NEW i \in Gen, i # made' PROVE RowFits(i)'
    <3>1. RowFits(i)
      BY DEF IInv, Budgets, RowsFit
    <3>2. order'[i] = order[i] /\ (i > made' => i > made)
      BY <1>1, <1>3, <1>t, <2>1 DEF Gen
    <3> QED BY <3>1, <3>2 DEF RowFits, Done
  <2>2. ASSUME NEW i \in Gen, i = made' PROVE RowFits(i)' <=> q >= 0
    <3>1. ~ i > made' /\ market'[i] = market[i]
      BY <1>1, <2>2, OrdersNat DEF Gen
    <3>2. /\ order'[i].status = "PLANNED" /\ order'[i].qty = q /\ order'[i].exec = 0
          /\ market[i].net = "none" /\ market[i].exec = 0
      BY <1>3, <1>4, <1>6, <2>2
    <3>3. ~ orderTerminal("PLANNED")
      BY DEF orderTerminal, Ended, Voided
    <3> QED BY <3>1, <3>2, <3>3 DEF RowFits, Done
  <2> QED BY <2>1, <2>2, <1>1 DEF RowsFit
<1> QED BY <1>1, <1>3, <1>4, <1>5, <1>6, <1>7, <1>9, <1>10, <1>11

(* Every step keeps what the exits may still execute within what was asked *)
(* for.                                                                    *)
LEMMA BudgetStep == IInv /\ [Next]_vars => Budgets'
<1> SUFFICES ASSUME IInv, [Next]_vars PROVE Budgets'
  OBVIOUS
<1>b. Budgets /\ RowsFit
  BY DEF IInv, Budgets
<1>t. /\ order \in [Gen -> OrderType] /\ market \in [Gen -> MarketType] /\ made \in 0..MaxOrders
      /\ intent \in IntentType
  BY TypeFacts DEF IInv, Typed
<1>r. \A i \in Gen : RowFits(i)
  BY <1>b DEF RowsFit
<1>c. hand.at \in {"submit", "settle", "decide"} =>
          Pending /\ intent.row = made /\ made \in 1..made /\ made \in Gen
  BY CurrentFacts DEF IInv, HandlerFits
<1>m. \A i \in 1..made : MayExecute(i) => i = intent.row /\ ~ Done(i)
  BY DEF IInv, ExitAccounted, OverIsOver
<1>p. pos \in 0..MaxPos /\ MaxPos \in Nat
  BY BoundFacts, TypeFacts DEF IInv, Typed
<1>1. ASSUME NEW s \in Signals, RequestClose(s) PROVE Budgets'
  BY <1>1, <1>b, StillBudget DEF RequestClose, Ledger, Venue
<1>2. CASE reconcileOnce
  BY <1>2, <1>b, StillBudget DEF reconcileOnce, Ledger, Venue
<1>3. ASSUME NEW s \in Signals, recoverPendingActions(s) PROVE Budgets'
  BY <1>3, <1>b, StillBudget DEF recoverPendingActions, Ledger, Venue
<1>4. CASE PassSettlesExit
  BY <1>4, <1>b, StillBudget DEF PassSettlesExit, Ledger, Venue
<1>5. CASE PassEnds
  BY <1>5, <1>b, StillBudget DEF PassEnds, Ledger, Venue
<1>6. CASE reconcileOpenTrade
  BY <1>6, <1>b, StillBudget DEF reconcileOpenTrade, Ledger, Venue
<1>7. CASE EnterRefused
  BY <1>7, <1>b, StillBudget DEF EnterRefused, Ledger, Venue
<1>8. CASE EnterCreates
  <2>1. PICK s \in Signals : s = hand.by
    BY <1>8 DEF EnterCreates, IInv, HandlerFits
  <2>2. PICK q, full : q \in Int /\ q = CloseSize(s) /\ q > 0 /\ full = (s \in FullClose)
    BY <1>8, <2>1, SizeFacts, BoundFacts DEF EnterCreates, IInv
  <2>3. CreateExitOrder(s, q, full, 0) /\ UNCHANGED market
    BY <1>8, <2>1, <2>2 DEF EnterCreates, Venue
  <2>4. /\ RowsFit' /\ \A r : Executed(r)' = Executed(r)
        /\ \A r : r # s => exitRows(r)' = exitRows(r)
        /\ exitRows(s)' = exitRows(s) \cup {made'}
        /\ \A i \in 1..made : order'[i] = order[i]
        /\ order'[made'].qty = q /\ order'[made'].signal = s
        /\ market[made'].exec = 0 /\ made' = made + 1 /\ made' \in Gen
    BY <2>2, <2>3, CreateKeepsOthers
  <2>5. FullFits'
    <3>1. intent'.row = made' /\ intent'.full = (s \in FullClose)
      BY <2>2, <2>3, <2>4 DEF CreateExitOrder
    <3> QED BY <3>1, <2>4 DEF FullFits, Current
  <2>6. ASSUME NEW r \in Signals \ FullClose, r # s PROVE Budget(r)'
    <3>1. Budget(r) /\ \A i \in exitRows(r) : i \in 1..made
      BY <1>b, <2>6 DEF Budgets, exitRows
    <3> QED BY <2>6, <2>3, <2>4, <3>1, OthersBudget
  <2>7. ASSUME s \in Signals \ FullClose PROVE Budget(s)'
    <3>1. \A i \in exitRows(s) : Done(i) /\ order[i].exec = 0 /\ i \in Gen
      <4>1. \A i \in exitRows(s) : Done(i) /\ i \in Gen
        BY <1>8, <2>1, RowsAreGen DEF EnterCreates, exitRows, IInv
      <4>2. \A i \in exitRows(s) : ~ order[i].exec > 0
        BY <1>8, <2>1, <2>7 DEF EnterCreates, ExecutedPartial
      <4>3. \A i \in exitRows(s) : order[i].exec \in Nat
        BY <4>1, <1>t, BoundFacts DEF OrderType
      <4> QED BY <4>1, <4>2, <4>3
    <3>2. \A i \in exitRows(s) : market[i].exec = 0
      BY <3>1, <1>r DEF RowFits
    <3>3. Executed(s) = 0
      <4>1. ASSUME NEW i \in Gen PROVE Shares(s)[i] = 0
        <5>1. CASE i \in exitRows(s)
          BY <5>1, <3>2, <4>1 DEF Shares
        <5>2. CASE i \notin exitRows(s)
          <6>1. order[i].signal # s
            BY <5>2, <4>1, <1>t, <1>r, ExitAssumption DEF exitRows, Gen, RowFits
          <6> QED BY <6>1, <4>1 DEF Shares
        <5> QED BY <5>1, <5>2
      <4>2. Shares(s) \in [Gen -> Int]
        BY SharesInt DEF IInv
      <4> QED BY <4>1, <4>2, TotalZero DEF Shares, Executed
    <3>4. made' \in exitRows(s)' /\ \A k \in exitRows(s)' : k <= made'
      BY <2>4, <1>t DEF exitRows
    <3>5. Executed(s)' + (order'[made'].qty - market'[made'].exec) <= order'[made'].qty
      BY <2>2, <2>3, <2>4, <3>3
    <3> QED BY <3>4, <3>5 DEF Budget
  <2> QED BY <2>4, <2>5, <2>6, <2>7 DEF Budgets
<1>9. CASE SubmitAccepted
  <2>1. intent.row = made /\ made \in 1..made /\ made \in Gen /\ order[made].status = "PLANNED"
    BY <1>9, <1>c DEF SubmitAccepted, IInv, HandlerFits, Current, Done
  <2>2. order[made].exec = 0 /\ market[made].exec = 0
    BY <2>1, <1>r DEF RowFits
  <2>3. PICK m : m = made
    OBVIOUS
  <2>4. /\ order'[m] = [order[m] EXCEPT !.status = "NEW"]
        /\ market'[m] = [market[m] EXCEPT !.net = "live"]
        /\ \A i \in Gen : i # m => order'[i] = order[i] /\ market'[i] = market[i]
        /\ made' = made /\ intent' = intent
    BY <1>9, <2>1, <2>3, <1>t DEF SubmitAccepted
  <2>5. /\ order'[m].signal = order[m].signal /\ order'[m].qty = order[m].qty
        /\ order'[m].status = "NEW" /\ market'[m].exec = market[m].exec
        /\ market'[m].net = "live"
    BY <2>1, <2>3, <2>4, <1>t DEF OrderType, MarketType
  <2>6. /\ order'[m].status # "PLANNED" /\ ~ orderTerminal(order'[m].status)
        /\ order'[m].exec <= market'[m].exec
    BY <1>r, <2>1, <2>3, <2>4, <2>5, <1>t DEF orderTerminal, Ended, Voided, RowFits, OrderType,
       MarketType
  <2>7. /\ \A i \in Gen : i # m => order'[i] = order[i] /\ market'[i] = market[i]
        /\ made' = made /\ intent' = intent /\ m \in 1..made
    BY <2>1, <2>3, <2>4
  <2> QED BY <2>5, <2>6, <2>7, RowMoves
<1>10. CASE SubmitFailed
  <2>1. intent.row = made /\ made \in 1..made /\ made \in Gen /\ order[made].status = "PLANNED"
    BY <1>10, <1>c DEF SubmitFailed, IInv, HandlerFits, Current, Done
  <2>2. order[made].exec = 0 /\ market[made].exec = 0
    BY <2>1, <1>r DEF RowFits
  <2>3. PICK m, st, n :
            /\ m = made /\ st \in {"REJECTED", "UNKNOWN"} /\ n \in {"flight", "lost"}
            /\ order' = [order EXCEPT ![m] = [order[m] EXCEPT !.status = st]]
            /\ market' = [market EXCEPT ![m] = [market[m] EXCEPT !.net = n]]
    BY <1>10, <2>1, <1>t DEF SubmitFailed
  <2>4. /\ order'[m] = [order[m] EXCEPT !.status = st]
        /\ market'[m] = [market[m] EXCEPT !.net = n]
        /\ \A i \in Gen : i # m => order'[i] = order[i] /\ market'[i] = market[i]
    BY <2>1, <2>3, <1>t
  <2>5. /\ order'[m].signal = order[m].signal /\ order'[m].qty = order[m].qty
        /\ order'[m].exec = 0 /\ order'[m].status = st
        /\ market'[m].exec = market[m].exec /\ market'[m].exec = 0
        /\ order'[m].exec <= market'[m].exec
    BY <2>1, <2>2, <2>3, <2>4, <1>t DEF OrderType, MarketType
  <2>6. made' = made /\ intent' = intent /\ st # "PLANNED"
    BY <1>10, <2>3 DEF SubmitFailed
  <2> QED BY <2>1, <2>3, <2>4, <2>5, <2>6, RowMoves
<1>11. CASE SettleSubmits
  BY <1>11, <1>b, StillBudget DEF SettleSubmits, Ledger, Venue
<1>12. CASE SettleSkips
  BY <1>12, <1>b, StillBudget DEF SettleSkips, Ledger, Venue
<1>13. CASE SettleQueries
  <2>1. /\ intent.row = made /\ made \in 1..made /\ made \in Gen
        /\ order[made].status # "PLANNED" /\ ~ Done(made)
    BY <1>13, <1>c DEF SettleQueries, IInv, HandlerFits, Current, Done
  <2>2. PICK m, st, e :
            /\ m = made /\ st # "PLANNED"
            /\ order' = [order EXCEPT ![m] = [order[m] EXCEPT !.exec = e, !.status = st]]
            /\ market[m].net \in {"live", "over"} \/ (market[m].exec = 0 /\ e = 0)
            /\ e = market[m].exec
    <3> DEFINE found == [order EXCEPT ![intent.row].exec = market[intent.row].exec,
                                      ![intent.row].status =
                             IF market[intent.row].net = "live"
                             THEN WorkingStatus(market[intent.row].exec)
                             ELSE IF market[intent.row].exec = Current.qty
                                  THEN "FILLED" ELSE "EXPIRED"]
    <3>1. CASE market[intent.row].net \in {"live", "over"} /\ order' = found
      <4> DEFINE answer == IF market[made].net = "live" THEN WorkingStatus(market[made].exec)
                           ELSE IF market[made].exec = Current.qty THEN "FILLED" ELSE "EXPIRED"
      <4>1. order' = [order EXCEPT ![made] =
                          [order[made] EXCEPT !.exec = market[made].exec, !.status = answer]]
        BY <3>1, <2>1, <1>t 
      <4>2. answer # "PLANNED"
        BY DEF WorkingStatus
      <4> HIDE DEF answer
      <4> QED BY <4>1, <4>2, <3>1, <2>1
    <3>2. CASE market[intent.row].net = "lost"
               /\ order' = [order EXCEPT ![intent.row].status = "ABANDONED"]
      <4>1. order[made].exec = 0 /\ market[made].exec = 0
        BY <3>2, <2>1, <1>r DEF RowFits
      <4>2. [order[made] EXCEPT !.status = "ABANDONED"]
              = [order[made] EXCEPT !.exec = 0, !.status = "ABANDONED"]
        BY <4>1, <2>1, <1>t DEF OrderType
      <4>3. order' = [order EXCEPT ![made] = [order[made] EXCEPT !.exec = 0, !.status = "ABANDONED"]]
        BY <3>2, <2>1, <1>t, <4>2
      <4> QED BY <4>1, <4>3, "ABANDONED" # "PLANNED"
    <3> QED BY <1>13, <3>1, <3>2 DEF SettleQueries
  <2>3. /\ order'[m] = [order[m] EXCEPT !.exec = e, !.status = st]
        /\ \A i \in Gen : i # m => order'[i] = order[i]
        /\ made' = made /\ intent' = intent /\ market' = market
    BY <1>13, <2>1, <2>2, <1>t DEF SettleQueries, Venue
  <2>4. /\ order'[m].signal = order[m].signal /\ order'[m].qty = order[m].qty
        /\ order'[m].exec = e /\ order'[m].status = st
    BY <2>1, <2>2, <2>3, <1>t DEF OrderType
  <2>5. order'[m].exec = market'[m].exec /\ market[m].exec <= market[m].exec
    BY <2>1, <2>2, <2>3, <2>4, <1>t DEF MarketType
  <2> QED BY <2>1, <2>2, <2>3, <2>4, <2>5, RowMoves
<1>14. CASE StepFails
  BY <1>14, <1>b, StillBudget DEF StepFails, Ledger, Venue
<1>15. CASE DecideWaits
  BY <1>15, <1>b, StillBudget DEF DecideWaits, Ledger, Venue
<1>16. CASE DecideCloses
  BY <1>16, <1>b, StillBudget DEF DecideCloses, Ledger, Venue, NoIntent
<1>17. CASE DecideReduced
  BY <1>17, <1>b, StillBudget DEF DecideReduced, Ledger, Venue, NoIntent
<1>18. CASE DecideResidual
  <2>1. intent'.row = intent.row /\ intent'.full = intent.full
    BY <1>18, <1>t DEF DecideResidual, IntentType
  <2> QED BY <1>18, <2>1, <1>b, StillBudget DEF DecideResidual, Ledger, Venue
<1>19. CASE DecideHolds
  BY <1>19, <1>b, StillBudget DEF DecideHolds, Ledger, Venue
<1>20. CASE Resubmit
  <2>1. Pending /\ intent.row = made /\ made \in 1..made /\ made \in Gen
    BY <1>20, <1>c DEF Resubmit
  <2>2. PICK s, q, full, attempts :
            /\ q \in Int /\ s = Current.signal /\ q = RemainingSize /\ full = intent.full
            /\ attempts = intent.attempts + 1 /\ q > 0
    BY <1>20, <2>1, SizeFacts, BoundFacts DEF Resubmit, IInv
  <2>3. CreateExitOrder(s, q, full, attempts) /\ UNCHANGED market
    BY <1>20, <2>2 DEF Resubmit, Venue
  <2>4. /\ RowsFit' /\ \A r : Executed(r)' = Executed(r)
        /\ \A r : r # s => exitRows(r)' = exitRows(r)
        /\ exitRows(s)' = exitRows(s) \cup {made'}
        /\ \A i \in 1..made : order'[i] = order[i]
        /\ order'[made'].qty = q /\ order'[made'].signal = s
        /\ market[made'].exec = 0 /\ made' = made + 1 /\ made' \in Gen
    BY <2>2, <2>3, CreateKeepsOthers
  <2>5. FullFits'
    <3>1. intent'.row = made' /\ intent'.full = intent.full
      BY <2>2, <2>3, <2>4 DEF CreateExitOrder
    <3>2. intent.full <=> s \in FullClose
      BY <2>1, <2>2, <1>b DEF Budgets, FullFits
    <3> QED BY <3>1, <3>2, <2>4 DEF FullFits, Current
  <2>6. ASSUME NEW r \in Signals \ FullClose, r # s PROVE Budget(r)'
    <3>1. Budget(r) /\ \A i \in exitRows(r) : i \in 1..made
      BY <1>b, <2>6 DEF Budgets, exitRows
    <3> QED BY <2>6, <2>3, <2>4, <3>1, OthersBudget
  <2>7. ASSUME s \in Signals \ FullClose PROVE Budget(s)'
    <3>1. Done(made) /\ order[made].exec = market[made].exec
      BY <1>20, <2>1, <1>r DEF Resubmit, ExitEnded, RowFits
    <3>2. ~ intent.full
      BY <2>1, <2>2, <2>7, <1>b DEF Budgets, FullFits
    <3>3. /\ order[made].qty \in Nat /\ order[made].exec \in Nat /\ shown \in Nat
          /\ market[made].exec \in Nat
      BY <2>1, <1>t, BoundFacts, TypeFacts DEF OrderType, MarketType, IInv, Typed
    <3>4. q <= order[made].qty - market[made].exec
      BY <2>1, <2>2, <3>1, <3>2, <3>3 DEF RemainingSize, FloorQuantity, Current
    <3>5. made \in exitRows(s)
      BY <2>1, <2>2 DEF exitRows, Current
    <3>6. PICK l \in exitRows(s), b \in exitRows(s) :
              /\ \A k \in exitRows(s) : k <= l
              /\ Executed(s) + (order[l].qty - market[l].exec) <= order[b].qty
      BY <1>b, <2>7, <3>5 DEF Budgets, Budget
    <3>7. l = made
      BY <3>5, <3>6, <1>t DEF exitRows
    <3>8. made' \in exitRows(s)' /\ \A k \in exitRows(s)' : k <= made'
      BY <2>4, <1>t DEF exitRows
    <3>9. b \in exitRows(s)' /\ order'[b].qty = order[b].qty /\ order[b].qty \in Int
      BY <2>4, <1>t, RowsAreGen, QuantitiesInt DEF exitRows, IInv
    <3>10. Executed(s)' + (order'[made'].qty - market'[made'].exec) <= order'[b].qty
      <4>1. Executed(s) \in Int
        BY ExecutedInt DEF IInv
      <4>2. Executed(s)' = Executed(s) /\ market'[made'].exec = 0
        BY <2>3, <2>4
      <4> QED BY <4>1, <4>2, <2>2, <2>4, <3>3, <3>4, <3>6, <3>7, <3>9
    <3> QED BY <3>8, <3>9, <3>10 DEF Budget
  <2> QED BY <2>4, <2>5, <2>6, <2>7 DEF Budgets
<1>21. CASE Abandon
  BY <1>21, <1>b, StillBudget DEF Abandon, Ledger, Venue, NoIntent
<1>22. CASE MarkAbandoned
  BY <1>22, <1>b, StillBudget DEF MarkAbandoned, Ledger, Venue
<1>23. CASE AbandonReturns
  BY <1>23, <1>b, StillBudget DEF AbandonReturns, Ledger, Venue
<1>24. CASE SupersedeWaits
  BY <1>24, <1>b, StillBudget DEF SupersedeWaits, Ledger, Venue
<1>25. CASE supersedePartialExit
  BY <1>25, <1>b, StillBudget DEF supersedePartialExit, Ledger, Venue, NoIntent
<1>26. CASE SupersedeSettled
  BY <1>26, <1>b, StillBudget DEF SupersedeSettled, Ledger, Venue
<1>27. CASE Crash
  BY <1>27, <1>b, StillBudget DEF Crash, Ledger, Venue
<1>28. ASSUME NEW i \in Gen, OrderArrives(i) PROVE Budgets'
  <2>1. i \in 1..made /\ order[i].status # "PLANNED" /\ ~ Done(i)
    BY <1>28, <1>t, <1>r, <1>m DEF OrderArrives, Gen, RowFits, MayExecute
  <2>2. /\ market'[i] = [market[i] EXCEPT !.net = "live"]
        /\ \A j \in Gen : j # i => market'[j] = market[j]
        /\ order' = order /\ made' = made /\ intent' = intent
    BY <1>28, <1>t DEF OrderArrives, Ledger
  <2>3. market'[i].exec = market[i].exec /\ market'[i].net = "live"
    BY <2>2, <1>t DEF MarketType
  <2>4. order'[i].exec <= market'[i].exec
    BY <2>2, <2>3, <1>r DEF RowFits
  <2> QED BY <2>1, <2>2, <2>3, <2>4, RowMoves DEF Done
<1>29. ASSUME NEW i \in Gen, OrderFills(i) PROVE Budgets'
  <2>1. i \in 1..made /\ order[i].status # "PLANNED" /\ ~ Done(i)
    BY <1>29, <1>t, <1>r, <1>m DEF OrderFills, Gen, RowFits, MayExecute
  <2>2. intent.row = i /\ i = made
    BY <1>29, <2>1, <1>c, <1>m DEF OrderFills, MayExecute, IInv, IntentIsLatest, Gen
  <2>3. PICK k, sub :
            /\ k \in 1..pos /\ market[i].exec + k <= order[i].qty
            /\ market' = [market EXCEPT ![i] = sub]
            /\ sub.net \in {"live", "over"} /\ sub.exec = market[i].exec + k
    <3>1. PICK k \in 1..pos :
              /\ market[i].exec + k <= order[i].qty
              /\ market' = [market EXCEPT ![i] =
                    [net  |-> IF market[i].exec + k = order[i].qty THEN "over" ELSE "live",
                     exec |-> market[i].exec + k]]
      BY <1>29 DEF OrderFills
    <3> DEFINE filled == [net  |-> IF market[i].exec + k = order[i].qty THEN "over" ELSE "live",
                           exec |-> market[i].exec + k]
    <3>2. filled.net \in {"live", "over"} /\ filled.exec = market[i].exec + k
      OBVIOUS
    <3>3. market' = [market EXCEPT ![i] = filled]
      BY <3>1
    <3> HIDE DEF filled
    <3> QED BY <3>1, <3>2, <3>3
  <2>4. /\ UNCHANGED <<order, made, intent>>
        /\ market'[i] = sub /\ \A j \in Gen : j # i => market'[j] = market[j]
    BY <1>29, <2>3, <1>t DEF OrderFills, Ledger
  <2>5. RowsFit'
    <3>1. ASSUME NEW j \in Gen, j # i PROVE RowFits(j)'
      BY <1>r, <2>4, <3>1 DEF RowFits, Done
    <3>2. order[i].exec \in Int /\ market[i].exec \in Int /\ order[i].exec <= market[i].exec
          /\ k \in Int /\ k > 0
      BY <1>t, <1>r, <1>p, <2>3, BoundFacts DEF RowFits, OrderType, MarketType
    <3>3. order'[i].exec <= market'[i].exec
      BY <2>3, <2>4, <3>2
    <3>4. RowFits(i)'
      BY <1>t, <2>1, <2>3, <2>4, <3>3 DEF RowFits, Done
    <3> QED BY <3>1, <3>4 DEF RowsFit
  <2>6. FullFits'
    BY <1>b, <2>4 DEF Budgets, FullFits, Pending, Current
  <2>7. ASSUME NEW s \in Signals \ FullClose, order[i].signal # s PROVE Budget(s)'
    <3>1. Executed(s)' = Executed(s)
      BY <2>4, <2>7, ExecutedStays DEF Shares
    <3>2. exitRows(s)' = exitRows(s) /\ \A j \in exitRows(s) : j \in Gen /\ j # i
      BY <2>4, <2>7, RowsAreGen DEF exitRows, IInv
    <3> QED BY <1>b, <2>4, <3>1, <3>2, OthersBudget DEF Budgets
  <2>8. ASSUME NEW s \in Signals \ FullClose, order[i].signal = s PROVE Budget(s)'
    <3>1. i \in exitRows(s) /\ exitRows(s)' = exitRows(s)
      BY <2>1, <2>4, <2>8 DEF exitRows
    <3>2. PICK l \in exitRows(s), b \in exitRows(s) :
              /\ \A j \in exitRows(s) : j <= l
              /\ Executed(s) + (order[l].qty - market[l].exec) <= order[b].qty
      BY <1>b, <3>1 DEF Budgets, Budget
    <3>3. l = i
      BY <2>2, <3>1, <3>2, <1>t DEF exitRows
    <3>4. /\ order[i].qty \in Int /\ market[i].exec \in Nat /\ k \in Int
          /\ order[b].qty \in Int /\ Executed(s) \in Int
      <4>1. k \in Int
        BY <1>p, <2>3
      <4>2. b \in Gen
        BY <3>2, RowsAreGen DEF exitRows, IInv
      <4> QED BY <4>1, <4>2, QuantitiesInt, ExecutedInt DEF IInv
    <3>5. Executed(s)' = Executed(s) + k
      <4>1. PICK f, g : f = Shares(s) /\ g = Shares(s)'
        OBVIOUS
      <4>2. f \in [Gen -> Int]
        BY <4>1, SharesInt DEF IInv
      <4>3. g[i] = f[i] + k /\ \A j \in Gen : j # i => g[j] = f[j]
        BY <2>3, <2>4, <2>8, <4>1 DEF Shares
      <4>4. g \in [Gen -> Int]
        <5>1. \A j \in Gen : g[j] \in Int
          BY <4>2, <4>3, <3>4
        <5>2. g = [j \in Gen |-> g[j]]
          BY <4>1 DEF Shares
        <5> QED BY <5>1, <5>2
      <4>5. Total(g) = Total(f) - f[i] + g[i]
        BY <4>2, <4>3, <4>4, TotalChanges
      <4>6. Total(f) \in Int /\ f[i] \in Int
        BY <4>2, TotalInt
      <4>7. Total(g) = Total(f) + k
        BY <4>3, <4>5, <4>6, <3>4
      <4> QED BY <4>1, <4>7 DEF Shares, Executed
    <3>6. Executed(s)' + (order'[i].qty - market'[i].exec) <= order'[b].qty
      BY <2>3, <2>4, <3>2, <3>3, <3>4, <3>5
    <3> QED BY <3>1, <3>2, <3>3, <3>6 DEF Budget
  <2> QED BY <2>5, <2>6, <2>7, <2>8 DEF Budgets
<1>30. ASSUME NEW i \in Gen, OrderExpires(i) PROVE Budgets'
  <2>1. i \in 1..made /\ order[i].status # "PLANNED" /\ ~ Done(i)
    BY <1>30, <1>t, <1>r, <1>m DEF OrderExpires, Gen, RowFits, MayExecute
  <2>2. /\ market'[i] = [market[i] EXCEPT !.net = "over"]
        /\ \A j \in Gen : j # i => market'[j] = market[j]
        /\ order' = order /\ made' = made /\ intent' = intent
    BY <1>30, <1>t DEF OrderExpires, Ledger
  <2>3. market'[i].exec = market[i].exec /\ market'[i].net = "over"
    BY <2>2, <1>t DEF MarketType
  <2>4. order'[i].exec <= market'[i].exec
    BY <2>2, <2>3, <1>r DEF RowFits
  <2> QED BY <2>1, <2>2, <2>3, <2>4, RowMoves DEF Done
<1>31. CASE ProtectionFills
  BY <1>31, <1>b, StillBudget DEF ProtectionFills, Ledger, Venue
<1>32. CASE EntryFills
  BY <1>32, <1>b, StillBudget DEF EntryFills, Ledger, Venue
<1>33. CASE ReadCatchesUp
  BY <1>33, <1>b, StillBudget DEF ReadCatchesUp, Ledger, Venue
<1>34. CASE ResidualConfirmTime
  <2>1. intent'.row = intent.row /\ intent'.full = intent.full
    BY <1>34, <1>t DEF ResidualConfirmTime, IntentType
  <2> QED BY <1>34, <2>1, <1>b, StillBudget DEF ResidualConfirmTime, Ledger, Venue
<1>35. CASE OwnerOpens
  BY <1>35, <1>b, StillBudget DEF OwnerOpens, Ledger, Venue
<1>36. CASE UNCHANGED vars
  BY <1>36, <1>b, StillBudget DEF vars
<1> QED BY <1>1, <1>2, <1>3, <1>4, <1>5, <1>6, <1>7, <1>8, <1>9, <1>10, <1>11, <1>12, <1>13,
           <1>14, <1>15, <1>16, <1>17, <1>18, <1>19, <1>20, <1>21, <1>22, <1>23, <1>24, <1>25,
           <1>26, <1>27, <1>28, <1>29, <1>30, <1>31, <1>32, <1>33, <1>34, <1>35, <1>36 DEF Next,
           Handler, Exchange

-----------------------------------------------------------------------------
THEOREM Invariance == Spec => []IInv
<1>1. Init => IInv
  BY InitInv
<1>2. IInv /\ [Next]_vars => IInv'
  <2> SUFFICES ASSUME IInv, [Next]_vars PROVE IInv'
    OBVIOUS
  <2>1. TypeOK'
    BY TypeStep DEF TypeOK, Typed, StateType, HandType, IntentType, OrderType, MarketType,
       ActionType, 
       ActionStatus
  <2>2. Accounting' /\ HandlerFits' /\ ReadsLag' /\ ClosedIsOver' /\ Budgets'
    BY AccountStep, HandlerStep, ReadsStep, ClosedStep, BudgetStep
  <2> QED BY <2>1, <2>2 DEF IInv, Accounting
<1> QED BY <1>1, <1>2, PTL DEF Spec

(* The state of the trade, its exit rows and the handler stay of their     *)
(* types: a resubmission is one of the counted ones and no quantity is     *)
(* larger than the position can be.                                        *)
THEOREM TypeCorrect == Spec => []TypeOK
<1>1. IInv => TypeOK
  BY DEF IInv
<1> QED BY <1>1, Invariance, PTL

(* An exit order that may still execute, or that is not known to be over,  *)
(* is the one the durable intent names, and the trade is CLOSE_PENDING     *)
(* exactly while there is one.                                             *)
THEOREM Accounted == Spec => []ExitAccounted
<1>1. IInv => ExitAccounted
  BY DEF IInv
<1> QED BY <1>1, Invariance, PTL

(* However requests, passes, recoveries and crashes interleave, at most    *)
(* one exit order of the trade can still execute.                          *)
THEOREM OneExit == Spec => []OneExitInMarket
<1>1. IInv => OneExitInMarket
  <2> SUFFICES ASSUME IInv PROVE OneExitInMarket
    OBVIOUS
  <2>1. {i \in 1..made : MayExecute(i)} \subseteq {intent.row}
    BY DEF IInv, ExitAccounted
  <2>2. IsFiniteSet({intent.row}) /\ Cardinality({intent.row}) = 1
    BY FS_Singleton
  <2>3. /\ Cardinality({i \in 1..made : MayExecute(i)}) \in Nat
        /\ Cardinality({i \in 1..made : MayExecute(i)}) <= Cardinality({intent.row})
    BY <2>1, <2>2, FS_Subset, FS_CardinalityType
  <2> QED BY <2>2, <2>3 DEF OneExitInMarket
<1> QED BY <1>1, Invariance, PTL

(* A closed trade is flat and nothing of it can execute any more, neither  *)
(* an exit order nor the rest of its entry.                                *)
THEOREM Closed == Spec => []ClosedIsOver
<1>1. IInv => ClosedIsOver
  BY DEF IInv
<1> QED BY <1>1, Invariance, PTL

(* However often a partial exit is settled, resubmitted, superseded or     *)
(* recovered, its generations together never execute more than the largest *)
(* of them asked for.                                                      *)
THEOREM NotRepeated == Spec => []PartialNotRepeated
<1>1. IInv => PartialNotRepeated
  <2> SUFFICES ASSUME IInv, NEW s \in Signals \ FullClose, exitRows(s) # {}
               PROVE  \E i \in exitRows(s) : Executed(s) <= order[i].qty
    BY DEF PartialNotRepeated
  <2>1. PICK l \in exitRows(s), b \in exitRows(s) :
            Executed(s) + (order[l].qty - market[l].exec) <= order[b].qty
    BY DEF IInv, Budgets, Budget
  <2>2. l \in Gen /\ b \in Gen
    BY RowsAreGen DEF exitRows, IInv
  <2>3. market[l].exec <= order[l].qty
    BY <2>2 DEF IInv, Budgets, RowsFit, RowFits
  <2>4. /\ Executed(s) \in Int /\ order[l].qty \in Int /\ market[l].exec \in Int
        /\ order[b].qty \in Int
    BY <2>2, ExecutedInt, QuantitiesInt DEF IInv
  <2> QED BY <2>1, <2>3, <2>4
<1> QED BY <1>1, Invariance, PTL

-----------------------------------------------------------------------------
(* The exit orders through the order contract: the initial ledger is the   *)
(* contract's initial state.                                               *)
LEMMA ExitContractInit == Init => ExitContract!CInit
<1> SUFFICES ASSUME Init PROVE ExitContract!CInit
  OBVIOUS
<1>1. \A i \in Gen : exitPhase(i) = "intended" /\ order[i].exec = 0 /\ market[i].exec = 0
  BY DEF Init, NoOrder, exitPhase, Voided
<1> QED BY <1>1 DEF ExitContract!CInit

(* A row as the contract sees it stays as it was.                          *)
Unmoved(i) ==
    /\ exitPhase(i)' = exitPhase(i)
    /\ order'[i].exec = order[i].exec /\ market'[i].exec = market[i].exec

LEMMA NoRowMoves ==
    ASSUME \A i \in Gen : Unmoved(i)
    PROVE  UNCHANGED ExitContract!cvars
BY DEF Unmoved, ExitContract!cvars

LEMMA LedgerKept ==
    ASSUME UNCHANGED <<order, market>>
    PROVE  UNCHANGED ExitContract!cvars
BY NoRowMoves DEF Unmoved, exitPhase

(* The four ways a row may move through the contract.                      *)
LEMMA ExitMoves ==
    ASSUME NEW m \in Gen, \A i \in Gen : i # m => Unmoved(i),
           \/ /\ exitPhase(m) = "intended" /\ exitPhase(m)' = "committed"
              /\ market'[m].exec = market[m].exec /\ order'[m].exec = order[m].exec
           \/ /\ exitPhase(m) \in {"intended", "committed"} /\ exitPhase(m)' = "void"
              /\ market[m].exec = 0
              /\ market'[m].exec = market[m].exec /\ order'[m].exec = order[m].exec
           \/ /\ exitPhase(m) = "committed" /\ exitPhase(m)' = "committed"
              /\ market'[m].exec \in (market[m].exec + 1)..MaxPos
              /\ order'[m].exec = order[m].exec
           \/ /\ exitPhase(m) = "committed" /\ exitPhase(m)' = "committed"
              /\ market'[m].exec = market[m].exec
              /\ order'[m].exec \in (order[m].exec + 1)..market[m].exec
    PROVE  ExitContract!CNext
<1> DEFINE ph == [i \in Gen |-> exitPhase(i)]
           ex == [i \in Gen |-> market[i].exec]
           re == [i \in Gen |-> order[i].exec]
<1>1. /\ ph' = [ph EXCEPT ![m] = exitPhase(m)']
      /\ ex' = [ex EXCEPT ![m] = market'[m].exec]
      /\ re' = [re EXCEPT ![m] = order'[m].exec]
  BY DEF Unmoved
<1>2. ph[m] = exitPhase(m) /\ ex[m] = market[m].exec /\ re[m] = order[m].exec
  OBVIOUS
<1>3. /\ exitPhase(m)' = exitPhase(m) => ph' = ph
      /\ market'[m].exec = market[m].exec => ex' = ex
      /\ order'[m].exec = order[m].exec => re' = re
  BY <1>1
<1>4. CASE exitPhase(m) = "intended" /\ exitPhase(m)' = "committed"
           /\ market'[m].exec = market[m].exec /\ order'[m].exec = order[m].exec
  <2>1. ExitContract!Commit(m)
    BY <1>1, <1>2, <1>3, <1>4 DEF ExitContract!Commit
  <2> QED BY <2>1 DEF ExitContract!CNext
<1>5. CASE exitPhase(m) \in {"intended", "committed"} /\ exitPhase(m)' = "void"
           /\ market[m].exec = 0
           /\ market'[m].exec = market[m].exec /\ order'[m].exec = order[m].exec
  <2>1. ExitContract!Void(m)
    BY <1>1, <1>2, <1>3, <1>5 DEF ExitContract!Void
  <2> QED BY <2>1 DEF ExitContract!CNext
<1>6. CASE exitPhase(m) = "committed" /\ exitPhase(m)' = "committed"
           /\ market'[m].exec \in (market[m].exec + 1)..MaxPos
           /\ order'[m].exec = order[m].exec
  <2>1. ExitContract!Execute(m)
    BY <1>1, <1>2, <1>3, <1>6 DEF ExitContract!Execute
  <2> QED BY <2>1 DEF ExitContract!CNext
<1>7. CASE exitPhase(m) = "committed" /\ exitPhase(m)' = "committed"
           /\ market'[m].exec = market[m].exec
           /\ order'[m].exec \in (order[m].exec + 1)..market[m].exec
  <2>1. ExitContract!Report(m)
    BY <1>1, <1>2, <1>3, <1>7 DEF ExitContract!Report
  <2> QED BY <2>1 DEF ExitContract!CNext
<1> QED BY <1>4, <1>5, <1>6, <1>7

(* A new row is an intent nobody has acted on, as the slot it takes was.   *)
LEMMA CreationUnseen ==
    ASSUME IInv, NEW s, NEW q, NEW full, NEW attempts, CreateExitOrder(s, q, full, attempts),
           UNCHANGED market
    PROVE  UNCHANGED ExitContract!cvars
<1>1. \A i \in 1..made : order'[i] = order[i]
  BY CreateKeepsOthers
<1>2. made' = made + 1 /\ made' \in Gen /\ made \in 0..MaxOrders
  BY CreateKeepsOthers, TypeFacts DEF IInv, Typed
<1>3. order \in [Gen -> OrderType] /\ RowsFit
  BY TypeFacts DEF IInv, Typed, Budgets
<1> DEFINE planned == [signal |-> s, qty |-> q, status |-> "PLANNED", exec |-> 0]
<1>4. order' = [order EXCEPT ![made'] = planned]
  BY <1>2 DEF CreateExitOrder
<1>5. planned.status = "PLANNED" /\ planned.exec = 0
  OBVIOUS
<1> HIDE DEF planned
<1>6. ASSUME NEW i \in Gen, i # made' PROVE Unmoved(i)
  <2>1. order'[i] = order[i]
    BY <1>3, <1>4, <1>6
  <2> QED BY <2>1 DEF Unmoved, exitPhase
<1>7. ASSUME NEW i \in Gen, i = made' PROVE Unmoved(i)
  <2>1. order[i].status = "PLANNED" /\ order[i].exec = 0
    BY <1>2, <1>3, <1>7 DEF RowsFit, RowFits
  <2>2. order'[i].status = "PLANNED" /\ order'[i].exec = 0
    BY <1>2, <1>3, <1>4, <1>5, <1>7
  <2> QED BY <2>1, <2>2 DEF Unmoved, exitPhase
<1> QED BY <1>6, <1>7, NoRowMoves

(* Every step of the exit is a step of the contract or none.               *)
LEMMA ExitContractNext == IInv /\ [Next]_vars => [ExitContract!CNext]_(ExitContract!cvars)
<1> SUFFICES ASSUME IInv, [Next]_vars PROVE [ExitContract!CNext]_(ExitContract!cvars)
  OBVIOUS
<1>t. /\ order \in [Gen -> OrderType] /\ market \in [Gen -> MarketType] /\ made \in 0..MaxOrders
      /\ intent \in IntentType
  BY TypeFacts DEF IInv, Typed
<1>r. \A i \in Gen : RowFits(i)
  BY DEF IInv, Budgets, RowsFit
<1>c. hand.at \in {"submit", "settle", "decide"} =>
          Pending /\ intent.row = made /\ made \in 1..made /\ made \in Gen
  BY CurrentFacts DEF IInv, HandlerFits
<1>1. ASSUME UNCHANGED <<order, market>> PROVE [ExitContract!CNext]_(ExitContract!cvars)
  BY <1>1, LedgerKept
<1>2. CASE EnterCreates
  <2>1. UNCHANGED ExitContract!cvars
    BY <1>2, CreationUnseen DEF EnterCreates, Venue
  <2> QED BY <2>1
<1>3. CASE Resubmit
  <2>1. UNCHANGED ExitContract!cvars
    BY <1>3, CreationUnseen DEF Resubmit, Venue
  <2> QED BY <2>1
<1>4. ASSUME NEW m \in Gen, NEW st \in {"NEW", "UNKNOWN", "REJECTED"}, NEW n,
             order[m].status = "PLANNED",
             order' = [order EXCEPT ![m] = [order[m] EXCEPT !.status = st]],
             market' = [market EXCEPT ![m] = [market[m] EXCEPT !.net = n]]
      PROVE  [ExitContract!CNext]_(ExitContract!cvars)
  <2>1. \A i \in Gen : i # m => Unmoved(i)
    BY <1>4, <1>t DEF Unmoved, exitPhase
  <2>2. /\ order'[m].status = st /\ order'[m].exec = order[m].exec
        /\ market'[m].exec = market[m].exec
    BY <1>4, <1>t DEF OrderType, MarketType
  <2>3. market[m].exec = 0
    BY <1>4, <1>r DEF RowFits
  <2>4. exitPhase(m) = "intended" /\ exitPhase(m)' \in {"committed", "void"}
    BY <1>4, <2>2 DEF exitPhase, Voided
  <2> QED BY <2>1, <2>2, <2>3, <2>4, ExitMoves
<1>5. CASE SubmitAccepted
  <2>1. made \in Gen /\ intent.row = made /\ order[made].status = "PLANNED"
    BY <1>5, <1>c DEF SubmitAccepted, IInv, HandlerFits, Current
  <2>2. /\ order' = [order EXCEPT ![made] = [order[made] EXCEPT !.status = "NEW"]]
        /\ market' = [market EXCEPT ![made] = [market[made] EXCEPT !.net = "live"]]
    BY <1>5, <2>1, <1>t DEF SubmitAccepted
  <2> QED BY <1>4, <2>1, <2>2
<1>6. CASE SubmitFailed
  <2>1. made \in Gen /\ intent.row = made /\ order[made].status = "PLANNED"
    BY <1>6, <1>c DEF SubmitFailed, IInv, HandlerFits, Current
  <2>2. PICK st \in {"REJECTED", "UNKNOWN"}, n \in {"flight", "lost"} :
            /\ order' = [order EXCEPT ![made] = [order[made] EXCEPT !.status = st]]
            /\ market' = [market EXCEPT ![made] = [market[made] EXCEPT !.net = n]]
    BY <1>6, <2>1, <1>t DEF SubmitFailed
  <2> QED BY <1>4, <2>1, <2>2
<1>7. CASE SettleQueries
  <2>1. PICK m \in Gen :
            m = made /\ intent.row = m /\ order[m].status # "PLANNED" /\ ~ Done(m)
    BY <1>7, <1>c DEF SettleQueries, Current
  <2>2. exitPhase(m) = "committed"
    BY <2>1 DEF exitPhase, Done, orderTerminal
  <2>3. /\ \A i \in Gen : i # m => order'[i] = order[i]
        /\ market' = market
    BY <1>7, <2>1, <1>t DEF SettleQueries, Venue
  <2>4. \A i \in Gen : i # m => Unmoved(i)
    BY <2>3 DEF Unmoved, exitPhase
  <2>5. /\ order[m].exec \in Nat /\ market[m].exec \in Nat
        /\ order[m].exec <= market[m].exec
    BY <2>1, <1>t, <1>r, BoundFacts DEF RowFits, OrderType, MarketType
  <2>6. CASE market[m].net = "lost"
             /\ order' = [order EXCEPT ![intent.row].status = "ABANDONED"]
    <3>1. order'[m].status = "ABANDONED" /\ order'[m].exec = order[m].exec
      BY <2>1, <2>6, <1>t DEF OrderType
    <3>2. market[m].exec = 0
      BY <2>1, <2>6, <1>r DEF RowFits
    <3>3. exitPhase(m)' = "void"
      BY <3>1 DEF exitPhase, Voided
    <3> QED BY <2>2, <2>3, <2>4, <3>1, <3>2, <3>3, ExitMoves
  <2>7. CASE /\ market[m].net \in {"live", "over"}
             /\ order' = [order EXCEPT ![intent.row].exec = market[intent.row].exec,
                                       ![intent.row].status =
                             IF market[intent.row].net = "live"
                             THEN WorkingStatus(market[intent.row].exec)
                             ELSE IF market[intent.row].exec = Current.qty
                                  THEN "FILLED" ELSE "EXPIRED"]
    <3> DEFINE answer == IF market[m].net = "live" THEN WorkingStatus(market[m].exec)
                         ELSE IF market[m].exec = Current.qty THEN "FILLED" ELSE "EXPIRED"
    <3>1. order' = [order EXCEPT ![m] =
                        [order[m] EXCEPT !.exec = market[m].exec, !.status = answer]]
      BY <2>7, <2>1, <1>t
    <3>2. answer \in Working \cup Ended
      BY DEF WorkingStatus, Working, Ended
    <3> HIDE DEF answer
    <3>3. order'[m].status = answer /\ order'[m].exec = market[m].exec
      BY <3>1, <1>t DEF OrderType
    <3>4. exitPhase(m)' = "committed"
      BY <3>2, <3>3 DEF exitPhase, Voided, Working, Ended
    <3>5. CASE order[m].exec = market[m].exec
      <4>1. Unmoved(m)
        BY <2>2, <2>3, <3>3, <3>4, <3>5 DEF Unmoved
      <4> QED BY <2>4, <4>1, NoRowMoves
    <3>6. CASE order[m].exec # market[m].exec
      <4>1. order'[m].exec \in (order[m].exec + 1)..market[m].exec
        BY <2>5, <3>3, <3>6
      <4> QED BY <2>2, <2>3, <2>4, <3>4, <4>1, ExitMoves
    <3> QED BY <3>5, <3>6
  <2> QED BY <1>7, <2>1, <2>6, <2>7 DEF SettleQueries
<1>8. ASSUME NEW i \in Gen, OrderArrives(i) \/ OrderExpires(i)
      PROVE  [ExitContract!CNext]_(ExitContract!cvars)
  <2>1. order' = order /\ \A j \in Gen : market'[j].exec = market[j].exec
    BY <1>8, <1>t DEF OrderArrives, OrderExpires, Ledger, MarketType
  <2> QED BY <2>1, NoRowMoves DEF Unmoved, exitPhase
<1>9. ASSUME NEW i \in Gen, OrderFills(i) PROVE [ExitContract!CNext]_(ExitContract!cvars)
  <2>1. market[i].net = "live" /\ order' = order
    BY <1>9 DEF OrderFills, Ledger
  <2>2. order[i].status # "PLANNED" /\ i \in 1..made
    BY <2>1, <1>r, <1>t DEF RowFits, Gen
  <2>3. ~ Done(i)
    BY <2>1, <2>2 DEF IInv, OverIsOver, MayExecute
  <2>4. exitPhase(i) = "committed" /\ exitPhase(i)' = "committed"
    BY <2>1, <2>2, <2>3 DEF exitPhase, Done, orderTerminal
  <2>5. pos \in 0..MaxPos /\ MaxPos \in Nat
    BY BoundFacts, TypeFacts DEF IInv, Typed
  <2>6. market[i].exec \in Nat /\ order[i].qty \in 0..MaxPos
    BY <1>t, <2>5 DEF OrderType, MarketType
  <2>7. PICK k \in 1..pos :
            /\ market[i].exec + k <= order[i].qty
            /\ market' = [market EXCEPT ![i] =
                  [net  |-> IF market[i].exec + k = order[i].qty THEN "over" ELSE "live",
                   exec |-> market[i].exec + k]]
    BY <1>9 DEF OrderFills
  <2>8. market'[i].exec = market[i].exec + k /\ \A j \in Gen : j # i => market'[j] = market[j]
    BY <1>t, <2>7
  <2>9. market'[i].exec \in (market[i].exec + 1)..MaxPos
    BY <2>5, <2>6, <2>7, <2>8
  <2>10. \A j \in Gen : j # i => Unmoved(j)
    BY <2>1, <2>8 DEF Unmoved, exitPhase
  <2> QED BY <2>1, <2>4, <2>9, <2>10, ExitMoves
<1>10. ASSUME NEW s \in Signals, RequestClose(s) \/ recoverPendingActions(s)
       PROVE  UNCHANGED <<order, market>>
  BY <1>10 DEF RequestClose, recoverPendingActions, Ledger
<1>11. CASE reconcileOnce \/ PassSettlesExit \/ PassEnds \/ reconcileOpenTrade \/ EnterRefused
            \/ Crash \/ UNCHANGED vars
  <2>1. UNCHANGED <<order, market>>
    BY <1>11 DEF reconcileOnce, PassSettlesExit, PassEnds, reconcileOpenTrade, EnterRefused,
       Crash, vars, Ledger, Venue
  <2> QED BY <2>1, <1>1
<1>12. CASE SettleSubmits \/ SettleSkips \/ StepFails \/ DecideWaits \/ DecideCloses
            \/ DecideReduced \/ DecideResidual \/ DecideHolds
  <2>1. UNCHANGED <<order, market>>
    BY <1>12 DEF SettleSubmits, SettleSkips, StepFails, DecideWaits, DecideCloses,
       DecideReduced, DecideResidual, DecideHolds, Ledger, Venue
  <2> QED BY <2>1, <1>1
<1>13. CASE Abandon \/ MarkAbandoned \/ AbandonReturns \/ SupersedeWaits
            \/ supersedePartialExit \/ SupersedeSettled
  <2>1. UNCHANGED <<order, market>>
    BY <1>13 DEF Abandon, MarkAbandoned, AbandonReturns, SupersedeWaits,
       supersedePartialExit, SupersedeSettled, Ledger, Venue
  <2> QED BY <2>1, <1>1
<1>14. CASE ProtectionFills \/ EntryFills \/ ReadCatchesUp \/ ResidualConfirmTime \/ OwnerOpens
  <2>1. UNCHANGED <<order, market>>
    BY <1>14 DEF ProtectionFills, EntryFills, ReadCatchesUp, ResidualConfirmTime, OwnerOpens,
       Ledger, Venue
  <2> QED BY <2>1, <1>1
<1> QED BY <1>1, <1>2, <1>3, <1>5, <1>6, <1>7, <1>8, <1>9, <1>10, <1>11, <1>12, <1>13, <1>14
        DEF Next, Handler, Exchange

(* The layering of the two modules is sound: what the exit assumes of its  *)
(* orders is nothing but the contract the submission protocol implements   *)
(* (ImplementsContract).  However requests, passes, resubmissions and      *)
(* crashes interleave, no exit order executes before its intent was        *)
(* committed, a refused or abandoned one never does, and the reported      *)
(* fills only grow and are really there.                                   *)
THEOREM ExitKeepsContract == Spec => OrdersKeepContract
BY ExitContractInit, ExitContractNext, Invariance, PTL
   DEF Spec, OrdersKeepContract, ExitContract!CSpec


-----------------------------------------------------------------------------
(* The submission protocol, module ManagedOrder: its inductive invariant,  *)
(* the invariants that follow from it, and the contract of OrderContract.   *)

(* The row-wise part of the inductive invariant.                           *)
RowInv(r) == HandlerInv(r) /\ RequestInv(r) /\ KnowledgeInv(r) /\ VoidInv(r)

(* Every status the ledger or the venue may show is one of the listed      *)
(* ones, and the groups of statuses do not overlap.                        *)
LEMMA StatusFacts ==
    /\ Working \subseteq RowStatus /\ Working \subseteq VenueStatus
    /\ Ended \subseteq RowStatus /\ Ended \subseteq VenueStatus
    /\ VenueStatus \ {"ABSENT"} \subseteq Working \cup Ended
    /\ \A e \in Nat : WorkingStatus(e) \in Working
  BY DEF Working, Ended, RowStatus, VenueStatus, Uncertain, Voided, WorkingStatus

(* What a lookup may answer of an order that exists: a record with a       *)
(* status of the venue, no more fills than there are, and, when it says    *)
(* the order is over, the very record the venue holds.                     *)
LEMMA ViewFacts ==
    ASSUME OrderTypeOK, NEW r \in Rows, RequestInv(r), net[r] = "landed",
           NEW v \in Views(r)
    PROVE  /\ v = [status |-> v.status, exec |-> v.exec]
           /\ v.status \in Working \cup Ended
           /\ v.exec \in 0..Qty /\ v.exec <= venue[r].exec
           /\ v.status \in Ended => v = venue[r]
  <1>1. venue[r] \in [status : VenueStatus, exec : 0..Qty]
    BY DEF OrderTypeOK
  <1>2. CASE v = venue[r]
    BY <1>1, <1>2, StatusFacts, QtyAssumption DEF RequestInv
  <1>3. CASE v \in Lagging(r)
    <2>1. PICK e \in 0..venue[r].exec : v = [status |-> WorkingStatus(e), exec |-> e]
      BY <1>3 DEF Lagging
    <2>2. v.status \in Working /\ v.exec = e
      BY <2>1, <1>1, StatusFacts, QtyAssumption
    <2>3. Working \cap Ended = {}
      BY DEF Working, Ended
    <2> QED
      BY <1>1, <2>1, <2>2, <2>3, QtyAssumption
  <1> QED
    BY <1>2, <1>3 DEF Views

(* Changing the status of one ledger row, or of one venue order, to a      *)
(* status of its kind keeps the table well typed.                          *)
LEMMA StatusWrites ==
    ASSUME OrderTypeOK, NEW r \in Rows, NEW s
    PROVE  /\ s \in RowStatus => [row EXCEPT ![r].status = s] \in
                [Rows -> [status : RowStatus, known : BOOLEAN, exec : 0..Qty]]
           /\ s \in VenueStatus => [venue EXCEPT ![r].status = s] \in
                [Rows -> [status : VenueStatus, exec : 0..Qty]]
  BY DEF OrderTypeOK

(* A step that touches only row r has to be examined at r only.            *)
OthersKept(r) ==
    \A q \in Rows \ {r} :
        /\ row'[q] = row[q] /\ age'[q] = age[q] /\ at'[q] = at[q]
        /\ calls'[q] = calls[q] /\ net'[q] = net[q]
        /\ flown'[q] = flown[q] /\ venue'[q] = venue[q]

LEMMA Frame ==
    ASSUME \A q \in Rows : RowInv(q), NEW r \in Rows,
           OrderTypeOK', RowInv(r)', OthersKept(r)
    PROVE  OrderInv'
  <1>1. ASSUME NEW q \in Rows, q # r PROVE RowInv(q)'
    BY <1>1 DEF OthersKept, RowInv, HandlerInv, RequestInv, KnowledgeInv, VoidInv
  <1> QED
    BY <1>1 DEF OrderInv, RowInv

(* The initial states satisfy the inductive invariant.                     *)
LEMMA OrderInitInv == OrderInit => OrderInv
  BY QtyAssumption, GraceAssumption
     DEF OrderInit, OrderInv, OrderTypeOK, HandlerInv, RequestInv, KnowledgeInv, VoidInv,
         newManagedOrder, RowStatus, VenueStatus, Uncertain, Voided, Working, Ended

(* Recording a venue answer keeps the row true.                            *)
LEMMA RecordFacts ==
    ASSUME OrderTypeOK, NEW r \in Rows, RowInv(r), net[r] = "landed", NEW v \in Views(r)
    PROVE  LET w == recordManagedResult(r, v) IN
           /\ w \in [status : RowStatus, known : BOOLEAN, exec : 0..Qty]
           /\ w.exec >= row[r].exec /\ w.exec <= venue[r].exec
           /\ w = row[r] \/ (w.known /\ w.status \in Working \cup Ended)
           /\ w.status \in Ended => venue[r].status = w.status /\ venue[r].exec = w.exec
  <1>1. row[r] \in [status : RowStatus, known : BOOLEAN, exec : 0..Qty]
    BY DEF OrderTypeOK
  <1>2. venue[r] \in [status : VenueStatus, exec : 0..Qty]
    BY DEF OrderTypeOK
  <1>3. /\ v = [status |-> v.status, exec |-> v.exec]
        /\ v.status \in Working \cup Ended
        /\ v.exec \in 0..Qty /\ v.exec <= venue[r].exec
        /\ v.status \in Ended => v = venue[r]
    BY ViewFacts DEF RowInv
  <1>4. CASE v.exec < row[r].exec
    BY <1>1, <1>2, <1>4, QtyAssumption DEF recordManagedResult, RowInv, KnowledgeInv
  <1>5. CASE ~ (v.exec < row[r].exec)
    <2>1. recordManagedResult(r, v) = [status |-> v.status, known |-> TRUE, exec |-> v.exec]
      BY <1>5 DEF recordManagedResult
    <2> QED
      BY <2>1, <1>1, <1>2, <1>3, <1>5, StatusFacts, QtyAssumption
  <1> QED
    BY <1>4, <1>5

(* Every step keeps the inductive invariant.  Each action of a row r is    *)
(* examined at r, for its types and for the row-wise invariant.            *)
LEMMA OrderNextInv == OrderInv /\ [OrderNext]_orderVars => OrderInv'
  <1> SUFFICES ASSUME OrderInv, [OrderNext]_orderVars PROVE OrderInv'
    OBVIOUS
  <1> USE QtyAssumption, GraceAssumption
  <1>0. OrderTypeOK /\ \A r \in Rows : RowInv(r)
    BY DEF OrderInv, RowInv
  <1>1. ASSUME NEW r \in Rows, BeginSubmit(r) PROVE OrderInv'
    <2>1. OrderTypeOK'
      <3>1. "SUBMITTING" \in RowStatus
        BY DEF RowStatus, Uncertain, Voided, Ended
      <3>2. row' \in [Rows -> [status : RowStatus, known : BOOLEAN, exec : 0..Qty]]
        BY <1>0, <1>1, <3>1, StatusWrites DEF BeginSubmit
      <3> QED
        BY <1>0, <1>1, <3>2 DEF BeginSubmit, OrderTypeOK
    <2>2. RowInv(r)'
      BY <1>0, <1>1 DEF BeginSubmit, NoHandler, OrderTypeOK, RowInv, HandlerInv, RequestInv,
         KnowledgeInv, VoidInv, Uncertain, Voided, Working, Ended
    <2>3. OthersKept(r)
      BY <1>0, <1>1 DEF BeginSubmit, OrderTypeOK, OthersKept
    <2> QED
      BY <1>0, <2>1, <2>2, <2>3, Frame
  <1>2. ASSUME NEW r \in Rows, Send(r) PROVE OrderInv'
    <2>1. OrderTypeOK'
      BY <1>0, <1>2 DEF Send, OrderTypeOK, RowStatus, VenueStatus, Working, Ended
    <2>2. RowInv(r)'
      BY <1>0, <1>2 DEF Send, OrderTypeOK, RowInv, HandlerInv, RequestInv,
         KnowledgeInv, VoidInv, Uncertain, Voided, Working, Ended
    <2>3. OthersKept(r)
      BY <1>0, <1>2 DEF Send, OrderTypeOK, OthersKept
    <2> QED
      BY <1>0, <2>1, <2>2, <2>3, Frame
  <1>3. ASSUME NEW r \in Rows, NEW v \in Views(r), net[r] = "landed",
               row' = [row EXCEPT ![r] = recordManagedResult(r, v)],
               at' \in {[at EXCEPT ![r] = "query"], [at EXCEPT ![r] = "idle"]},
               row[r].status # "PLANNED",
               UNCHANGED <<age, calls, net, flown, venue>>
        PROVE  OrderInv'
    <2> DEFINE w == recordManagedResult(r, v)
    <2>1. /\ w \in [status : RowStatus, known : BOOLEAN, exec : 0..Qty]
          /\ w.exec >= row[r].exec /\ w.exec <= venue[r].exec
          /\ w = row[r] \/ (w.known /\ w.status \in Working \cup Ended)
          /\ w.status \in Ended => venue[r].status = w.status /\ venue[r].exec = w.exec
      BY <1>0, <1>3, RecordFacts
    <2> HIDE DEF w
    <2>2. row' = [row EXCEPT ![r] = w]
      BY <1>3 DEF w
    <2>3. OrderTypeOK'
      BY <1>0, <1>3, <2>1, <2>2 DEF OrderTypeOK
    <2>4. RowInv(r)'
      BY <1>0, <1>3, <2>1, <2>2 DEF OrderTypeOK, RowInv, HandlerInv, RequestInv,
         KnowledgeInv, VoidInv, Uncertain, Voided, Working, Ended
    <2>5. OthersKept(r)
      BY <1>0, <1>3, <2>2 DEF OrderTypeOK, OthersKept
    <2> QED
      BY <1>0, <2>3, <2>4, <2>5, Frame
  <1>4. ASSUME NEW r \in Rows, SubmitAnswered(r) PROVE OrderInv'
    BY <1>0, <1>3, <1>4 DEF SubmitAnswered, RowInv, HandlerInv
  <1>5. ASSUME NEW r \in Rows, SubmitRejected(r) PROVE OrderInv'
    <2>1. OrderTypeOK'
      <3>1. "REJECTED" \in RowStatus
        BY DEF RowStatus, Uncertain, Voided, Ended
      <3>2. row' \in [Rows -> [status : RowStatus, known : BOOLEAN, exec : 0..Qty]]
        BY <1>0, <1>5, <3>1, StatusWrites DEF SubmitRejected
      <3> QED
        BY <1>0, <1>5, <3>2 DEF SubmitRejected, OrderTypeOK
    <2>2. RowInv(r)'
      BY <1>0, <1>5 DEF SubmitRejected, OrderTypeOK, RowInv, HandlerInv, RequestInv,
         KnowledgeInv, VoidInv, Uncertain, Voided, Working, Ended
    <2>3. OthersKept(r)
      BY <1>0, <1>5 DEF SubmitRejected, OrderTypeOK, OthersKept
    <2> QED
      BY <1>0, <2>1, <2>2, <2>3, Frame
  <1>6. ASSUME NEW r \in Rows, SubmitUncertain(r) PROVE OrderInv'
    <2>1. OrderTypeOK'
      <3>1. "UNKNOWN" \in RowStatus
        BY DEF RowStatus, Uncertain, Voided, Ended
      <3>2. row' \in [Rows -> [status : RowStatus, known : BOOLEAN, exec : 0..Qty]]
        BY <1>0, <1>6, <3>1, StatusWrites DEF SubmitUncertain
      <3> QED
        BY <1>0, <1>6, <3>2 DEF SubmitUncertain, OrderTypeOK
    <2>2. RowInv(r)'
      <3>1. /\ row'[r].status = "UNKNOWN" /\ row'[r].known = row[r].known
            /\ row'[r].exec = row[r].exec
            /\ age'[r] = 0 /\ at'[r] = "query"
            /\ UNCHANGED <<calls[r], net[r], flown[r], venue[r]>>
        BY <1>0, <1>6 DEF SubmitUncertain, OrderTypeOK
      <3>2. row[r].status = "SUBMITTING" /\ flown[r] \in 0..MaxDelay
        BY <1>0, <1>6 DEF SubmitUncertain, RowInv, HandlerInv, OrderTypeOK
      <3> QED
        BY <1>0, <3>1, <3>2 DEF RowInv, HandlerInv, RequestInv, KnowledgeInv, VoidInv,
           Uncertain, Voided, Working, Ended
    <2>3. OthersKept(r)
      BY <1>0, <1>6 DEF SubmitUncertain, OrderTypeOK, OthersKept
    <2> QED
      BY <1>0, <2>1, <2>2, <2>3, Frame
  <1>7. ASSUME NEW r \in Rows, QueryFound(r) PROVE OrderInv'
    <2>1. net[r] = "landed" /\ row[r].status # "PLANNED"
      BY <1>0, <1>7 DEF QueryFound, MayQuery, RowInv, HandlerInv, RequestInv
    <2> QED
      BY <1>3, <1>7, <2>1 DEF QueryFound
  <1>8. ASSUME NEW r \in Rows, QueryNotFound(r) PROVE OrderInv'
    <2>1. OrderTypeOK'
      <3>1. "ABANDONED" \in RowStatus
        BY DEF RowStatus, Voided
      <3>2. [row EXCEPT ![r].status = "ABANDONED"] \in [Rows -> [status : RowStatus, known : BOOLEAN, exec : 0..Qty]]
        BY <1>0, <3>1, StatusWrites
      <3> QED
        BY <1>0, <1>8, <3>2 DEF QueryNotFound, OrderTypeOK
    <2>2. RowInv(r)'
      <3>1. CASE abandonUnlandedOrder(r)
        \* A request still in flight is younger than MaxDelay, and so is the row.
        <4>1. net[r] # "landed" /\ net[r] # "flight"
          BY <1>0, <1>8, <3>1 DEF QueryNotFound, abandonUnlandedOrder, OrderTypeOK, RowInv,
             RequestInv, VoidInv
        <4> QED
          BY <1>0, <1>8, <3>1, <4>1 DEF QueryNotFound, abandonUnlandedOrder, OrderTypeOK,
             RowInv, HandlerInv, RequestInv, KnowledgeInv, VoidInv, Uncertain, Voided,
             Working, Ended
      <3>2. CASE ~ abandonUnlandedOrder(r)
        BY <1>0, <1>8, <3>2 DEF QueryNotFound, MayQuery, OrderTypeOK, RowInv, HandlerInv,
           RequestInv, KnowledgeInv, VoidInv
      <3> QED
        BY <3>1, <3>2
    <2>3. OthersKept(r)
      BY <1>0, <1>8 DEF QueryNotFound, OrderTypeOK, OthersKept
    <2> QED
      BY <1>0, <2>1, <2>2, <2>3, Frame
  <1>9. ASSUME NEW r \in Rows, AbandonPlanned(r) PROVE OrderInv'
    <2>1. OrderTypeOK'
      <3>1. "ABANDONED" \in RowStatus
        BY DEF RowStatus, Uncertain, Voided, Ended
      <3>2. row' \in [Rows -> [status : RowStatus, known : BOOLEAN, exec : 0..Qty]]
        BY <1>0, <1>9, <3>1, StatusWrites DEF AbandonPlanned
      <3> QED
        BY <1>0, <1>9, <3>2 DEF AbandonPlanned, OrderTypeOK
    <2>2. RowInv(r)'
      BY <1>0, <1>9 DEF AbandonPlanned, OrderTypeOK, RowInv, HandlerInv, RequestInv,
         KnowledgeInv, VoidInv, Uncertain, Voided, Working, Ended
    <2>3. OthersKept(r)
      BY <1>0, <1>9 DEF AbandonPlanned, OrderTypeOK, OthersKept
    <2> QED
      BY <1>0, <2>1, <2>2, <2>3, Frame
  <1>10. ASSUME NEW r \in Rows, CancelAnswered(r) PROVE OrderInv'
    <2>1. OrderTypeOK'
      BY <1>0, <1>10 DEF CancelAnswered, MayCancel, NoHandler, Live, OrderTypeOK, RowStatus, VenueStatus, Working, Ended
    <2>2. RowInv(r)'
      BY <1>0, <1>10 DEF CancelAnswered, MayCancel, NoHandler, Live, OrderTypeOK, RowInv, HandlerInv, RequestInv,
         KnowledgeInv, VoidInv, Uncertain, Voided, Working, Ended
    <2>3. OthersKept(r)
      BY <1>0, <1>10 DEF CancelAnswered, OrderTypeOK, OthersKept
    <2> QED
      BY <1>0, <2>1, <2>2, <2>3, Frame
  <1>11. ASSUME NEW r \in Rows, CancelUncertain(r) PROVE OrderInv'
    <2>1. OrderTypeOK'
      <3>1. "CANCELED" \in VenueStatus
        BY DEF VenueStatus, Working, Ended
      <3>2. [venue EXCEPT ![r].status = "CANCELED"] \in [Rows -> [status : VenueStatus, exec : 0..Qty]]
        BY <1>0, <3>1, StatusWrites
      <3>3. venue' \in [Rows -> [status : VenueStatus, exec : 0..Qty]]
        BY <1>0, <1>11, <3>2 DEF CancelUncertain, OrderTypeOK
      <3> QED
        BY <1>0, <1>11, <3>3 DEF CancelUncertain, OrderTypeOK
    <2>2. RowInv(r)'
      BY <1>0, <1>11 DEF CancelUncertain, MayCancel, Live, OrderTypeOK, RowInv, HandlerInv, RequestInv,
         KnowledgeInv, VoidInv, Uncertain, Voided, Working, Ended
    <2>3. OthersKept(r)
      BY <1>0, <1>11 DEF CancelUncertain, OrderTypeOK, OthersKept
    <2> QED
      BY <1>0, <2>1, <2>2, <2>3, Frame
  <1>12. ASSUME NEW r \in Rows, HandlerStops(r) PROVE OrderInv'
    <2>1. OrderTypeOK'
      BY <1>0, <1>12 DEF HandlerStops, OrderTypeOK, RowStatus, VenueStatus, Working, Ended
    <2>2. RowInv(r)'
      BY <1>0, <1>12 DEF HandlerStops, OrderTypeOK, RowInv, HandlerInv, RequestInv,
         KnowledgeInv, VoidInv, Uncertain, Voided, Working, Ended
    <2>3. OthersKept(r)
      BY <1>0, <1>12 DEF HandlerStops, OrderTypeOK, OthersKept
    <2> QED
      BY <1>0, <2>1, <2>2, <2>3, Frame
  <1>13. ASSUME NEW r \in Rows, Arrive(r) PROVE OrderInv'
    <2>1. OrderTypeOK'
      <3>1. "NEW" \in VenueStatus
        BY DEF VenueStatus, Working, Ended
      <3>2. [venue EXCEPT ![r].status = "NEW"] \in [Rows -> [status : VenueStatus, exec : 0..Qty]]
        BY <1>0, <3>1, StatusWrites
      <3>3. venue' \in [Rows -> [status : VenueStatus, exec : 0..Qty]]
        BY <1>0, <1>13, <3>2 DEF Arrive, OrderTypeOK
      <3> QED
        BY <1>0, <1>13, <3>3 DEF Arrive, OrderTypeOK
    <2>2. RowInv(r)'
      BY <1>0, <1>13 DEF Arrive, OrderTypeOK, RowInv, HandlerInv, RequestInv,
         KnowledgeInv, VoidInv, Uncertain, Voided, Working, Ended
    <2>3. OthersKept(r)
      BY <1>0, <1>13 DEF Arrive, OrderTypeOK, OthersKept
    <2> QED
      BY <1>0, <2>1, <2>2, <2>3, Frame
  <1>14. ASSUME NEW r \in Rows, VenueFill(r) PROVE OrderInv'
    <2>1. OrderTypeOK'
      BY <1>0, <1>14 DEF VenueFill, Live, OrderTypeOK, RowStatus, VenueStatus, Working, Ended
    <2>2. RowInv(r)'
      BY <1>0, <1>14 DEF VenueFill, Live, OrderTypeOK, RowInv, HandlerInv, RequestInv,
         KnowledgeInv, VoidInv, Uncertain, Voided, Working, Ended
    <2>3. OthersKept(r)
      BY <1>0, <1>14 DEF VenueFill, OrderTypeOK, OthersKept
    <2> QED
      BY <1>0, <2>1, <2>2, <2>3, Frame
  <1>15. ASSUME NEW r \in Rows, VenueExpire(r) PROVE OrderInv'
    <2>1. OrderTypeOK'
      <3>1. "EXPIRED" \in VenueStatus
        BY DEF VenueStatus, Working, Ended
      <3>2. [venue EXCEPT ![r].status = "EXPIRED"] \in [Rows -> [status : VenueStatus, exec : 0..Qty]]
        BY <1>0, <3>1, StatusWrites
      <3>3. venue' \in [Rows -> [status : VenueStatus, exec : 0..Qty]]
        BY <1>0, <1>15, <3>2 DEF VenueExpire, OrderTypeOK
      <3> QED
        BY <1>0, <1>15, <3>3 DEF VenueExpire, OrderTypeOK
    <2>2. RowInv(r)'
      BY <1>0, <1>15 DEF VenueExpire, Live, OrderTypeOK, RowInv, HandlerInv, RequestInv,
         KnowledgeInv, VoidInv, Uncertain, Voided, Working, Ended
    <2>3. OthersKept(r)
      BY <1>0, <1>15 DEF VenueExpire, OrderTypeOK, OthersKept
    <2> QED
      BY <1>0, <2>1, <2>2, <2>3, Frame
  <1>16. CASE Tick
    <2>1. OrderTypeOK'
      BY <1>0, <1>16 DEF Tick, OrderTypeOK
    <2>2. ASSUME NEW q \in Rows PROVE RowInv(q)'
      BY <1>0, <1>16, <2>2 DEF Tick, OrderTypeOK, RowInv, HandlerInv, RequestInv,
         KnowledgeInv, VoidInv, Uncertain
    <2> QED
      BY <2>1, <2>2 DEF OrderInv, RowInv
  <1>17. CASE UNCHANGED orderVars
    BY <1>0, <1>17 DEF OrderInv, orderVars, OrderTypeOK, RowInv, HandlerInv, RequestInv,
       KnowledgeInv, VoidInv
  <1> QED
    BY <1>1, <1>2, <1>4, <1>5, <1>6, <1>7, <1>8, <1>9, <1>10, <1>11, <1>12, <1>13, <1>14, <1>15, <1>16, <1>17
       DEF OrderNext, Step

(* The inductive invariant holds throughout every behaviour.               *)
THEOREM OrderInvariance == OrderSpec => []OrderInv
  BY OrderInitInv, OrderNextInv, PTL DEF OrderSpec

(* Type correctness of the ledger, the handler positions, the network and  *)
(* the venue.                                                              *)
THEOREM OrderTyped == OrderSpec => []OrderTypeOK
  <1>1. OrderInv => OrderTypeOK
    BY DEF OrderInv
  <1> QED
    BY <1>1, OrderInvariance, PTL

(* submitManagedChecked hands each client ID to the venue at most once.    *)
THEOREM SubmittedOnce == OrderSpec => []SubmitOnce
  <1>1. OrderInv => SubmitOnce
    BY DEF OrderInv, SubmitOnce, RequestInv
  <1> QED
    BY <1>1, OrderInvariance, PTL

(* A row given up by abandonUnlandedOrder, cancelManaged or a definite     *)
(* rejection never has an order at the venue or on its way there.          *)
THEOREM VoidedIsVoid == OrderSpec => []VoidedNeverLands
  <1>1. OrderInv => VoidedNeverLands
    BY DEF OrderInv, VoidedNeverLands, VoidInv
  <1> QED
    BY <1>1, OrderInvariance, PTL

(* A row in a final venue status carries the venue's final fills.          *)
THEOREM SettledExactly == OrderSpec => []SettledIsExact
  <1>1. OrderInv => SettledIsExact
    BY DEF OrderInv, SettledIsExact, KnowledgeInv
  <1> QED
    BY <1>1, OrderInvariance, PTL

-----------------------------------------------------------------------------
(* The initial ledger is the contract's initial state.                     *)
LEMMA ContractInit == OrderInit => Contract!CInit
  BY DEF OrderInit, Contract!CInit, phaseOf, newManagedOrder, Voided

(* A step of row r moves the contract's three tables at r only.            *)
LEMMA MappedStep ==
    ASSUME NEW r \in Rows, OthersKept(r)
    PROVE  /\ [q \in Rows |-> phaseOf(q)]' =
                 [[q \in Rows |-> phaseOf(q)] EXCEPT ![r] = phaseOf(r)']
           /\ [q \in Rows |-> venue[q].exec]' =
                 [[q \in Rows |-> venue[q].exec] EXCEPT ![r] = venue'[r].exec]
           /\ [q \in Rows |-> row[q].exec]' =
                 [[q \in Rows |-> row[q].exec] EXCEPT ![r] = row'[r].exec]
  <1>1. \A q \in Rows \ {r} : /\ phaseOf(q)' = phaseOf(q)
                              /\ venue'[q].exec = venue[q].exec
                              /\ row'[q].exec = row[q].exec
    BY DEF OthersKept, phaseOf
  <1> QED
    BY <1>1

(* The four ways a step of row r may look through the contract, besides    *)
(* leaving it as it is.                                                    *)
LEMMA MappedCases ==
    ASSUME NEW r \in Rows, OthersKept(r),
           \/ /\ phaseOf(r)' = phaseOf(r)
              /\ venue'[r].exec = venue[r].exec /\ row'[r].exec = row[r].exec
           \/ /\ phaseOf(r) = "intended" /\ phaseOf(r)' = "committed"
              /\ venue'[r].exec = venue[r].exec /\ row'[r].exec = row[r].exec
           \/ /\ phaseOf(r) \in {"intended", "committed"} /\ phaseOf(r)' = "void"
              /\ venue[r].exec = 0
              /\ venue'[r].exec = venue[r].exec /\ row'[r].exec = row[r].exec
           \/ /\ phaseOf(r) = "committed" /\ phaseOf(r)' = "committed"
              /\ venue'[r].exec \in (venue[r].exec + 1)..Qty
              /\ row'[r].exec = row[r].exec
           \/ /\ phaseOf(r) = "committed" /\ phaseOf(r)' = "committed"
              /\ venue'[r].exec = venue[r].exec
              /\ row'[r].exec \in (row[r].exec + 1)..venue[r].exec
    PROVE  [Contract!CNext]_(Contract!cvars)
  <1> DEFINE ph == [q \in Rows |-> phaseOf(q)]
             ex == [q \in Rows |-> venue[q].exec]
             re == [q \in Rows |-> row[q].exec]
  <1>1. /\ ph' = [ph EXCEPT ![r] = phaseOf(r)']
        /\ ex' = [ex EXCEPT ![r] = venue'[r].exec]
        /\ re' = [re EXCEPT ![r] = row'[r].exec]
    BY MappedStep
  <1>2. ph[r] = phaseOf(r) /\ ex[r] = venue[r].exec /\ re[r] = row[r].exec
    OBVIOUS
  <1>3. CASE phaseOf(r)' = phaseOf(r) /\ venue'[r].exec = venue[r].exec
             /\ row'[r].exec = row[r].exec
    <2>1. ph' = ph /\ ex' = ex /\ re' = re
      BY <1>1, <1>2, <1>3
    <2> QED
      BY <2>1 DEF Contract!cvars
  <1>4. CASE phaseOf(r) = "intended" /\ phaseOf(r)' = "committed"
             /\ venue'[r].exec = venue[r].exec /\ row'[r].exec = row[r].exec
    <2>1. ex' = ex /\ re' = re
      BY <1>1, <1>2, <1>4
    <2>2. Contract!Commit(r)
      BY <1>1, <1>2, <1>4, <2>1 DEF Contract!Commit
    <2> QED
      BY <2>2 DEF Contract!CNext
  <1>5. CASE phaseOf(r) \in {"intended", "committed"} /\ phaseOf(r)' = "void"
             /\ venue[r].exec = 0
             /\ venue'[r].exec = venue[r].exec /\ row'[r].exec = row[r].exec
    <2>1. ex' = ex /\ re' = re
      BY <1>1, <1>2, <1>5
    <2>2. Contract!Void(r)
      BY <1>1, <1>2, <1>5, <2>1 DEF Contract!Void
    <2> QED
      BY <2>2 DEF Contract!CNext
  <1>6. CASE phaseOf(r) = "committed" /\ phaseOf(r)' = "committed"
             /\ venue'[r].exec \in (venue[r].exec + 1)..Qty
             /\ row'[r].exec = row[r].exec
    <2>1. ph' = ph /\ re' = re
      BY <1>1, <1>2, <1>6
    <2>2. Contract!Execute(r)
      BY <1>1, <1>2, <1>6, <2>1 DEF Contract!Execute
    <2> QED
      BY <2>2 DEF Contract!CNext
  <1>7. CASE phaseOf(r) = "committed" /\ phaseOf(r)' = "committed"
             /\ venue'[r].exec = venue[r].exec
             /\ row'[r].exec \in (row[r].exec + 1)..venue[r].exec
    <2>1. ph' = ph /\ ex' = ex
      BY <1>1, <1>2, <1>7
    <2>2. Contract!Report(r)
      BY <1>1, <1>2, <1>7, <2>1 DEF Contract!Report
    <2> QED
      BY <2>2 DEF Contract!CNext
  <1> QED
    BY <1>3, <1>4, <1>5, <1>6, <1>7

(* Every step of the protocol is a step of the contract or none.           *)
LEMMA ContractNext == OrderInv /\ [OrderNext]_orderVars => [Contract!CNext]_(Contract!cvars)
  <1> SUFFICES ASSUME OrderInv, [OrderNext]_orderVars PROVE [Contract!CNext]_(Contract!cvars)
    OBVIOUS
  <1> USE QtyAssumption, GraceAssumption
  <1>0. OrderTypeOK /\ \A r \in Rows : RowInv(r)
    BY DEF OrderInv, RowInv
  <1>1. ASSUME NEW r \in Rows, BeginSubmit(r) PROVE [Contract!CNext]_(Contract!cvars)
    <2>1. OthersKept(r) /\ phaseOf(r) = "intended" /\ phaseOf(r)' = "committed"
          /\ venue'[r].exec = venue[r].exec /\ row'[r].exec = row[r].exec
      BY <1>0, <1>1 DEF BeginSubmit, OrderTypeOK, OthersKept, phaseOf, Voided
    <2> QED
      BY <2>1, MappedCases
  <1>2. ASSUME NEW r \in Rows,
               Send(r) \/ SubmitUncertain(r) \/ HandlerStops(r) \/ VenueExpire(r)
                 \/ Arrive(r) \/ CancelUncertain(r)
        PROVE  [Contract!CNext]_(Contract!cvars)
    <2>1. OthersKept(r)
      BY <1>0, <1>2 DEF Send, SubmitUncertain, HandlerStops, VenueExpire, Arrive,
         CancelUncertain, OrderTypeOK, OthersKept
    <2>2. phaseOf(r)' = phaseOf(r)
      BY <1>0, <1>2 DEF Send, SubmitUncertain, HandlerStops, VenueExpire, Arrive,
         CancelUncertain, OrderTypeOK, RowInv, HandlerInv, phaseOf, Voided
    <2>3. venue'[r].exec = venue[r].exec /\ row'[r].exec = row[r].exec
      BY <1>0, <1>2 DEF Send, SubmitUncertain, HandlerStops, VenueExpire, Arrive,
         CancelUncertain, OrderTypeOK
    <2> QED
      BY <2>1, <2>2, <2>3, MappedCases
  <1>3. ASSUME NEW r \in Rows, NEW v \in Views(r), net[r] = "landed",
               row' = [row EXCEPT ![r] = recordManagedResult(r, v)],
               row[r].status # "PLANNED", venue' = venue, OthersKept(r)
        PROVE  [Contract!CNext]_(Contract!cvars)
    <2> DEFINE w == recordManagedResult(r, v)
    <2>1. /\ w \in [status : RowStatus, known : BOOLEAN, exec : 0..Qty]
          /\ w.exec >= row[r].exec /\ w.exec <= venue[r].exec
          /\ w = row[r] \/ (w.known /\ w.status \in Working \cup Ended)
      BY <1>0, <1>3, RecordFacts
    <2> HIDE DEF w
    <2>2. row'[r] = w
      BY <1>0, <1>3 DEF w, OrderTypeOK
    <2>3. row[r].exec \in 0..Qty /\ venue[r].exec \in 0..Qty
      BY <1>0 DEF OrderTypeOK
    <2>4. phaseOf(r) = "committed" /\ phaseOf(r)' = "committed"
      BY <1>0, <1>3, <2>1, <2>2 DEF RowInv, VoidInv, phaseOf, Voided, Working, Ended
    <2> QED
      BY <1>3, <2>1, <2>2, <2>3, <2>4, MappedCases
  <1>4. ASSUME NEW r \in Rows, SubmitAnswered(r) PROVE [Contract!CNext]_(Contract!cvars)
    <2>1. OthersKept(r)
      BY <1>0, <1>4 DEF SubmitAnswered, OrderTypeOK, OthersKept
    <2> QED
      BY <1>0, <1>3, <1>4, <2>1 DEF SubmitAnswered, RowInv, HandlerInv
  <1>5. ASSUME NEW r \in Rows, QueryFound(r) PROVE [Contract!CNext]_(Contract!cvars)
    <2>1. OthersKept(r)
      BY <1>0, <1>5 DEF QueryFound, OrderTypeOK, OthersKept
    <2>2. net[r] = "landed" /\ row[r].status # "PLANNED"
      BY <1>0, <1>5 DEF QueryFound, MayQuery, RowInv, HandlerInv, RequestInv
    <2> QED
      BY <1>3, <1>5, <2>1, <2>2 DEF QueryFound
  <1>6. ASSUME NEW r \in Rows, SubmitRejected(r) \/ AbandonPlanned(r)
                               \/ (QueryNotFound(r) /\ abandonUnlandedOrder(r))
        PROVE  [Contract!CNext]_(Contract!cvars)
    <2>1. OthersKept(r)
      BY <1>0, <1>6 DEF SubmitRejected, AbandonPlanned, QueryNotFound, OrderTypeOK, OthersKept
    <2>2. phaseOf(r) \in {"intended", "committed"} /\ phaseOf(r)' = "void"
      BY <1>0, <1>6 DEF SubmitRejected, AbandonPlanned, QueryNotFound, abandonUnlandedOrder,
         OrderTypeOK, RowInv, HandlerInv, phaseOf, Voided, Uncertain
    <2>3. venue[r].exec = 0
      BY <1>0, <1>6 DEF SubmitRejected, AbandonPlanned, QueryNotFound, RowInv, HandlerInv,
         RequestInv
    <2>4. venue'[r].exec = venue[r].exec /\ row'[r].exec = row[r].exec
      BY <1>0, <1>6 DEF SubmitRejected, AbandonPlanned, QueryNotFound, OrderTypeOK
    <2> QED
      BY <2>1, <2>2, <2>3, <2>4, MappedCases
  <1>7. ASSUME NEW r \in Rows, QueryNotFound(r), ~ abandonUnlandedOrder(r)
        PROVE  [Contract!CNext]_(Contract!cvars)
    <2>1. OthersKept(r) /\ phaseOf(r)' = phaseOf(r)
          /\ venue'[r].exec = venue[r].exec /\ row'[r].exec = row[r].exec
      BY <1>0, <1>7 DEF QueryNotFound, OrderTypeOK, OthersKept, phaseOf
    <2> QED
      BY <2>1, MappedCases
  <1>8. ASSUME NEW r \in Rows, CancelAnswered(r) PROVE [Contract!CNext]_(Contract!cvars)
    <2>1. OthersKept(r)
      BY <1>0, <1>8 DEF CancelAnswered, OrderTypeOK, OthersKept
    <2>2. phaseOf(r) = "committed" /\ phaseOf(r)' = "committed"
      BY <1>0, <1>8 DEF CancelAnswered, MayCancel, orderTerminal, OrderTypeOK, phaseOf, Voided, Ended
    <2>3. venue'[r].exec = venue[r].exec /\ row'[r].exec = venue[r].exec
      BY <1>0, <1>8 DEF CancelAnswered, OrderTypeOK
    <2>4. row[r].exec \in 0..Qty /\ venue[r].exec \in 0..Qty /\ row[r].exec <= venue[r].exec
      BY <1>0 DEF OrderTypeOK, RowInv, KnowledgeInv
    <2> QED
      BY <2>1, <2>2, <2>3, <2>4, MappedCases
  <1>9. ASSUME NEW r \in Rows, VenueFill(r) PROVE [Contract!CNext]_(Contract!cvars)
    <2>1. OthersKept(r) /\ venue'[r].exec \in (venue[r].exec + 1)..Qty
          /\ row'[r].exec = row[r].exec /\ phaseOf(r)' = phaseOf(r)
      BY <1>0, <1>9 DEF VenueFill, OrderTypeOK, OthersKept, phaseOf
    <2>2. net[r] = "landed"
      BY <1>0, <1>9 DEF VenueFill, Live, Working, RowInv, RequestInv
    <2>3. phaseOf(r) = "committed"
      BY <1>0, <2>2 DEF RowInv, HandlerInv, VoidInv, phaseOf
    <2> QED
      BY <2>1, <2>3, MappedCases
  <1>10. CASE Tick \/ UNCHANGED orderVars
    <2>1. row' = row /\ venue' = venue
      BY <1>10 DEF Tick, orderVars
    <2> QED
      BY <2>1 DEF Contract!cvars, phaseOf
  <1> QED
    BY <1>1, <1>2, <1>4, <1>5, <1>6, <1>7, <1>8, <1>9, <1>10 DEF OrderNext, Step

(* The submission protocol implements the order contract: nothing executes *)
(* before its SUBMITTING write, nothing void ever executes, and the fills  *)
(* the ledger reports only grow and never exceed the venue's.              *)
THEOREM ImplementsContract == OrderSpec => ContractSpec
  BY ContractInit, ContractNext, OrderInvariance, PTL DEF OrderSpec, ContractSpec, Contract!CSpec
=============================================================================
