------------ MODULE StopGuard_proofs ----------------------------------------
(***************************************************************************)
(* The stop-loss of a trade, for any prices, bounds and delays with        *)
(* 0 < Grace < Alert and four identities or more: which order may still    *)
(* trigger is always named by the durable context (Holders), so that no    *)
(* second one is sent, the recorded stop exists, and a trade is closed     *)
(* only when none is left.                                                 *)
(***************************************************************************)
EXTENDS StopGuard, FiniteSetTheorems, TLAPS

Slots == StopIds \cup {Foreign}
Statuses == {"none", "flying", "live", "fired", "ended", "refused"}
StopType == [price : Prices \cup {0}, st : Statuses]
CtxType == [state : {"OPEN", "CLOSED"}, price : Prices, requested : Prices,
            oid : StopIds \cup {NoId, Foreign}, intent : Intent, closing : BOOLEAN]

(* What the durable intent says of itself and of the recorded stop.        *)
IntentFits ==
    /\ ~ pending => ctx.intent = NoIntent
    /\ pending => /\ ctx.intent.id \in StopIds \ {ctx.oid}
                  /\ ctx.intent.price \in Prices /\ ctx.intent.requested \in Prices
                  /\ ctx.intent.old \in {NoId, Foreign, ctx.oid}
    /\ ctx.state = "CLOSED" => pc = "idle" /\ ~ pending /\ ctx.oid = NoId

(* The stage of the intent at each point of the handler.                   *)
HandlerFits ==
    /\ pc = "look" => pending \/ target \in Prices
    /\ pc \in {"cancel", "submit"} => ctx.intent.stage = "PLANNED"
    /\ pc = "cancel" => ctx.intent.old # NoId
    /\ pc \in {"send", "answer", "confirm"} => ctx.intent.stage = "SUBMITTING"
    /\ pc = "send" => ctx.intent.sentAge = 0
    /\ pc = "adopt" => ctx.intent.stage = "REJECTED"
    /\ pc = "mark" => ~ pending /\ ctx.oid = NoId

(* The book: one live stop and one fired stop at most, and nothing but     *)
(* these outside of the names of the context.                              *)
BookFits ==
    /\ \A i \in Slots : stops[i].st # "none" => stops[i].price \in Prices
    /\ \A i, j \in Slots : stops[i].st = "live" /\ stops[j].st = "live" => i = j
    /\ \A i, j \in Slots : stops[i].st = "fired" /\ stops[j].st = "fired" => i = j
    /\ stops[Foreign].st # "flying"
    /\ ctx.intent.old = Foreign => stops[Foreign].st # "none"
    /\ \A i \in StopIds :
         stops[i].st # "none" => i \in {ctx.oid, ctx.intent.id} \/ stops[i].st = "fired"

(* A request in flight is the one of the intent, and it is young.          *)
Flights ==
    \A i \in StopIds : stops[i].st = "flying" =>
        /\ ctx.intent.stage \in Sent /\ i = ctx.intent.id /\ ctx.intent.sentAge = 0
        /\ pc # "clean"

(* The order that may still trigger, by the stage of the intent.           *)
Holders ==
    \A i \in MayTrigger :
        /\ ~ pending => i = ctx.oid
        /\ ctx.intent.stage = "PLANNED" => i = ctx.intent.old
        /\ ctx.intent.stage \in Sent => i = ctx.intent.id
        /\ ctx.intent.stage # "REJECTED"
        /\ pc \notin {"submit", "send", "clear", "mark"}
        /\ pc = "clean" => i \in {ctx.oid, ctx.intent.id}
        /\ ctx.state = "OPEN"

(* The old stop gives way to one at least as tight.                        *)
OldIsLooser ==
    LET o == ctx.intent.old IN
    pending /\ o # NoId /\ stops[o].st = "live" =>
        /\ ctx.intent.price >= stops[o].price
        /\ o = Foreign => stops[o].price = ctx.price


(* The inductive invariant: all of these, and the types.                   *)
Fits == IntentFits /\ HandlerFits /\ BookFits /\ Flights /\ Holders /\ OldIsLooser /\ RecordIsReal

IInv == StopGuardAssumption /\ TypeOK /\ Fits

-----------------------------------------------------------------------------
LEMMA Basics ==
    ASSUME IInv
    PROVE  /\ MaxIds \in Nat /\ MaxIds >= 4 /\ MaxFaults \in Nat /\ MaxMoves \in Nat
           /\ Prices \subseteq Nat \ {0} /\ 0 \notin Prices
           /\ Grace \in Nat \ {0} /\ Alert \in Nat
           /\ NoId \notin Slots /\ Foreign \in Slots /\ Foreign \notin StopIds /\ StopIds \subseteq Slots
           /\ NoId # Foreign /\ NoId \notin StopIds
           /\ stops \in [Slots -> StopType] /\ DOMAIN stops = Slots
           /\ ctx \in CtxType /\ ctx.intent \in Intent
           /\ (ctx.intent.stage = "NONE") = (ctx.intent.id = NoId)
           /\ NoIntent \in Intent /\ NoIntent.stage = "NONE" /\ NoIntent.id = NoId
           /\ NoIntent.old = NoId /\ NoIntent.sentAge = 0
<1>1. /\ MaxIds \in Nat /\ MaxIds >= 4 /\ MaxFaults \in Nat /\ MaxMoves \in Nat
      /\ Prices \subseteq Nat \ {0} /\ 0 \notin Prices
      /\ Grace \in Nat \ {0} /\ Alert \in Nat
  BY DEF IInv, StopGuardAssumption
<1>2. /\ NoId \notin Slots /\ Foreign \in Slots /\ Foreign \notin StopIds /\ StopIds \subseteq Slots
      /\ NoId # Foreign /\ NoId \notin StopIds
  BY <1>1 DEF NoId, Foreign, Slots, StopIds
<1>3. /\ stops \in [Slots -> StopType] /\ DOMAIN stops = Slots
      /\ ctx \in CtxType /\ (ctx.intent.stage = "NONE") = (ctx.intent.id = NoId)
  BY DEF IInv, TypeOK, Slots, StopType, Statuses, CtxType
<1>4. ctx.intent \in Intent
  BY <1>3 DEF CtxType
<1>5. NoIntent \in Intent /\ NoIntent.stage = "NONE" /\ NoIntent.id = NoId
      /\ NoIntent.old = NoId /\ NoIntent.sentAge = 0
  BY <1>1 DEF NoIntent, Intent
<1> QED BY <1>1, <1>2, <1>3, <1>4, <1>5

(* The fields of the context, of its intent and of a stop.                 *)
LEMMA Fields ==
    ASSUME IInv
    PROVE  /\ \A i \in Slots : stops[i].st \in Statuses /\ stops[i].price \in Prices \cup {0}
           /\ ctx.price \in Prices /\ ctx.requested \in Prices
           /\ ctx.oid \in StopIds \cup {NoId, Foreign} /\ ctx.state \in {"OPEN", "CLOSED"}
           /\ ctx.intent.id \in StopIds \cup {NoId}
           /\ ctx.intent.price \in Prices \cup {0} /\ ctx.intent.requested \in Prices \cup {0}
           /\ ctx.intent.old \in StopIds \cup {NoId, Foreign}
           /\ ctx.intent.stage \in {"NONE", "PLANNED", "SUBMITTING", "UNKNOWN", "REJECTED"}
           /\ ctx.intent.nf \in 0 .. 2 /\ ctx.intent.nfAge \in 0 .. Grace
           /\ ctx.intent.sentAge \in 0 .. Grace /\ ctx.intent.age \in 0 .. Alert
<1>1. \A i \in Slots : stops[i].st \in Statuses /\ stops[i].price \in Prices \cup {0}
  BY Basics DEF StopType
<1>2. /\ ctx.price \in Prices /\ ctx.requested \in Prices
      /\ ctx.oid \in StopIds \cup {NoId, Foreign} /\ ctx.state \in {"OPEN", "CLOSED"}
  BY Basics DEF CtxType
<1>3. /\ ctx.intent.id \in StopIds \cup {NoId}
      /\ ctx.intent.price \in Prices \cup {0} /\ ctx.intent.requested \in Prices \cup {0}
      /\ ctx.intent.old \in StopIds \cup {NoId, Foreign}
      /\ ctx.intent.stage \in {"NONE", "PLANNED", "SUBMITTING", "UNKNOWN", "REJECTED"}
      /\ ctx.intent.nf \in 0 .. 2 /\ ctx.intent.nfAge \in 0 .. Grace
      /\ ctx.intent.sentAge \in 0 .. Grace /\ ctx.intent.age \in 0 .. Alert
  BY Basics DEF Intent
<1> QED BY <1>1, <1>2, <1>3

(* An identity is always free: the context names two of the trade's at     *)
(* most, and one more may belong to an order that is being filled.         *)
LEMMA FreshFacts ==
    ASSUME IInv
    PROVE  /\ Fresh \in StopIds /\ Fresh \notin {ctx.oid, ctx.intent.id, ctx.intent.old}
           /\ stops[Fresh].st = "none"
<1> DEFINE Free(i) == i \notin {ctx.oid, ctx.intent.id, ctx.intent.old} /\ stops[i].st = "none"
<1>1. {1, 2, 3, 4} \subseteq StopIds
  BY Basics DEF StopIds
<1>2. \A i \in StopIds : Free(i) \/ i \in {ctx.oid, ctx.intent.id} \/ stops[i].st = "fired"
  <2>1. ctx.intent.old \in {NoId, Foreign, ctx.oid}
    BY Basics DEF IInv, Fits, IntentFits, pending
  <2> QED BY <2>1, Basics DEF IInv, Fits, BookFits
<1>3. \A i, j \in StopIds : stops[i].st = "fired" /\ stops[j].st = "fired" => i = j
  BY Basics DEF IInv, Fits, BookFits
<1> HIDE DEF Free
<1>4. \E i \in {1, 2, 3, 4} : Free(i)
  BY <1>1, <1>2, <1>3
<1>5. \E i \in StopIds : Free(i)
  BY <1>1, <1>4
<1> QED BY <1>5 DEF Fresh, Free

-----------------------------------------------------------------------------
(* What a save of the context, and a change of the book, leave behind.     *)
Alive == {"flying", "live", "fired"}
ShrunkAfter(c) ==
    \A i \in Slots : IF i \in {Foreign, c.oid, c.intent.id, c.intent.old} \/ stops[i].st \in Alive
                     THEN stops'[i] = stops[i] ELSE stops'[i].st = "none"

LEMMA PersistBook ==
    ASSUME IInv, NEW c, Persist(c)
    PROVE  ctx' = c /\ open' = open /\ stops' \in [Slots -> StopType] /\ ShrunkAfter(c)
<1>1. stops' = [i \in Slots |->
                  IF i \in {Foreign, c.oid, c.intent.id, c.intent.old} \/ stops[i].st \in Alive
                  THEN stops[i] ELSE [price |-> 0, st |-> "none"]]
  BY Basics DEF Persist, Remembered, Alive
<1>2. [price |-> 0, st |-> "none"] \in StopType
  BY DEF StopType, Statuses
<1>3. stops' \in [Slots -> StopType]
  BY <1>1, <1>2, Basics
<1> QED BY <1>1, <1>3 DEF Persist, ShrunkAfter

(* The status of an order after a change of the book to s.                 *)
BookedAfter(k, s) ==
    \A i \in Slots :
       LET st1 == IF i = k THEN s ELSE stops[i].st IN
       IF i \in {Foreign, ctx.oid, ctx.intent.id, ctx.intent.old} \/ st1 \in Alive
       THEN stops'[i].st = st1 /\ stops'[i].price = stops[i].price
       ELSE stops'[i].st = "none"

LEMMA BookBook ==
    ASSUME IInv, NEW k \in Slots, NEW s \in Statuses, Book(k, s)
    PROVE  stops' \in [Slots -> StopType] /\ BookedAfter(k, s)
<1> DEFINE b == [stops EXCEPT ![k].st = s]
<1>1. /\ b \in [Slots -> StopType]
      /\ \A i \in Slots : b[i].st = (IF i = k THEN s ELSE stops[i].st) /\ b[i].price = stops[i].price
  <2>1. [stops[k] EXCEPT !.st = s] \in StopType
    BY Basics DEF StopType
  <2>2. b \in [Slots -> StopType]
    BY <2>1, Basics
  <2>3. \A i \in Slots : b[i] = IF i = k THEN [stops[k] EXCEPT !.st = s] ELSE stops[i]
    BY Basics
  <2>4. [stops[k] EXCEPT !.st = s].st = s /\ [stops[k] EXCEPT !.st = s].price = stops[k].price
    BY Basics DEF StopType
  <2> HIDE DEF b
  <2> QED BY <2>2, <2>3, <2>4
<1>2. stops' = Remembered(ctx, b)
  BY DEF Book
<1> HIDE DEF b
<1>3. stops' = [i \in Slots |->
                  IF i \in {Foreign, ctx.oid, ctx.intent.id, ctx.intent.old} \/ b[i].st \in Alive
                  THEN b[i] ELSE [price |-> 0, st |-> "none"]]
  BY <1>1, <1>2, Basics DEF Remembered, Alive
<1>4. [price |-> 0, st |-> "none"] \in StopType
  BY DEF StopType, Statuses
<1>5. stops' \in [Slots -> StopType]
  BY <1>1, <1>3, <1>4
<1> QED BY <1>1, <1>3, <1>5 DEF BookedAfter

LEMMA SaveFacts ==
    ASSUME IInv, NEW it \in Intent, SaveIntent(it)
    PROVE  /\ ctx' \in CtxType /\ ctx'.intent = it /\ ctx'.oid = ctx.oid /\ ctx'.price = ctx.price
           /\ ctx'.state = ctx.state /\ ctx'.requested = ctx.requested
           /\ open' = open /\ stops' \in [Slots -> StopType] /\ ShrunkAfter(ctx')
<1> DEFINE c == [ctx EXCEPT !.intent = it]
<1>1. /\ c \in CtxType /\ c.intent = it /\ c.oid = ctx.oid /\ c.price = ctx.price
      /\ c.state = ctx.state /\ c.requested = ctx.requested
  BY Basics DEF CtxType
<1>2. Persist(c)
  BY DEF SaveIntent
<1> HIDE DEF c
<1> QED BY <1>1, <1>2, PersistBook

LEMMA ClearFacts ==
    ASSUME IInv, Persist([ctx EXCEPT !.intent = NoIntent, !.oid = NoId])
    PROVE  /\ ctx' \in CtxType /\ ctx'.intent = NoIntent /\ ctx'.oid = NoId /\ ctx'.price = ctx.price
           /\ ctx'.state = ctx.state /\ ctx'.requested = ctx.requested
           /\ open' = open /\ stops' \in [Slots -> StopType] /\ ShrunkAfter(ctx')
<1> DEFINE c == [ctx EXCEPT !.intent = NoIntent, !.oid = NoId]
<1>1. /\ c \in CtxType /\ c.intent = NoIntent /\ c.oid = NoId /\ c.price = ctx.price
      /\ c.state = ctx.state /\ c.requested = ctx.requested
  BY Basics DEF CtxType
<1>2. Persist(c)
  OBVIOUS
<1> HIDE DEF c
<1> QED BY <1>1, <1>2, PersistBook

LEMMA RecordFacts ==
    ASSUME IInv, NEW o \in Live, NEW r \in Prices, Persist(Recorded(o, r))
    PROVE  /\ o \in Slots /\ stops[o].price \in Prices
           /\ ctx' \in CtxType /\ ctx'.intent = NoIntent /\ ctx'.oid = o /\ ctx'.price = stops[o].price
           /\ ctx'.state = ctx.state
           /\ open' = open /\ stops' \in [Slots -> StopType] /\ ShrunkAfter(ctx')
<1> DEFINE c == [ctx EXCEPT !.price = stops[o].price, !.requested = r, !.oid = o, !.intent = NoIntent]
<1>1. o \in Slots /\ stops[o].st = "live"
  BY Basics DEF Live
<1>2. stops[o].price \in Prices
  BY <1>1 DEF IInv, Fits, BookFits
<1>3. o \in StopIds \cup {NoId, Foreign}
  BY <1>1 DEF Slots
<1>4. /\ c \in CtxType /\ c.intent = NoIntent /\ c.oid = o /\ c.price = stops[o].price
      /\ c.state = ctx.state
  BY <1>2, <1>3, Basics DEF CtxType
<1>5. Persist(c)
  BY DEF Recorded
<1> HIDE DEF c
<1> QED BY <1>1, <1>2, <1>4, <1>5, PersistBook

(* The intents that the handlers save.                                     *)
LEMMA CountedFacts ==
    ASSUME IInv
    PROVE  /\ counted \in Intent /\ counted.id = ctx.intent.id /\ counted.old = ctx.intent.old
           /\ counted.price = ctx.intent.price /\ counted.requested = ctx.intent.requested
           /\ counted.stage = ctx.intent.stage /\ counted.sentAge = ctx.intent.sentAge
<1> DEFINE n == IF ctx.intent.nf < 2 THEN ctx.intent.nf + 1 ELSE 2
           a == IF ctx.intent.nf = 0 THEN 0 ELSE ctx.intent.nfAge
<1>1. n \in 0 .. 2 /\ a \in 0 .. Grace
  BY Fields, Basics
<1>2. counted = [ctx.intent EXCEPT !.nf = n, !.nfAge = a]
  BY DEF counted
<1> HIDE DEF n, a
<1> QED BY <1>1, <1>2, Basics DEF Intent

LEMMA ResetFacts ==
    ASSUME IInv, NEW it, it = [ctx.intent EXCEPT !.nf = 0, !.nfAge = 0]
    PROVE  /\ it \in Intent /\ it.id = ctx.intent.id /\ it.old = ctx.intent.old
           /\ it.price = ctx.intent.price /\ it.requested = ctx.intent.requested
           /\ it.stage = ctx.intent.stage /\ it.sentAge = ctx.intent.sentAge
<1> DEFINE e == [ctx.intent EXCEPT !.nf = 0, !.nfAge = 0]
<1>1. /\ e \in Intent /\ e.id = ctx.intent.id /\ e.old = ctx.intent.old
      /\ e.price = ctx.intent.price /\ e.requested = ctx.intent.requested
      /\ e.stage = ctx.intent.stage /\ e.sentAge = ctx.intent.sentAge
  <2>1. ctx.intent \in Intent /\ 0 \in 0 .. 2 /\ 0 \in 0 .. Grace
    BY Basics
  <2> QED BY <2>1 DEF Intent
<1> QED BY <1>1

LEMMA RenewedFacts ==
    ASSUME IInv, NEW it \in Intent, NEW p \in Prices, NEW r \in Prices,
           NEW n, n = Renewed(it, p, r)
    PROVE  /\ n \in Intent /\ n.id = Fresh /\ n.old = NoId /\ n.price = p /\ n.requested = r
           /\ n.stage = "PLANNED" /\ n.sentAge = 0
<1>1. Fresh \in StopIds
  BY FreshFacts
<1> DEFINE e == [it EXCEPT !.stage = "PLANNED", !.id = Fresh, !.price = p, !.requested = r,
                           !.old = NoId, !.code = "", !.nf = 0, !.nfAge = 0, !.sentAge = 0]
<1>2. /\ e \in Intent /\ e.id = Fresh /\ e.old = NoId /\ e.price = p /\ e.requested = r
      /\ e.stage = "PLANNED" /\ e.sentAge = 0
  <2>1. NoId \in StopIds \cup {NoId, Foreign} /\ 0 \in 0 .. 2 /\ 0 \in 0 .. Grace
    BY Basics
  <2> QED BY <1>1, <2>1 DEF Intent
<1> HIDE DEF e
<1>3. n = e
  BY DEF Renewed, e
<1> QED BY <1>2, <1>3


-----------------------------------------------------------------------------
(* The ways in which a step changes the context and the book.              *)
Kinds ==
    /\ ctx \in CtxType /\ stops \in [Slots -> StopType]
    /\ (ctx.intent.stage = "NONE") = (ctx.intent.id = NoId)

\* The context keeps its names, the book its orders.
SteadyAfter ==
    /\ ctx' \in CtxType /\ stops' \in [Slots -> StopType]
    /\ ctx'.oid = ctx.oid /\ ctx'.price = ctx.price /\ ctx'.state = ctx.state
    /\ ctx'.intent.id = ctx.intent.id /\ ctx'.intent.old = ctx.intent.old
    /\ ctx'.intent.price = ctx.intent.price /\ ctx'.intent.requested = ctx.intent.requested
    /\ ~ pending => ctx'.intent = ctx.intent
    /\ pending => ctx'.intent.stage # "NONE"
    /\ \A i \in Slots : /\ stops'[i].st = stops[i].st
                        /\ stops[i].st # "none" => stops'[i].price = stops[i].price

\* Where the handler may go, with the orders that may still trigger.
GateAfter ==
    /\ pc' \in {"submit", "send", "clear", "mark"} => MayTrigger = {}
    /\ pc' = "clean" => \A i \in MayTrigger : i \in {ctx.oid, ctx.intent.id} /\ stops[i].st = "live"
    /\ ctx.state = "OPEN" \/ pc' = "idle"

StageAfter ==
    \A i \in MayTrigger :
        /\ ctx'.intent.stage = "PLANNED" => i = ctx.intent.old
        /\ ctx'.intent.stage \in Sent => i = ctx.intent.id
        /\ ctx'.intent.stage # "REJECTED"
        /\ stops[i].st = "flying" => ctx'.intent.stage \in Sent /\ ctx'.intent.sentAge = 0

LEMMA SteadyKeep ==
    ASSUME IInv, ctx' = ctx, stops' = stops
    PROVE  SteadyAfter /\ StageAfter
<1>1. SteadyAfter
  BY Basics DEF SteadyAfter, pending
<1>2. \A i \in MayTrigger : i \in StopIds /\ (stops[i].st = "flying" => ctx.intent.stage \in Sent /\ ctx.intent.sentAge = 0)
  BY DEF IInv, Fits, Flights, MayTrigger
<1> QED BY <1>1, <1>2 DEF StageAfter, IInv, Fits, Holders

LEMMA SteadySave ==
    ASSUME IInv, NEW it \in Intent, SaveIntent(it), pending, it.stage # "NONE",
           it.id = ctx.intent.id, it.old = ctx.intent.old,
           it.price = ctx.intent.price, it.requested = ctx.intent.requested
    PROVE  SteadyAfter
<1>1. /\ ctx' \in CtxType /\ ctx'.intent = it /\ ctx'.oid = ctx.oid /\ ctx'.price = ctx.price
      /\ ctx'.state = ctx.state /\ stops' \in [Slots -> StopType] /\ ShrunkAfter(ctx')
  BY SaveFacts
<1>2. ASSUME NEW i \in Slots
      PROVE  stops'[i].st = stops[i].st /\ (stops[i].st # "none" => stops'[i].price = stops[i].price)
  <2>1. i \in StopIds \/ i = Foreign
    BY DEF Slots
  <2>2. stops[i].st # "none" => i \in {Foreign, ctx.oid, ctx.intent.id} \/ stops[i].st = "fired"
    BY <2>1 DEF IInv, Fits, BookFits
  <2> QED BY <1>1, <2>2 DEF ShrunkAfter, Alive
<1> QED BY <1>1, <1>2 DEF SteadyAfter

LEMMA SteadyFits ==
    ASSUME IInv, SteadyAfter, HandlerFits', GateAfter, StageAfter
    PROVE  Kinds' /\ Fits'
<1>1. /\ (pending' <=> pending) /\ (~ pending => ctx'.intent = NoIntent)
      /\ (ctx'.intent.stage = "NONE") = (ctx'.intent.id = NoId)
  BY Basics DEF SteadyAfter, pending, IInv, Fits, IntentFits
<1>2. Kinds'
  BY <1>1 DEF Kinds, SteadyAfter
<1>3. MayTrigger' = MayTrigger
  BY Basics DEF MayTrigger, SteadyAfter
<1>4. IntentFits'
  BY <1>1 DEF IntentFits, SteadyAfter, GateAfter, IInv, Fits
<1>5. BookFits'
  <2>1. stops'[Foreign].st = stops[Foreign].st
    BY Basics DEF SteadyAfter
  <2>2. \A i \in Slots : stops'[i].st # "none" => stops'[i].price \in Prices
    BY DEF SteadyAfter, IInv, Fits, BookFits
  <2>3. \A i \in StopIds : stops'[i].st # "none" => i \in {ctx'.oid, ctx'.intent.id} \/ stops'[i].st = "fired"
    BY Basics DEF SteadyAfter, IInv, Fits, BookFits
  <2>4. /\ \A i, j \in Slots : stops'[i].st = "live" /\ stops'[j].st = "live" => i = j
        /\ \A i, j \in Slots : stops'[i].st = "fired" /\ stops'[j].st = "fired" => i = j
    BY DEF SteadyAfter, IInv, Fits, BookFits
  <2> QED BY <2>1, <2>2, <2>3, <2>4 DEF SteadyAfter, IInv, Fits, BookFits
<1>6. Flights'
  <2> SUFFICES ASSUME NEW i \in StopIds, stops'[i].st = "flying"
               PROVE  /\ ctx'.intent.stage \in Sent /\ i = ctx'.intent.id /\ ctx'.intent.sentAge = 0
                      /\ pc' # "clean"
    BY DEF Flights
  <2>1. i \in MayTrigger /\ stops[i].st = "flying" /\ i = ctx.intent.id
    BY Basics DEF SteadyAfter, MayTrigger, IInv, Fits, Flights
  <2> QED BY <2>1 DEF StageAfter, GateAfter, SteadyAfter
<1>7. Holders'
  <2> SUFFICES ASSUME NEW i \in MayTrigger
               PROVE  /\ ~ pending' => i = ctx'.oid
                      /\ ctx'.intent.stage = "PLANNED" => i = ctx'.intent.old
                      /\ ctx'.intent.stage \in Sent => i = ctx'.intent.id
                      /\ ctx'.intent.stage # "REJECTED"
                      /\ pc' \notin {"submit", "send", "clear", "mark"}
                      /\ pc' = "clean" => i \in {ctx'.oid, ctx'.intent.id}
                      /\ ctx'.state = "OPEN"
    BY <1>3 DEF Holders
  <2>1. ctx.state = "OPEN" /\ (~ pending => i = ctx.oid)
    BY DEF IInv, Fits, Holders
  <2> QED BY <1>1, <2>1 DEF StageAfter, GateAfter, SteadyAfter
<1>8. OldIsLooser'
  <2> SUFFICES ASSUME pending', ctx'.intent.old # NoId, stops'[ctx'.intent.old].st = "live"
               PROVE  /\ ctx'.intent.price >= stops'[ctx'.intent.old].price
                      /\ ctx'.intent.old = Foreign => stops'[ctx'.intent.old].price = ctx'.price
    BY DEF OldIsLooser
  <2>1. ctx.intent.old \in Slots
    BY Fields, Basics DEF SteadyAfter, Slots
  <2> QED BY <1>1, <2>1 DEF SteadyAfter, IInv, Fits, OldIsLooser
<1>9. RecordIsReal'
  <2> SUFFICES ASSUME ctx'.oid # NoId
               PROVE  stops'[ctx'.oid].st \in {"live", "fired", "ended"} /\ stops'[ctx'.oid].price = ctx'.price
    BY DEF RecordIsReal
  <2>1. ctx.oid \in Slots
    BY Fields, Basics DEF SteadyAfter, Slots
  <2> QED BY <2>1 DEF SteadyAfter, IInv, Fits, RecordIsReal
<1> QED BY <1>2, <1>4, <1>5, <1>6, <1>7, <1>8, <1>9 DEF Fits

(* A step that leaves context and book alone.                              *)
LEMMA KeepFits ==
    ASSUME IInv, ctx' = ctx, stops' = stops, HandlerFits', GateAfter
    PROVE  Kinds' /\ Fits'
BY SteadyKeep, SteadyFits

(* The intent is dropped when no order may trigger.                        *)
LEMMA DropFits ==
    ASSUME IInv, ctx' \in CtxType, stops' \in [Slots -> StopType], ShrunkAfter(ctx'),
           ctx'.intent = NoIntent, ctx'.oid \in {ctx.oid, NoId}, ctx'.price = ctx.price,
           ctx'.state = "OPEN" \/ (pc' = "idle" /\ ctx'.oid = NoId), MayTrigger = {}, HandlerFits'
    PROVE  Kinds' /\ Fits'
<1>1. Kinds' /\ ~ pending'
  BY Basics DEF Kinds, pending
<1>2. \A i \in StopIds : stops[i].st \notin {"flying", "live"}
  BY DEF MayTrigger
<1>3. \A i \in Slots : stops'[i] = stops[i] \/ (stops'[i].st = "none" /\ i # Foreign)
  BY DEF ShrunkAfter
<1>4. MayTrigger' = {}
  BY <1>2, <1>3, Basics DEF MayTrigger
<1>5. IntentFits'
  BY <1>1 DEF IntentFits
<1>6. BookFits'
  <2>1. \A i \in StopIds : stops'[i].st # "none" => i = ctx'.oid \/ stops'[i].st = "fired"
    BY <1>2, Basics DEF ShrunkAfter, Alive
  <2>2. /\ \A i \in Slots : stops[i].st # "none" => stops[i].price \in Prices
        /\ \A i, j \in Slots : stops[i].st = "live" /\ stops[j].st = "live" => i = j
        /\ \A i, j \in Slots : stops[i].st = "fired" /\ stops[j].st = "fired" => i = j
        /\ stops[Foreign].st # "flying"
    BY DEF IInv, Fits, BookFits
  <2>3. /\ \A i \in Slots : stops'[i].st # "none" => stops'[i].price \in Prices
        /\ \A i, j \in Slots : stops'[i].st = "live" /\ stops'[j].st = "live" => i = j
        /\ \A i, j \in Slots : stops'[i].st = "fired" /\ stops'[j].st = "fired" => i = j
        /\ stops'[Foreign].st # "flying"
    BY <1>3, <2>2, Basics
  <2> QED BY <2>1, <2>3, Basics DEF BookFits
<1>7. Flights' /\ Holders' /\ OldIsLooser'
  BY <1>1, <1>4 DEF Flights, Holders, OldIsLooser, MayTrigger
<1>8. RecordIsReal'
  <2> SUFFICES ASSUME ctx'.oid # NoId
               PROVE  stops'[ctx'.oid].st \in {"live", "fired", "ended"} /\ stops'[ctx'.oid].price = ctx'.price
    BY DEF RecordIsReal
  <2>1. ctx'.oid = ctx.oid /\ ctx.oid \in Slots
    BY Fields, Basics DEF Slots
  <2>2. stops'[ctx.oid] = stops[ctx.oid]
    BY <2>1 DEF ShrunkAfter
  <2> QED BY <2>1, <2>2 DEF IInv, Fits, RecordIsReal
<1> QED BY <1>1, <1>5, <1>6, <1>7, <1>8 DEF Fits

(* A live stop is recorded, the one order that may trigger.                *)
LEMMA RecordFits ==
    ASSUME IInv, NEW o \in Live, NEW r \in Prices, Persist(Recorded(o, r)),
           \A i \in MayTrigger : i = o, pc' = "idle", ctx.state = "OPEN"
    PROVE  Kinds' /\ Fits'
<1>1. /\ o \in Slots /\ stops[o].price \in Prices /\ stops[o].st = "live"
      /\ ctx' \in CtxType /\ ctx'.intent = NoIntent /\ ctx'.oid = o /\ ctx'.price = stops[o].price
      /\ ctx'.state = ctx.state
      /\ stops' \in [Slots -> StopType] /\ ShrunkAfter(ctx')
  BY RecordFacts DEF Live
<1>2. Kinds' /\ ~ pending'
  BY <1>1, Basics DEF Kinds, pending
<1>3. \A i \in Slots : stops'[i] = stops[i] \/ (stops'[i].st = "none" /\ i # Foreign)
  BY <1>1 DEF ShrunkAfter
<1>4. /\ \A i \in MayTrigger' : i = o /\ i \in MayTrigger
      /\ \A i \in StopIds : stops'[i].st # "flying"
  <2>1. \A i \in MayTrigger' : i \in MayTrigger
    BY <1>3, Basics DEF MayTrigger
  <2>2. \A i \in StopIds : stops'[i].st # "flying"
    BY <1>1, <1>3, Basics DEF MayTrigger
  <2> QED BY <2>1, <2>2
<1>5. stops'[o] = stops[o]
  BY <1>1 DEF ShrunkAfter, Alive
<1>6. IntentFits' /\ HandlerFits'
  BY <1>1, <1>2 DEF IntentFits, HandlerFits
<1>7. BookFits'
  <2>1. \A i \in StopIds : stops'[i].st # "none" => i = o \/ stops'[i].st = "fired"
    <3> SUFFICES ASSUME NEW i \in StopIds, stops'[i].st # "none", i # o
                 PROVE  stops'[i].st = "fired"
      OBVIOUS
    <3>1. i \notin MayTrigger /\ i \in Slots
      BY Basics
    <3>2. stops'[i] = stops[i] /\ stops[i].st \in Alive \cup {"none"}
      BY <1>1, <3>1, <1>3, Basics DEF ShrunkAfter, IInv, Fits, IntentFits, MayTrigger
    <3> QED BY <3>1, <3>2 DEF MayTrigger, Alive
  <2>2. /\ \A i \in Slots : stops[i].st # "none" => stops[i].price \in Prices
        /\ \A i, j \in Slots : stops[i].st = "live" /\ stops[j].st = "live" => i = j
        /\ \A i, j \in Slots : stops[i].st = "fired" /\ stops[j].st = "fired" => i = j
        /\ stops[Foreign].st # "flying"
    BY DEF IInv, Fits, BookFits
  <2>3. /\ \A i \in Slots : stops'[i].st # "none" => stops'[i].price \in Prices
        /\ \A i, j \in Slots : stops'[i].st = "live" /\ stops'[j].st = "live" => i = j
        /\ \A i, j \in Slots : stops'[i].st = "fired" /\ stops'[j].st = "fired" => i = j
        /\ stops'[Foreign].st # "flying"
    BY <1>3, <2>2, Basics
  <2> QED BY <1>1, <2>1, <2>3, Basics DEF BookFits
<1>8. Flights' /\ Holders' /\ OldIsLooser' /\ RecordIsReal'
  <2>1. Flights'
    BY <1>4 DEF Flights
  <2>2. Holders'
    BY <1>1, <1>2, <1>4, Basics DEF Holders, Sent
  <2>3. OldIsLooser' /\ RecordIsReal'
    BY <1>1, <1>2, <1>5 DEF OldIsLooser, RecordIsReal
  <2> QED BY <2>1, <2>2, <2>3
<1> QED BY <1>2, <1>6, <1>7, <1>8 DEF Fits

(* A new intent is planned, in the place of an old stop or of none.        *)
LEMMA RenewFits ==
    ASSUME IInv, NEW n \in Intent, SaveIntent(n), ctx.state = "OPEN",
           n.stage = "PLANNED", n.id = Fresh, n.price \in Prices, n.requested \in Prices,
           n.old \in {NoId, Foreign, ctx.oid}, HandlerFits',
           \A i \in MayTrigger : i = n.old /\ stops[i].st = "live",
           n.old # NoId => /\ stops[n.old].st = "live" /\ n.price >= stops[n.old].price
                           /\ n.old = Foreign => stops[n.old].price = ctx.price,
           pc' \in {"submit", "send", "clear", "mark"} => MayTrigger = {}, pc' # "clean"
    PROVE  Kinds' /\ Fits'
<1>1. /\ ctx' \in CtxType /\ ctx'.intent = n /\ ctx'.oid = ctx.oid /\ ctx'.price = ctx.price
      /\ ctx'.state = "OPEN" /\ stops' \in [Slots -> StopType] /\ ShrunkAfter(ctx')
  BY SaveFacts
<1>2. Fresh \in StopIds /\ Fresh \notin {ctx.oid, ctx.intent.id, ctx.intent.old}
  BY FreshFacts
<1>3. Kinds' /\ pending'
  BY <1>1, <1>2, Basics DEF Kinds, pending
<1>4. \A i \in Slots : stops'[i] = stops[i] \/ (stops'[i].st = "none" /\ i # Foreign)
  BY <1>1 DEF ShrunkAfter
<1>5. /\ \A i \in MayTrigger' : i \in MayTrigger
      /\ \A i \in StopIds : stops'[i].st # "flying"
  <2>1. \A i \in MayTrigger' : i \in MayTrigger
    BY <1>4, Basics DEF MayTrigger
  <2>2. \A i \in StopIds : stops'[i].st # "flying"
    BY <1>4, Basics DEF MayTrigger
  <2> QED BY <2>1, <2>2
<1>6. IntentFits'
  BY <1>1, <1>2, <1>3 DEF IntentFits
<1>7. BookFits'
  <2>1. \A i \in StopIds : stops'[i].st # "none" => i \in {ctx'.oid, ctx'.intent.id} \/ stops'[i].st = "fired"
    <3> SUFFICES ASSUME NEW i \in StopIds, stops'[i].st # "none", i # ctx.oid, i # n.id
                 PROVE  stops'[i].st = "fired"
      BY <1>1
    <3>1. i \in Slots /\ i # n.old /\ i # Foreign
      BY Basics
    <3>2. stops'[i] = stops[i] /\ stops[i].st \in Alive
      BY <1>1, <3>1 DEF ShrunkAfter
    <3>3. i \notin MayTrigger
      BY <3>1
    <3> QED BY <3>2, <3>3 DEF MayTrigger, Alive
  <2>2. /\ \A i \in Slots : stops[i].st # "none" => stops[i].price \in Prices
        /\ \A i, j \in Slots : stops[i].st = "live" /\ stops[j].st = "live" => i = j
        /\ \A i, j \in Slots : stops[i].st = "fired" /\ stops[j].st = "fired" => i = j
        /\ stops[Foreign].st # "flying"
    BY DEF IInv, Fits, BookFits
  <2>3. /\ \A i \in Slots : stops'[i].st # "none" => stops'[i].price \in Prices
        /\ \A i, j \in Slots : stops'[i].st = "live" /\ stops'[j].st = "live" => i = j
        /\ \A i, j \in Slots : stops'[i].st = "fired" /\ stops'[j].st = "fired" => i = j
        /\ stops'[Foreign].st # "flying"
    BY <1>4, <2>2, Basics
  <2>4. ctx'.intent.old = Foreign => stops'[Foreign].st # "none"
    BY <1>1, Basics DEF ShrunkAfter
  <2> QED BY <2>1, <2>3, <2>4 DEF BookFits
<1>8. Flights' /\ Holders'
  BY <1>1, <1>3, <1>5 DEF Flights, Holders, Sent
<1>9. OldIsLooser'
  <2> SUFFICES ASSUME n.old # NoId, stops'[n.old].st = "live"
               PROVE  /\ n.price >= stops'[n.old].price
                      /\ n.old = Foreign => stops'[n.old].price = ctx.price
    BY <1>1 DEF OldIsLooser
  <2>1. n.old \in Slots
    BY Fields, Basics DEF Slots
  <2>2. stops'[n.old] = stops[n.old]
    BY <1>4, <2>1
  <2> QED BY <2>2
<1>10. RecordIsReal'
  <2> SUFFICES ASSUME ctx.oid # NoId
               PROVE  stops'[ctx.oid].st \in {"live", "fired", "ended"} /\ stops'[ctx.oid].price = ctx.price
    BY <1>1 DEF RecordIsReal
  <2>1. ctx.oid \in Slots
    BY Fields, Basics DEF Slots
  <2>2. stops'[ctx.oid] = stops[ctx.oid]
    BY <1>1, <2>1 DEF ShrunkAfter
  <2> QED BY <2>2 DEF IInv, Fits, RecordIsReal
<1> QED BY <1>3, <1>6, <1>7, <1>8, <1>9, <1>10 DEF Fits

(* One order of the book moves on, the context stays.                      *)
LEMMA MoveFits ==
    ASSUME IInv, ctx' = ctx, NEW k \in Slots, NEW s \in Statuses, Book(k, s), HandlerFits',
           \/ stops[k].st \in {"flying", "live", "fired"} /\ s = "ended"
           \/ stops[k].st = "flying" /\ s = "live" /\ Live = {}
           \/ stops[k].st = "flying" /\ s \in {"none", "refused"}
           \/ stops[k].st = "live" /\ s = "fired" /\ \A i \in Slots : stops[i].st # "fired",
           k = Foreign => s # "none",
           pc' \in {"submit", "send", "clear", "mark"} => \A i \in MayTrigger : i = k /\ s = "ended",
           pc' = "clean" => pc = "clean", ctx.state = "OPEN" \/ pc' = "idle"
    PROVE  Kinds' /\ Fits'
<1>1. stops' \in [Slots -> StopType] /\ BookedAfter(k, s)
  BY BookBook
<1>2. Kinds' /\ (pending' <=> pending) /\ IntentFits'
  BY <1>1, Basics DEF Kinds, pending, IInv, Fits, IntentFits
<1>3. ASSUME NEW i \in Slots
      PROVE  /\ stops'[i].st # "none" => /\ stops'[i].st = IF i = k THEN s ELSE stops[i].st
                                         /\ stops'[i].price = stops[i].price /\ stops[i].st # "none"
             /\ stops'[i].st \in {"live", "flying"} => stops[i].st \in {"live", "flying"}
             /\ stops'[i].st = "flying" => stops[i].st = "flying" /\ i # k
             /\ i \in {Foreign, ctx.oid, ctx.intent.id, ctx.intent.old} =>
                    stops'[i].st = (IF i = k THEN s ELSE stops[i].st) /\ stops'[i].price = stops[i].price
  BY <1>1 DEF BookedAfter, Alive
<1>4. MayTrigger' \subseteq MayTrigger
  BY <1>3, Basics DEF MayTrigger
<1>5. k \in StopIds /\ stops[k].st = "flying" => k # ctx.oid /\ k # ctx.intent.old
  BY Basics DEF IInv, Fits, Flights, IntentFits, pending, Sent
<1>6. BookFits'
  <2>1. \A i \in Slots : stops'[i].st # "none" => stops'[i].price \in Prices
    BY <1>3 DEF IInv, Fits, BookFits
  <2>2. \A i, j \in Slots : stops'[i].st = "live" /\ stops'[j].st = "live" => i = j
    <3>1. CASE s = "live"
      <4>1. \A i \in Slots : stops[i].st # "live"
        BY <3>1, Basics DEF Live
      <4> QED BY <1>3, <4>1
    <3>2. CASE s # "live"
      BY <1>3, <3>2 DEF IInv, Fits, BookFits
    <3> QED BY <3>1, <3>2
  <2>3. \A i, j \in Slots : stops'[i].st = "fired" /\ stops'[j].st = "fired" => i = j
    <3>1. CASE s = "fired"
      BY <1>3, <3>1
    <3>2. CASE s # "fired"
      BY <1>3, <3>2 DEF IInv, Fits, BookFits
    <3> QED BY <3>1, <3>2
  <2>4. stops'[Foreign].st # "flying" /\ (ctx.intent.old = Foreign => stops'[Foreign].st # "none")
    BY <1>3, Basics DEF IInv, Fits, BookFits
  <2>5. \A i \in StopIds : stops'[i].st # "none" => i \in {ctx.oid, ctx.intent.id} \/ stops'[i].st = "fired"
    <3> SUFFICES ASSUME NEW i \in StopIds, stops'[i].st # "none", i \notin {ctx.oid, ctx.intent.id}
                 PROVE  stops'[i].st = "fired"
      OBVIOUS
    <3>1. i \in Slots /\ stops[i].st # "none"
      BY <1>3, Basics
    <3>2. stops[i].st = "fired" /\ i # Foreign /\ i # ctx.intent.old
      BY <3>1, Basics DEF IInv, Fits, BookFits, IntentFits, pending
    <3> QED BY <1>1, <3>1, <3>2 DEF BookedAfter, Alive
  <2> QED BY <2>1, <2>2, <2>3, <2>4, <2>5 DEF BookFits
<1>7. Flights'
  BY <1>3, Basics DEF Flights, IInv, Fits
<1>8. Holders'
  <2> SUFFICES ASSUME NEW i \in MayTrigger'
               PROVE  pc' \notin {"submit", "send", "clear", "mark"}
                      /\ (pc' = "clean" => i \in {ctx.oid, ctx.intent.id})
    BY <1>2, <1>4 DEF Holders, IInv, Fits
  <2>1. i \in MayTrigger
    BY <1>4
  <2>2. i = k => s # "ended"
    BY <1>3, Basics DEF MayTrigger
  <2> QED BY <2>1, <2>2 DEF IInv, Fits, Holders
<1>9. OldIsLooser'
  <2> SUFFICES ASSUME pending, ctx.intent.old # NoId, stops'[ctx.intent.old].st = "live"
               PROVE  stops[ctx.intent.old].st = "live"
                      /\ stops'[ctx.intent.old].price = stops[ctx.intent.old].price
    BY <1>2 DEF OldIsLooser, IInv, Fits
  <2>1. ctx.intent.old \in Slots
    BY Fields, Basics DEF Slots
  <2>2. stops[Foreign].st # "flying" /\ (ctx.intent.old \in StopIds \/ ctx.intent.old = Foreign)
    BY <2>1 DEF IInv, Fits, BookFits, Slots
  <2> QED BY <1>3, <1>5, <2>1, <2>2
<1>10. RecordIsReal'
  <2> SUFFICES ASSUME ctx.oid # NoId
               PROVE  stops'[ctx.oid].st \in {"live", "fired", "ended"} /\ stops'[ctx.oid].price = ctx.price
    BY DEF RecordIsReal
  <2>1. ctx.oid \in Slots
    BY Fields, Basics DEF Slots
  <2>2. stops[ctx.oid].st \in {"live", "fired", "ended"} /\ stops[ctx.oid].price = ctx.price
    BY DEF IInv, Fits, RecordIsReal
  <2> QED BY <1>3, <2>1, <2>2
<1> QED BY <1>2, <1>6, <1>7, <1>8, <1>9, <1>10 DEF Fits


-----------------------------------------------------------------------------
(* Steps that several handlers share.                                      *)
LEMMA PersistSame ==
    ASSUME IInv, Persist(ctx), pc' = "idle"
    PROVE  Kinds' /\ Fits'
<1>1. ctx' = ctx /\ stops' \in [Slots -> StopType] /\ ShrunkAfter(ctx)
  BY PersistBook
<1>2. ASSUME NEW i \in Slots
      PROVE  stops'[i].st = stops[i].st /\ (stops[i].st # "none" => stops'[i].price = stops[i].price)
  <2>1. i \in StopIds \/ i = Foreign
    BY DEF Slots
  <2>2. stops[i].st # "none" => i \in {Foreign, ctx.oid, ctx.intent.id} \/ stops[i].st = "fired"
    BY <2>1 DEF IInv, Fits, BookFits
  <2> QED BY <1>1, <2>2 DEF ShrunkAfter, Alive
<1>3. SteadyAfter
  BY <1>1, <1>2, Basics DEF SteadyAfter, pending
<1>4. StageAfter
  <2>1. \A i \in MayTrigger : i \in StopIds /\ (stops[i].st = "flying" => ctx.intent.stage \in Sent /\ ctx.intent.sentAge = 0)
    BY DEF IInv, Fits, Flights, MayTrigger
  <2> QED BY <1>1, <2>1 DEF StageAfter, IInv, Fits, Holders
<1>5. HandlerFits' /\ GateAfter
  BY DEF HandlerFits, GateAfter
<1> QED BY <1>3, <1>4, <1>5, SteadyFits

LEMMA ClosingStep ==
    ASSUME IInv, NEW b \in BOOLEAN, Persist([ctx EXCEPT !.closing = b]), pc' = "idle"
    PROVE  Kinds' /\ Fits'
<1> DEFINE c == [ctx EXCEPT !.closing = b]
<1>1. /\ c \in CtxType /\ c.intent = ctx.intent /\ c.oid = ctx.oid /\ c.price = ctx.price
      /\ c.state = ctx.state /\ Persist(c)
  BY Basics DEF CtxType
<1> HIDE DEF c
<1>2. ctx' = c /\ stops' \in [Slots -> StopType] /\ ShrunkAfter(c)
  BY <1>1, PersistBook
<1>3. ASSUME NEW i \in Slots
      PROVE  stops'[i].st = stops[i].st /\ (stops[i].st # "none" => stops'[i].price = stops[i].price)
  <2>1. i \in StopIds \/ i = Foreign
    BY DEF Slots
  <2>2. stops[i].st # "none" => i \in {Foreign, ctx.oid, ctx.intent.id} \/ stops[i].st = "fired"
    BY <2>1 DEF IInv, Fits, BookFits
  <2> QED BY <1>1, <1>2, <2>2 DEF ShrunkAfter, Alive
<1>4. SteadyAfter
  BY <1>1, <1>2, <1>3, Basics DEF SteadyAfter, pending
<1>5. StageAfter
  <2>1. \A i \in MayTrigger : i \in StopIds /\ (stops[i].st = "flying" => ctx.intent.stage \in Sent /\ ctx.intent.sentAge = 0)
    BY DEF IInv, Fits, Flights, MayTrigger
  <2> QED BY <1>1, <1>2, <2>1 DEF StageAfter, IInv, Fits, Holders
<1>6. HandlerFits' /\ GateAfter
  BY DEF HandlerFits, GateAfter
<1> QED BY <1>4, <1>5, <1>6, SteadyFits

LEMMA ResetStep ==
    ASSUME IInv, SaveIntent([ctx.intent EXCEPT !.nf = 0, !.nfAge = 0]), pending,
           ctx.intent.stage \in Sent, ctx.state = "OPEN", pc' \in {"fallback", "idle"}
    PROVE  Kinds' /\ Fits'
<1> DEFINE it == [ctx.intent EXCEPT !.nf = 0, !.nfAge = 0]
<1>1. /\ it \in Intent /\ it.id = ctx.intent.id /\ it.old = ctx.intent.old
      /\ it.price = ctx.intent.price /\ it.requested = ctx.intent.requested
      /\ it.stage = ctx.intent.stage /\ it.sentAge = ctx.intent.sentAge
  BY ResetFacts
<1> HIDE DEF it
<1>2. SaveIntent(it)
  BY DEF it
<1>3. ctx'.intent = it /\ SteadyAfter
  BY <1>1, <1>2, SaveFacts, SteadySave DEF pending
<1>4. HandlerFits' /\ GateAfter
  BY DEF HandlerFits, GateAfter
<1>5. StageAfter
  BY <1>1, <1>3 DEF StageAfter, Sent, IInv, Fits, Holders, Flights, MayTrigger
<1> QED BY <1>3, <1>4, <1>5, SteadyFits

LEMMA CountStep ==
    ASSUME IInv, SaveIntent(counted), pending,
           ctx.intent.stage \in Sent, ctx.state = "OPEN", pc' \in {"fallback", "idle"}
    PROVE  Kinds' /\ Fits'
<1>1. /\ counted \in Intent /\ counted.id = ctx.intent.id /\ counted.old = ctx.intent.old
      /\ counted.price = ctx.intent.price /\ counted.requested = ctx.intent.requested
      /\ counted.stage = ctx.intent.stage /\ counted.sentAge = ctx.intent.sentAge
  BY CountedFacts
<1>2. ctx'.intent = counted /\ SteadyAfter
  BY <1>1, SaveFacts, SteadySave DEF pending
<1>3. HandlerFits' /\ GateAfter
  BY DEF HandlerFits, GateAfter
<1>4. StageAfter
  BY <1>1, <1>2 DEF StageAfter, Sent, IInv, Fits, Holders, Flights, MayTrigger
<1> QED BY <1>2, <1>3, <1>4, SteadyFits

(* A request whose absence is believed is no longer on its way.            *)
LEMMA GoneFacts ==
    ASSUME IInv, ctx.intent.stage \in Sent, NotFound, stopAbsenceConverged(counted)
    PROVE  MayTrigger = {}
<1> SUFFICES ASSUME NEW i \in MayTrigger PROVE FALSE
  OBVIOUS
<1>1. i = ctx.intent.id /\ i \in StopIds
  BY DEF IInv, Fits, Holders, MayTrigger
<1>2. stops[i].st = "flying"
  BY <1>1 DEF NotFound, MayTrigger
<1>3. ctx.intent.sentAge = 0
  BY <1>1, <1>2 DEF IInv, Fits, Flights
<1>4. 0 >= Grace
  BY <1>3, CountedFacts DEF stopAbsenceConverged
<1> QED BY <1>4, Basics

LEMMA RenewStep ==
    ASSUME IInv, pending, MayTrigger = {}, ctx.state = "OPEN", pc' \in {"submit", "fallback"},
           SaveIntent(Renewed(ctx.intent, ctx.intent.price, ctx.intent.requested))
    PROVE  Kinds' /\ Fits'
<1> DEFINE n == Renewed(ctx.intent, ctx.intent.price, ctx.intent.requested)
<1>1. ctx.intent.price \in Prices /\ ctx.intent.requested \in Prices
  BY DEF IInv, Fits, IntentFits
<1>0. ctx.intent \in Intent
  BY Basics
<1>2. /\ n \in Intent /\ n.id = Fresh /\ n.old = NoId /\ n.stage = "PLANNED"
      /\ n.price \in Prices /\ n.requested \in Prices
  BY <1>0, <1>1, RenewedFacts
<1> HIDE DEF n
<1>3. SaveIntent(n)
  BY DEF n
<1>4. ctx'.intent = n
  BY <1>2, <1>3, SaveFacts
<1>5. HandlerFits'
  BY <1>2, <1>4 DEF HandlerFits
<1> QED BY <1>2, <1>3, <1>5, RenewFits

LEMMA OpenIsBoolean == IInv => open \in BOOLEAN
BY DEF IInv, TypeOK

(* The handler stays where it is.                                          *)
LEMMA SameHandler ==
    ASSUME IInv, ctx' = ctx, pc' = pc, target' = target
    PROVE  HandlerFits'
BY DEF IInv, Fits, HandlerFits, pending

LEMMA SamePlace ==
    ASSUME IInv, pc' = pc
    PROVE  /\ GateAfter /\ (ctx.state = "OPEN" \/ pc' = "idle")
           /\ pc' \in {"submit", "send", "clear", "mark"} => MayTrigger = {}
           /\ pc' = "clean" => pc = "clean"
<1>1. ctx.state = "OPEN" \/ pc' = "idle"
  BY Fields DEF IInv, Fits, IntentFits
<1>2. pc' \in {"submit", "send", "clear", "mark"} => MayTrigger = {}
  BY DEF IInv, Fits, Holders
<1>3. pc = "clean" => \A i \in MayTrigger : i \in {ctx.oid, ctx.intent.id} /\ stops[i].st = "live"
  BY DEF IInv, Fits, Holders, Flights, MayTrigger
<1> QED BY <1>1, <1>2, <1>3 DEF GateAfter

LEMMA SendStep ==
    ASSUME IInv, Send
    PROVE  Kinds' /\ Fits'
<1> DEFINE k == ctx.intent.id
           o == [price |-> ctx.intent.price, st |-> "flying"]
<1>1. /\ pc = "send" /\ ctx.intent.stage = "SUBMITTING" /\ pending /\ ctx.intent.sentAge = 0
      /\ MayTrigger = {} /\ ctx.state = "OPEN" /\ k \in StopIds /\ k # ctx.oid /\ ctx.intent.price \in Prices
      /\ k # ctx.intent.old
  BY Fields, Basics DEF Send, IInv, Fits, HandlerFits, IntentFits, Holders, pending
<1>2. ctx' = ctx /\ pc' = "answer" /\ stops' = [stops EXCEPT ![k] = o]
  BY DEF Send, Goto
<1>3. o \in StopType /\ o.st = "flying" /\ o.price \in Prices
  BY <1>1 DEF StopType, Statuses
<1> HIDE DEF k, o
<1>4. k \in Slots /\ k # Foreign
  BY <1>1, Basics
<1>5. /\ stops' \in [Slots -> StopType] /\ stops'[k] = o
      /\ \A i \in Slots : i # k => stops'[i] = stops[i]
  BY <1>2, <1>3, <1>4, Basics
<1>6. Kinds' /\ IntentFits' /\ HandlerFits'
  BY <1>1, <1>2, <1>5, Basics DEF Kinds, IInv, Fits, IntentFits, HandlerFits, pending
<1>7. BookFits'
  <2>1. /\ \A i \in Slots : stops'[i].st # "none" => stops'[i].price \in Prices
        /\ \A i, j \in Slots : stops'[i].st = "live" /\ stops'[j].st = "live" => i = j
        /\ \A i, j \in Slots : stops'[i].st = "fired" /\ stops'[j].st = "fired" => i = j
    BY <1>3, <1>5 DEF IInv, Fits, BookFits
  <2>2. stops'[Foreign].st # "flying" /\ (ctx.intent.old = Foreign => stops'[Foreign].st # "none")
    BY <1>4, <1>5, Basics DEF IInv, Fits, BookFits
  <2>3. \A i \in StopIds : stops'[i].st # "none" => i \in {ctx.oid, ctx.intent.id} \/ stops'[i].st = "fired"
    BY <1>5, Basics DEF IInv, Fits, BookFits, k
  <2> QED BY <1>2, <2>1, <2>2, <2>3 DEF BookFits
<1>8. \A i \in StopIds : stops'[i].st \in {"flying", "live"} => i = k
  BY <1>1, <1>5, Basics DEF MayTrigger
<1>9. Flights' /\ Holders'
  BY <1>1, <1>2, <1>8 DEF Flights, Holders, MayTrigger, Sent, pending, k
<1>10. OldIsLooser'
  <2>1. ctx.intent.old # NoId => ctx.intent.old \in Slots
    BY Fields DEF Slots
  <2> QED BY <1>1, <1>2, <1>5, <2>1 DEF OldIsLooser, IInv, Fits, pending
<1>11. RecordIsReal'
  <2>1. ctx.oid # NoId => ctx.oid \in Slots
    BY Fields DEF Slots
  <2> QED BY <1>1, <1>2, <1>5, <2>1 DEF IInv, Fits, RecordIsReal
<1> QED BY <1>6, <1>7, <1>9, <1>10, <1>11 DEF Fits

LEMMA PlaceStep ==
    ASSUME IInv, ctx' = ctx, pc' = pc, HandlerFits', Live = {}, stops[Foreign].st = "none",
           \E p \in Prices : stops' = [stops EXCEPT ![Foreign] = [price |-> p, st |-> "live"]]
    PROVE  Kinds' /\ Fits'
<1>1. PICK p \in Prices : stops' = [stops EXCEPT ![Foreign] = [price |-> p, st |-> "live"]]
  OBVIOUS
<1> DEFINE o == [price |-> p, st |-> "live"]
<1>2. o \in StopType /\ o.st = "live" /\ o.price \in Prices
  BY DEF StopType, Statuses
<1>3. stops' = [stops EXCEPT ![Foreign] = o]
  BY <1>1
<1> HIDE DEF o
<1>4. /\ stops' \in [Slots -> StopType] /\ stops'[Foreign] = o
      /\ \A i \in Slots : i # Foreign => stops'[i] = stops[i]
  BY <1>2, <1>3, Basics
<1>5. Kinds' /\ IntentFits' /\ (pending' <=> pending)
  BY <1>4, Basics DEF Kinds, IInv, Fits, IntentFits, pending
<1>6. \A i \in StopIds : stops'[i] = stops[i]
  BY <1>4, Basics
<1>7. BookFits'
  <2>1. \A i \in Slots : stops[i].st # "live"
    BY Basics DEF Live
  <2>2. /\ \A i \in Slots : stops'[i].st # "none" => stops'[i].price \in Prices
        /\ \A i, j \in Slots : stops'[i].st = "live" /\ stops'[j].st = "live" => i = j
        /\ \A i, j \in Slots : stops'[i].st = "fired" /\ stops'[j].st = "fired" => i = j
    BY <1>2, <1>4, <2>1 DEF IInv, Fits, BookFits
  <2> QED BY <1>2, <1>4, <1>6, <2>2 DEF IInv, Fits, BookFits
<1>8. MayTrigger' = MayTrigger
  BY <1>6 DEF MayTrigger
<1>9. Flights' /\ Holders'
  BY <1>5, <1>6, <1>8 DEF IInv, Fits, Flights, Holders
<1>10. OldIsLooser'
  <2> SUFFICES ASSUME pending, ctx.intent.old # NoId, stops'[ctx.intent.old].st = "live" PROVE FALSE
    BY <1>5 DEF OldIsLooser
  <2>1. ctx.intent.old \in Slots /\ ctx.intent.old # Foreign
    BY Fields DEF Slots, IInv, Fits, BookFits
  <2>2. ctx.intent.old \in Live
    BY <1>4, <2>1, Basics DEF Live
  <2> QED BY <2>2
<1>11. RecordIsReal'
  <2>1. ctx.oid # NoId => ctx.oid \in Slots
    BY Fields DEF Slots
  <2>2. ctx.oid # Foreign
    BY Basics DEF IInv, Fits, RecordIsReal
  <2> QED BY <1>4, <2>1, <2>2 DEF IInv, Fits, RecordIsReal
<1> QED BY <1>5, <1>7, <1>9, <1>10, <1>11 DEF Fits

LEMMA MarkStep ==
    ASSUME IInv, MarkClosed
    PROVE  Kinds' /\ Fits'
<1> DEFINE c == [ctx EXCEPT !.state = "CLOSED", !.closing = FALSE]
<1>1. /\ pc = "mark" /\ pc' = "idle" /\ ~ pending /\ ctx.oid = NoId /\ ctx.intent = NoIntent
      /\ MayTrigger = {}
  BY DEF MarkClosed, Goto, IInv, Fits, HandlerFits, IntentFits, Holders
<1>2. /\ c \in CtxType /\ c.intent = ctx.intent /\ c.oid = ctx.oid /\ c.price = ctx.price
  BY Basics DEF CtxType
<1>3. Persist(c)
  BY DEF MarkClosed
<1> HIDE DEF c
<1>4. /\ ctx' \in CtxType /\ ctx'.intent = NoIntent /\ ctx'.oid = NoId /\ ctx'.price = ctx.price
      /\ stops' \in [Slots -> StopType] /\ ShrunkAfter(ctx')
  BY <1>1, <1>2, <1>3, PersistBook
<1>5. HandlerFits'
  BY <1>1 DEF HandlerFits
<1> QED BY <1>1, <1>4, <1>5, DropFits

LEMMA TickStep ==
    ASSUME IInv, Tick
    PROVE  Kinds' /\ Fits'
<1> DEFINE a == Older(ctx.intent.age, Alert)
           s == Older(ctx.intent.sentAge, Grace)
           n == IF ctx.intent.nf = 0 THEN 0 ELSE Older(ctx.intent.nfAge, Grace)
           it == [ctx.intent EXCEPT !.age = a, !.sentAge = s, !.nfAge = n]
<1>1. a \in 0 .. Alert /\ s \in 0 .. Grace /\ n \in 0 .. Grace
  BY Fields, Basics DEF Older
<1>2. SaveIntent(it) /\ pending /\ pc = "idle" /\ pc' = "idle" /\ ctx.intent.stage # "NONE"
      /\ \A i \in MayTrigger : stops[i].st # "flying"
  BY Basics DEF Tick, pending, MayTrigger
<1> HIDE DEF a, s, n
<1>3. /\ it \in Intent /\ it.id = ctx.intent.id /\ it.old = ctx.intent.old
      /\ it.price = ctx.intent.price /\ it.requested = ctx.intent.requested
      /\ it.stage = ctx.intent.stage
  <2>1. ctx.intent \in Intent
    BY Basics
  <2> QED BY <1>1, <2>1 DEF Intent
<1> HIDE DEF it
<1>4. ctx'.intent = it /\ SteadyAfter
  BY <1>2, <1>3, SaveFacts, SteadySave
<1>5. HandlerFits' /\ GateAfter
  BY <1>2 DEF HandlerFits, GateAfter
<1>6. StageAfter
  BY <1>2, <1>3, <1>4 DEF StageAfter, IInv, Fits, Holders
<1> QED BY <1>4, <1>5, <1>6, SteadyFits

(* The cleanup goes on only when no request may still be on its way.       *)
LEMMA FinishLookStep ==
    ASSUME IInv, FinishLook
    PROVE  Kinds' /\ Fits'
<1> DEFINE unresolved(V) == ctx.intent.stage \in Sent /\ ctx.intent.id \notin V
           terminal == ~NotFound /\ stops[ctx.intent.id].st = "ended"
           waiting(V) == unresolved(V) /\ ~terminal /\ ~(NotFound /\ stopAbsenceConverged(counted))
           other(V) == \E o \in V : o # ctx.oid /\ ~(pending /\ o = ctx.intent.id)
           reset == [ctx.intent EXCEPT !.nf = 0, !.nfAge = 0]
<1>1. PICK V \in Views :
         /\ IF unresolved(V) THEN SaveIntent(IF NotFound THEN counted ELSE reset) ELSE Keep
         /\ pc' = IF waiting(V) \/ other(V) THEN "idle" ELSE IF V = {} THEN "clear" ELSE "clean"
  BY DEF FinishLook, Goto
<1>2. pc = "finish" /\ ctx.state = "OPEN"
  BY Fields DEF FinishLook, IInv, Fits, IntentFits
<1>3. V \subseteq Live /\ \A i \in Live \ V : i = ctx.intent.id
  BY DEF Views
<1>4. ASSUME ~ waiting(V), NEW i \in MayTrigger
      PROVE  i \in V
  <2> SUFFICES ASSUME i \notin V PROVE FALSE
    OBVIOUS
  <2>1. i \in StopIds /\ i \in Slots
    BY Basics DEF MayTrigger
  <2>2. i = ctx.intent.id
    <3>1. CASE stops[i].st = "live"
      BY <1>3, <2>1, <3>1, Basics DEF Live
    <3>2. CASE stops[i].st = "flying"
      BY <2>1, <3>2 DEF IInv, Fits, Flights
    <3> QED BY <3>1, <3>2 DEF MayTrigger
  <2>3. ctx.intent.stage \in Sent
    <3>1. pending /\ i # ctx.oid /\ i # ctx.intent.old
      BY <2>1, <2>2, Basics DEF IInv, Fits, IntentFits, pending
    <3> QED BY <2>2, <3>1, Fields DEF IInv, Fits, Holders, Sent, pending
  <2>4. ~ terminal
    BY <2>2 DEF MayTrigger
  <2>5. NotFound /\ stopAbsenceConverged(counted)
    BY <1>4, <2>2, <2>3, <2>4
  <2> QED BY <2>3, <2>5, GoneFacts
<1>5. \A i \in V : stops[i].st = "live" /\ i \in Slots
  BY <1>3, Basics DEF Live
<1>6. GateAfter
  <2>1. ASSUME ~ waiting(V), ~ other(V), NEW i \in MayTrigger
        PROVE  i \in V /\ i \in {ctx.oid, ctx.intent.id} /\ stops[i].st = "live"
    BY <1>4, <1>5, <2>1
  <2> HIDE DEF waiting, other
  <2> QED BY <1>1, <1>2, <2>1 DEF GateAfter
<1>7. HandlerFits'
  <2> HIDE DEF waiting, other
  <2> QED BY <1>1 DEF HandlerFits
<1>8. SteadyAfter /\ StageAfter
  <2>1. CASE unresolved(V)
    <3> DEFINE it == IF NotFound THEN counted ELSE reset
    <3>1. /\ it \in Intent /\ it.id = ctx.intent.id /\ it.old = ctx.intent.old
          /\ it.price = ctx.intent.price /\ it.requested = ctx.intent.requested
          /\ it.stage = ctx.intent.stage /\ it.sentAge = ctx.intent.sentAge
      BY CountedFacts, ResetFacts
    <3>2. SaveIntent(it)
      BY <1>1, <2>1
    <3>3. pending /\ ctx.intent.stage \in Sent /\ ctx.intent.stage # "NONE"
      BY <2>1 DEF Sent, pending
    <3> HIDE DEF it
    <3>4. ctx'.intent = it /\ SteadyAfter
      BY <3>1, <3>2, <3>3, SaveFacts, SteadySave
    <3> QED BY <3>1, <3>3, <3>4 DEF StageAfter, Sent, IInv, Fits, Holders, Flights, MayTrigger
  <2>2. CASE ~ unresolved(V)
    BY <1>1, <2>2, SteadyKeep DEF Keep
  <2> QED BY <2>1, <2>2
<1> QED BY <1>6, <1>7, <1>8, SteadyFits

(* Every step keeps the context, the handler and the book in step. *)
LEMMA FitsStep == IInv /\ [Next]_vars => Kinds' /\ Fits'
<1> SUFFICES ASSUME IInv, [Next]_vars PROVE Kinds' /\ Fits'
  OBVIOUS
<1>1. CASE BeginPass
  <2>1. target' \in Prices \/ pending'
    BY <1>1, Fields, Basics DEF BeginPass, Keep, pending, IInv, Fits, IntentFits
  <2> QED BY <1>1, <2>1, KeepFits DEF BeginPass, Keep, HandlerFits, GateAfter
<1>2. CASE RetainStop
  <2>1. PICK V \in Views : \E o \in Adequate(V) :
           Persist(IF Owned(o) \/ Legacy(o, V) THEN Recorded(o, requested) ELSE ctx)
    BY <1>2 DEF RetainStop
  <2>2. PICK o \in Adequate(V) : Persist(IF Owned(o) \/ Legacy(o, V) THEN Recorded(o, requested) ELSE ctx)
    BY <2>1
  <2>3. o \in Live /\ (pending => o = ctx.intent.id)
    BY DEF Views, Adequate
  <2>4. pc' = "idle" /\ pc = "look" /\ ctx.state = "OPEN"
    BY <1>2, Fields DEF RetainStop, Goto, IInv, Fits, IntentFits
  <2>5. requested \in Prices
    BY <2>4 DEF requested, IInv, Fits, IntentFits, HandlerFits
  <2>6. \A i \in MayTrigger : i = o
    <3> SUFFICES ASSUME NEW i \in MayTrigger PROVE i = o
      OBVIOUS
    <3>1. i \in Slots /\ o \in Slots /\ stops[o].st = "live"
      BY <2>3, Basics DEF MayTrigger, Live
    <3>2. CASE stops[i].st = "live"
      BY <3>1, <3>2 DEF IInv, Fits, BookFits
    <3>3. CASE stops[i].st = "flying"
      BY <2>3, <3>1, <3>3 DEF IInv, Fits, Flights, Sent, pending, MayTrigger
    <3> QED BY <3>2, <3>3 DEF MayTrigger
  <2>7. CASE Owned(o) \/ Legacy(o, V)
    BY <2>2, <2>3, <2>4, <2>5, <2>6, <2>7, RecordFits
  <2>8. CASE ~ (Owned(o) \/ Legacy(o, V))
    <3>1. Persist(ctx)
      BY <2>2, <2>8
    <3> QED BY <2>4, <3>1, PersistSame
  <2> QED BY <2>7, <2>8
<1>3. CASE PlanStop
  <2>1. PICK V \in Views :
          /\ Adequate(V) = {}
          /\ LET gone == ctx.oid # NoId /\ V = {}
                 blocked == \/ gone /\ (stops[ctx.oid].st # "ended" \/ ~open)
                            \/ \E o \in V : ~Owned(o) /\ ~Legacy(o, V)
                            \/ Cardinality(V) > 1
                 old == IF V = {} THEN NoId ELSE CHOOSE o \in V : TRUE
             IN IF blocked
                THEN Goto("idle") /\ Keep
                ELSE /\ SaveIntent([Renewed(NoIntent, target, target) EXCEPT !.old = old])
                     /\ Goto(IF old = NoId THEN "submit" ELSE "cancel")
    BY <1>3 DEF PlanStop
  <2>2. pc = "look" /\ ~ pending /\ ctx.state = "OPEN" /\ target \in Prices
    BY <1>3, Fields DEF PlanStop, IInv, Fits, IntentFits, HandlerFits
  <2>3. CASE Goto("idle") /\ Keep
    BY <2>3, KeepFits DEF Goto, Keep, HandlerFits, GateAfter
  <2> DEFINE old == IF V = {} THEN NoId ELSE CHOOSE o \in V : TRUE
             m == Renewed(NoIntent, target, target)
             n == [m EXCEPT !.old = old]
  <2>4. ASSUME \A o \in V : Owned(o) \/ Legacy(o, V), SaveIntent(n),
               Goto(IF old = NoId THEN "submit" ELSE "cancel")
        PROVE  Kinds' /\ Fits'
    <3>1. V = Live
      <4>1. Live \ V \subseteq {NoId} /\ V \subseteq Live /\ Live \subseteq Slots
        BY <2>2, Basics DEF Views, Live, IInv, Fits, IntentFits
      <4> QED BY <4>1, Basics
    <3>2. old = NoId => Live = {}
      BY <3>1, Basics DEF Live
    <3>3. old # NoId => old \in Live
      BY <3>1
    <3>4. \A i \in MayTrigger : i = old /\ stops[i].st = "live"
      <4> SUFFICES ASSUME NEW i \in MayTrigger PROVE i = old /\ stops[i].st = "live"
        OBVIOUS
      <4>1. stops[i].st = "live" /\ i \in Live
        BY <2>2, Basics DEF MayTrigger, Live, IInv, Fits, Flights, Sent, pending
      <4>2. old \in Live
        BY <3>2, <3>3, <4>1
      <4> QED BY <4>1, <4>2, Basics DEF Live, IInv, Fits, BookFits
    <3>5. old \in {NoId, Foreign, ctx.oid}
      <4> SUFFICES ASSUME old # NoId, old # Foreign PROVE old = ctx.oid
        OBVIOUS
      <4>1. old \in MayTrigger
        BY <3>3, Basics DEF Live, MayTrigger, Slots
      <4> QED BY <2>2, <4>1 DEF IInv, Fits, Holders
    <3>6. old # NoId => /\ stops[old].st = "live" /\ target >= stops[old].price
                        /\ old = Foreign => stops[old].price = ctx.price
      <4> SUFFICES ASSUME old # NoId
                   PROVE  /\ stops[old].st = "live" /\ target >= stops[old].price
                          /\ old = Foreign => stops[old].price = ctx.price
        OBVIOUS
      <4>1. stops[old].st = "live" /\ stops[old].price \in Prices /\ old \in V
        BY <3>1, <3>3, Basics DEF Live, IInv, Fits, BookFits
      <4>2. ~ (stops[old].price >= target)
        BY <2>1, <2>2, <4>1 DEF Adequate, wanted
      <4>3. stops[old].price \in Nat /\ target \in Nat
        BY <2>2, <4>1, Basics
      <4>4. Owned(old) => old = ctx.oid
        BY <2>2 DEF Owned
      <4>5. old = Foreign => stops[old].price = ctx.price
        BY <2>4, <4>1, <4>4 DEF Legacy, IInv, Fits, RecordIsReal
      <4> QED BY <4>1, <4>2, <4>3, <4>5
    <3>7. /\ m \in Intent /\ m.id = Fresh /\ m.old = NoId /\ m.price = target /\ m.requested = target
          /\ m.stage = "PLANNED"
      BY <2>2, Basics, RenewedFacts
    <3>8. old \in StopIds \cup {NoId, Foreign}
      BY <3>5, Fields
    <3> HIDE DEF m, old
    <3>9. /\ n \in Intent /\ n.id = Fresh /\ n.old = old /\ n.price = target /\ n.requested = target
          /\ n.stage = "PLANNED"
      BY <3>7, <3>8 DEF Intent
    <3> HIDE DEF n
    <3>10. pc' = (IF old = NoId THEN "submit" ELSE "cancel") /\ ctx'.intent = n
      BY <2>4, <3>9, SaveFacts DEF Goto
    <3>11. HandlerFits'
      BY <3>9, <3>10 DEF HandlerFits
    <3>12. pc' \in {"submit", "send", "clear", "mark"} => MayTrigger = {}
      <4>1. \A i \in MayTrigger : i \in Live
        BY <3>4, Basics DEF MayTrigger, Live
      <4> QED BY <3>2, <3>10, <4>1
    <3>13. pc' # "clean"
      BY <3>10
    <3> QED BY <2>2, <2>4, <3>4, <3>5, <3>6, <3>9, <3>11, <3>12, <3>13, RenewFits
  <2> QED BY <2>1, <2>3, <2>4
<1>4. CASE ResumeStop
  <2>1. PICK V \in Views : pc' = IF ctx.intent.old \in V THEN "cancel" ELSE "submit"
    BY <1>4 DEF ResumeStop, Goto
  <2>2. pc = "look" /\ ctx.intent.stage = "PLANNED" /\ ctx.state = "OPEN" /\ ctx' = ctx /\ stops' = stops
    BY <1>4, Fields DEF ResumeStop, Keep, IInv, Fits, IntentFits
  <2>3. ctx.intent.old \in V => ctx.intent.old # NoId
    BY Basics DEF Views, Live
  <2>4. ctx.intent.old \notin V => MayTrigger = {}
    <3> SUFFICES ASSUME ctx.intent.old \notin V, NEW i \in MayTrigger PROVE FALSE
      OBVIOUS
    <3>1. i = ctx.intent.old /\ stops[i].st = "live" /\ i \in StopIds
      BY <2>2 DEF IInv, Fits, Holders, Flights, Sent, MayTrigger
    <3>2. i \in Live /\ i \notin V
      BY <3>1, Basics DEF Live
    <3>3. i = ctx.intent.id
      BY <3>2 DEF Views
    <3> QED BY <2>2, <3>1, <3>3, Basics DEF IInv, Fits, IntentFits, pending
  <2> QED BY <2>1, <2>2, <2>3, <2>4, KeepFits DEF HandlerFits, GateAfter
<1>5. CASE RejectedStop
  <2>1. pc = "look" /\ ctx.intent.stage = "REJECTED" /\ ctx.state = "OPEN"
    BY <1>5, Fields DEF RejectedStop, IInv, Fits, IntentFits
  <2>2. CASE Keep /\ (Goto("adopt") \/ Goto("fallback"))
    BY <2>1, <2>2, KeepFits DEF Keep, Goto, HandlerFits, GateAfter
  <2>3. CASE Goto("idle") /\ SaveIntent(NoIntent)
    <3>1. /\ ctx' \in CtxType /\ ctx'.intent = NoIntent /\ ctx'.oid = ctx.oid /\ ctx'.price = ctx.price
          /\ ctx'.state = "OPEN" /\ stops' \in [Slots -> StopType] /\ ShrunkAfter(ctx')
      BY <2>1, <2>3, SaveFacts, Basics
    <3>2. MayTrigger = {}
      BY <2>1 DEF IInv, Fits, Holders
    <3>3. HandlerFits'
      BY <2>3 DEF Goto, HandlerFits
    <3> QED BY <3>1, <3>2, <3>3, DropFits
  <2> QED BY <1>5, <2>2, <2>3 DEF RejectedStop
<1>6. CASE ResolveStop
  <2>1. PICK V \in Views :
          \/ SaveIntent([ctx.intent EXCEPT !.nf = 0, !.nfAge = 0]) /\ Goto("fallback")
          \/ /\ ~NotFound /\ stops[ctx.intent.id].st = "ended"
             /\ Persist([ctx EXCEPT !.intent = NoIntent, !.oid = NoId]) /\ Goto("idle")
          \/ SaveIntent(counted) /\ (Goto("fallback") \/ Goto("idle"))
          \/ /\ NotFound /\ stopAbsenceConverged(counted)
             /\ Persist([ctx EXCEPT !.intent = NoIntent, !.oid = NoId]) /\ Goto("idle")
          \/ /\ NotFound /\ stopAbsenceConverged(counted)
             /\ SaveIntent(Renewed(ctx.intent, ctx.intent.price, ctx.intent.requested)) /\ Goto("submit")
    BY <1>6 DEF ResolveStop
  <2>2. pc = "look" /\ ctx.intent.stage \in Sent /\ ctx.state = "OPEN" /\ pending
    BY <1>6, Fields DEF ResolveStop, IInv, Fits, IntentFits, Sent, pending
  <2>3. CASE SaveIntent([ctx.intent EXCEPT !.nf = 0, !.nfAge = 0]) /\ Goto("fallback")
    <3>1. pc' = "fallback"
      BY <2>3 DEF Goto
    <3> QED BY <2>2, <2>3, <3>1, ResetStep
  <2>4. CASE SaveIntent(counted) /\ (Goto("fallback") \/ Goto("idle"))
    <3>1. pc' \in {"fallback", "idle"}
      BY <2>4 DEF Goto
    <3> QED BY <2>2, <2>4, <3>1, CountStep
  <2>5. NotFound /\ stopAbsenceConverged(counted) => MayTrigger = {}
    BY <2>2, GoneFacts
  <2>6. ~ NotFound /\ stops[ctx.intent.id].st = "ended" => MayTrigger = {}
    BY <2>2 DEF IInv, Fits, Holders, MayTrigger
  <2>7. ASSUME MayTrigger = {}, Persist([ctx EXCEPT !.intent = NoIntent, !.oid = NoId]), Goto("idle")
        PROVE  Kinds' /\ Fits'
    <3>1. HandlerFits'
      BY <2>7 DEF Goto, HandlerFits
    <3> QED BY <2>2, <2>7, <3>1, ClearFacts, DropFits
  <2>8. ASSUME MayTrigger = {}, Goto("submit"),
               SaveIntent(Renewed(ctx.intent, ctx.intent.price, ctx.intent.requested))
        PROVE  Kinds' /\ Fits'
    <3>1. pc' = "submit"
      BY <2>8 DEF Goto
    <3> QED BY <2>2, <2>8, <3>1, RenewStep
  <2> QED BY <2>1, <2>3, <2>4, <2>5, <2>6, <2>7, <2>8
<1>7. CASE CancelOld
  <2>1. pc = "cancel" /\ ctx.intent.stage = "PLANNED" /\ ctx.intent.old # NoId /\ ctx.state = "OPEN"
    BY <1>7, Fields DEF CancelOld, IInv, Fits, HandlerFits, IntentFits
  <2>2. CASE Goto("idle") /\ UNCHANGED stops
    <3>1. ctx' = ctx /\ pc' = "idle"
      BY <1>7, <2>2 DEF CancelOld, Goto
    <3> QED BY <2>1, <2>2, <3>1, KeepFits DEF HandlerFits, GateAfter
  <2>3. CASE stops[ctx.intent.old].st = "live" /\ Book(ctx.intent.old, "ended")
    <3>1. ctx.intent.old \in Slots
      BY <2>1, Fields DEF Slots
    <3>2. ctx' = ctx /\ pc' \in {"submit", "idle"}
      BY <1>7 DEF CancelOld, Goto
    <3>3. HandlerFits'
      BY <2>1, <3>2 DEF HandlerFits
    <3>4. \A i \in MayTrigger : i = ctx.intent.old
      BY <2>1 DEF IInv, Fits, Holders
    <3>5. "ended" \in Statuses
      BY DEF Statuses
    <3> QED BY <2>1, <2>3, <3>1, <3>2, <3>3, <3>4, <3>5, MoveFits
  <2> QED BY <1>7, <2>2, <2>3 DEF CancelOld
<1>8. CASE BeginSubmit
  <2> DEFINE it == [ctx.intent EXCEPT !.stage = "SUBMITTING", !.code = "", !.nf = 0, !.nfAge = 0, !.sentAge = 0]
  <2>1. pc = "submit" /\ ctx.intent.stage = "PLANNED" /\ ctx.state = "OPEN" /\ pending /\ MayTrigger = {}
    BY <1>8, Fields DEF BeginSubmit, IInv, Fits, HandlerFits, IntentFits, pending, Holders
  <2>2. /\ it \in Intent /\ it.stage = "SUBMITTING" /\ it.id = ctx.intent.id /\ it.old = ctx.intent.old
        /\ it.price = ctx.intent.price /\ it.requested = ctx.intent.requested /\ it.sentAge = 0
    <3>1. ctx.intent \in Intent /\ 0 \in 0 .. 2 /\ 0 \in 0 .. Grace
      BY Basics
    <3> QED BY <3>1 DEF Intent
  <2>3. SaveIntent(it) /\ pc' = "send"
    BY <1>8 DEF BeginSubmit, Goto
  <2> HIDE DEF it
  <2>4. ctx'.intent = it /\ SteadyAfter
    BY <2>1, <2>2, <2>3, SaveFacts, SteadySave
  <2>5. HandlerFits' /\ GateAfter /\ StageAfter
    BY <2>1, <2>2, <2>3, <2>4 DEF HandlerFits, GateAfter, StageAfter
  <2> QED BY <2>4, <2>5, SteadyFits
<1>9. CASE Send
  <2> QED BY <1>9, SendStep
<1>10. CASE SubmitAnswered
  <2> QED BY <1>10, Fields, KeepFits DEF SubmitAnswered, Goto, Keep, HandlerFits, GateAfter,
        IInv, Fits, IntentFits
<1>11. CASE SubmitRejected
  <2>1. PICK code \in {"4130", "4509", "other"} :
          LET it == [ctx.intent EXCEPT !.stage = "REJECTED", !.code = code, !.sentAge = 0]
              restore == code # "4130" /\ open /\ it.old # NoId
          IN /\ IF restore
                THEN SaveIntent(Renewed(it, stops[it.old].price, stops[it.old].price))
                ELSE SaveIntent(it)
             /\ Goto(IF code = "4130" THEN "adopt" ELSE IF restore THEN "look" ELSE "idle")
    BY <1>11 DEF SubmitRejected
  <2> DEFINE it == [ctx.intent EXCEPT !.stage = "REJECTED", !.code = code, !.sentAge = 0]
  <2>2. /\ pc = "answer" /\ ctx.intent.stage = "SUBMITTING" /\ ctx.state = "OPEN" /\ pending
        /\ stops[ctx.intent.id].st = "refused"
    BY <1>11, Fields DEF SubmitRejected, IInv, Fits, HandlerFits, IntentFits, pending
  <2>3. MayTrigger = {}
    BY <2>2 DEF IInv, Fits, Holders, Sent, MayTrigger
  <2>4. /\ it \in Intent /\ it.stage = "REJECTED" /\ it.id = ctx.intent.id /\ it.old = ctx.intent.old
        /\ it.price = ctx.intent.price /\ it.requested = ctx.intent.requested
    <3>1. ctx.intent \in Intent /\ 0 \in 0 .. Grace
      BY Basics
    <3> QED BY <3>1 DEF Intent
  <2>5. ASSUME SaveIntent(it), Goto("adopt") \/ Goto("idle") PROVE Kinds' /\ Fits'
    <3>1. pc' \in {"adopt", "idle"}
      BY <2>5 DEF Goto
    <3> HIDE DEF it
    <3>2. ctx'.intent = it /\ SteadyAfter
      BY <2>2, <2>4, <2>5, SaveFacts, SteadySave
    <3>3. HandlerFits' /\ GateAfter /\ StageAfter
      BY <2>2, <2>3, <2>4, <3>1, <3>2 DEF HandlerFits, GateAfter, StageAfter
    <3> QED BY <3>2, <3>3, SteadyFits
  <2>6. ASSUME it.old # NoId, Goto("look"),
               SaveIntent(Renewed(it, stops[it.old].price, stops[it.old].price))
        PROVE  Kinds' /\ Fits'
    <3> HIDE DEF it
    <3>1. ctx.intent.old \in {Foreign, ctx.oid} \ {NoId}
      BY <2>2, <2>4, <2>6 DEF IInv, Fits, IntentFits
    <3>2. ctx.intent.old \in Slots /\ stops[ctx.intent.old].st # "none"
      BY <3>1, Fields, Basics DEF IInv, Fits, BookFits, RecordIsReal, Slots
    <3>3. stops[it.old].price \in Prices
      BY <2>4, <3>2 DEF IInv, Fits, BookFits
    <3> DEFINE n == Renewed(it, stops[it.old].price, stops[it.old].price)
    <3>4. /\ n \in Intent /\ n.id = Fresh /\ n.old = NoId /\ n.stage = "PLANNED"
          /\ n.price \in Prices /\ n.requested \in Prices
      BY <2>4, <3>3, RenewedFacts
    <3> HIDE DEF n
    <3>5. SaveIntent(n) /\ pc' = "look"
      BY <2>6 DEF n, Goto
    <3>6. ctx'.intent = n
      BY <3>4, <3>5, SaveFacts
    <3>7. HandlerFits'
      BY <3>4, <3>5, <3>6 DEF HandlerFits, pending
    <3> QED BY <2>2, <2>3, <3>4, <3>5, <3>7, RenewFits
  <2> QED BY <2>1, <2>4, <2>5, <2>6
<1>12. CASE SubmitUncertain
  <2> DEFINE it == [ctx.intent EXCEPT !.stage = "UNKNOWN", !.sentAge = 0]
  <2>1. pc \in {"answer"} /\ ctx.intent.stage = "SUBMITTING" /\ ctx.state = "OPEN" /\ pending
    BY <1>12, Fields DEF SubmitUncertain, IInv, Fits, HandlerFits, IntentFits, pending
  <2>2. /\ it \in Intent /\ it.stage = "UNKNOWN" /\ it.id = ctx.intent.id /\ it.old = ctx.intent.old
        /\ it.price = ctx.intent.price /\ it.requested = ctx.intent.requested /\ it.sentAge = 0
    <3>1. ctx.intent \in Intent /\ 0 \in 0 .. Grace
      BY Basics
    <3> QED BY <3>1 DEF Intent
  <2>3. SaveIntent(it) /\ pc' = "fallback"
    BY <1>12 DEF SubmitUncertain, Goto
  <2> HIDE DEF it
  <2>4. ctx'.intent = it /\ SteadyAfter
    BY <2>1, <2>2, <2>3, SaveFacts, SteadySave
  <2>5. HandlerFits' /\ GateAfter
    BY <2>1, <2>3 DEF HandlerFits, GateAfter
  <2>6. StageAfter
    BY <2>1, <2>2, <2>4 DEF StageAfter, Sent, IInv, Fits, Holders
  <2> QED BY <2>4, <2>5, <2>6, SteadyFits
<1>13. CASE NotExecuted
  <2> DEFINE it == [ctx.intent EXCEPT !.stage = "PLANNED"]
  <2>1. pc \in {"send"} /\ ctx.intent.stage = "SUBMITTING" /\ ctx.state = "OPEN" /\ pending
    BY <1>13, Fields DEF NotExecuted, IInv, Fits, HandlerFits, IntentFits, pending
  <2>2. /\ it \in Intent /\ it.stage = "PLANNED" /\ it.id = ctx.intent.id /\ it.old = ctx.intent.old
        /\ it.price = ctx.intent.price /\ it.requested = ctx.intent.requested
    <3>1. ctx.intent \in Intent /\ 0 \in 0 .. Grace
      BY Basics
    <3> QED BY <3>1 DEF Intent
  <2>3. SaveIntent(it) /\ pc' = "fallback"
    BY <1>13 DEF NotExecuted, Goto
  <2> HIDE DEF it
  <2>4. ctx'.intent = it /\ SteadyAfter
    BY <2>1, <2>2, <2>3, SaveFacts, SteadySave
  <2>5. HandlerFits' /\ GateAfter
    BY <2>1, <2>3 DEF HandlerFits, GateAfter
  <2>6. StageAfter
    BY <1>13, <2>2, <2>4 DEF StageAfter, NotExecuted, IInv, Fits, Holders
  <2> QED BY <2>4, <2>5, <2>6, SteadyFits
<1>14. CASE Confirm
  <2>1. PICK V \in Views :
          Persist(IF ctx.intent.id \in V THEN Recorded(ctx.intent.id, ctx.intent.requested) ELSE ctx)
    BY <1>14 DEF Confirm
  <2>2. pc' = "idle" /\ ctx.intent.stage = "SUBMITTING" /\ pending /\ ctx.state = "OPEN"
    BY <1>14, Fields DEF Confirm, Goto, IInv, Fits, HandlerFits, IntentFits, pending
  <2>3. CASE ctx.intent.id \in V
    <3>1. ctx.intent.id \in Live /\ ctx.intent.requested \in Prices
      BY <2>2, <2>3 DEF Views, IInv, Fits, IntentFits
    <3>2. \A i \in MayTrigger : i = ctx.intent.id
      BY <2>2 DEF IInv, Fits, Holders, Sent
    <3> QED BY <2>1, <2>2, <2>3, <3>1, <3>2, RecordFits
  <2>4. CASE ctx.intent.id \notin V
    <3>1. Persist(ctx)
      BY <2>1, <2>4
    <3> QED BY <2>2, <3>1, PersistSame
  <2> QED BY <2>3, <2>4
<1>15. CASE AdoptStop
  <2>1. /\ pc = "adopt" /\ ctx.intent.stage = "REJECTED" /\ pending /\ ctx.state = "OPEN" /\ MayTrigger = {}
    BY <1>15, Fields DEF AdoptStop, IInv, Fits, HandlerFits, IntentFits, pending, Holders
  <2>2. PICK V \in Views :
          \/ /\ Goto("fallback")
             /\ SaveIntent(Renewed(ctx.intent, ctx.intent.price, ctx.intent.requested))
          \/ \E o \in V : Persist(Recorded(o, ctx.intent.requested)) /\ Goto("idle")
          \/ Goto("fallback") /\ Keep
    BY <1>15 DEF AdoptStop
  <2>3. CASE Goto("fallback") /\ SaveIntent(Renewed(ctx.intent, ctx.intent.price, ctx.intent.requested))
    <3>1. pc' = "fallback"
      BY <2>3 DEF Goto
    <3> QED BY <2>1, <2>3, <3>1, RenewStep
  <2>4. CASE \E o \in V : Persist(Recorded(o, ctx.intent.requested)) /\ Goto("idle")
    <3>1. PICK o \in V : Persist(Recorded(o, ctx.intent.requested)) /\ Goto("idle")
      BY <2>4
    <3>2. o \in Live /\ ctx.intent.requested \in Prices /\ pc' = "idle"
      BY <2>1, <3>1 DEF Views, Goto, IInv, Fits, IntentFits
    <3> QED BY <2>1, <3>1, <3>2, RecordFits
  <2>5. CASE Goto("fallback") /\ Keep
    BY <2>1, <2>5, KeepFits DEF Goto, Keep, HandlerFits, GateAfter
  <2> QED BY <2>2, <2>3, <2>4, <2>5
<1>16. CASE Fallback
  <2>1. pc' \in {"emergency", "idle"} /\ ctx.state = "OPEN"
    BY <1>16, Fields DEF Fallback, Goto, IInv, Fits, IntentFits
  <2> QED BY <1>16, <2>1, KeepFits DEF Fallback, Keep, HandlerFits, GateAfter
<1>17. CASE EmergencyClose
  <2>1. pc' = "idle" /\ ctx.state = "OPEN"
    BY <1>17, Fields DEF EmergencyClose, Goto, IInv, Fits, IntentFits
  <2>2. CASE Persist([ctx EXCEPT !.closing = open])
    BY <2>1, <2>2, OpenIsBoolean, ClosingStep
  <2>3. CASE Keep
    BY <2>1, <2>3, KeepFits DEF Keep, HandlerFits, GateAfter
  <2> QED BY <1>17, <2>2, <2>3 DEF EmergencyClose
<1>18. CASE MissPosition
  <2>1. pc' \in {"finish", "idle"} /\ ctx.state = "OPEN"
    BY <1>18 DEF MissPosition, Goto
  <2> QED BY <1>18, <2>1, KeepFits DEF MissPosition, Keep, HandlerFits, GateAfter
<1>19. CASE FinishLook
  <2> QED BY <1>19, FinishLookStep
<1>20. CASE FinishCancel
  <2>1. PICK o \in Live : Book(o, "ended")
    BY <1>20 DEF FinishCancel
  <2>2. /\ pc = "clean" /\ pc' \in {"clear", "idle"} /\ ctx' = ctx /\ ctx.state = "OPEN"
        /\ o \in Slots /\ stops[o].st = "live"
    BY <1>20, Fields, Basics DEF FinishCancel, Goto, Live, IInv, Fits, IntentFits
  <2>3. \A i \in MayTrigger : i = o
    BY <2>2, Basics DEF IInv, Fits, BookFits, Flights, MayTrigger
  <2>4. HandlerFits' /\ "ended" \in Statuses
    BY <2>2 DEF HandlerFits, Statuses
  <2> QED BY <2>1, <2>2, <2>3, <2>4, MoveFits
<1>21. CASE FinishClear
  <2>1. pc \in {"clear", "clean"} /\ ctx.state = "OPEN"
    BY <1>21, Fields DEF FinishClear, IInv, Fits, IntentFits
  <2>2. MayTrigger = {}
    <3>1. CASE pc = "clear"
      BY <3>1 DEF IInv, Fits, Holders
    <3>2. CASE pc = "clean"
      <4> SUFFICES ASSUME NEW i \in MayTrigger PROVE FALSE
        OBVIOUS
      <4>1. i \in Live /\ i \in {ctx.oid, ctx.intent.id} /\ i \in StopIds
        BY <3>2, Basics DEF IInv, Fits, Holders, Flights, MayTrigger, Live
      <4>2. i = ctx.intent.id => pending
        BY <4>1, Basics DEF pending
      <4> QED BY <1>21, <3>2, <4>1, <4>2 DEF FinishClear
    <3> QED BY <2>1, <3>1, <3>2
  <2>3. CASE Persist([ctx EXCEPT !.intent = NoIntent, !.oid = NoId]) /\ Goto("mark")
    <3>1. /\ ctx' \in CtxType /\ ctx'.intent = NoIntent /\ ctx'.oid = NoId /\ ctx'.price = ctx.price
          /\ ctx'.state = "OPEN" /\ stops' \in [Slots -> StopType] /\ ShrunkAfter(ctx')
      BY <2>1, <2>3, ClearFacts
    <3>2. HandlerFits'
      BY <2>3, <3>1, Basics DEF Goto, HandlerFits, pending
    <3> QED BY <2>2, <3>1, <3>2, DropFits
  <2>4. CASE Keep /\ Goto("idle")
    BY <2>1, <2>4, KeepFits DEF Goto, Keep, HandlerFits, GateAfter
  <2> QED BY <1>21, <2>3, <2>4 DEF FinishClear
<1>22. CASE MarkClosed
  <2> QED BY <1>22, MarkStep
<1>23. CASE ResolveFails
  <2>1. /\ SaveIntent([ctx.intent EXCEPT !.nf = 0, !.nfAge = 0]) /\ pc' \in {"fallback", "idle"}
        /\ ctx.intent.stage \in Sent /\ pending /\ ctx.state = "OPEN"
    BY <1>23, Fields DEF ResolveFails, Goto, Sent, pending, IInv, Fits, IntentFits
  <2> QED BY <2>1, ResetStep
<1>24. CASE Arrive
  <2>1. PICK i \in StopIds : /\ stops[i].st = "flying" /\ ctx' = ctx /\ pc' = pc /\ target' = target
                             /\ \/ Live = {} /\ Book(i, "live")
                                \/ Book(i, "refused")
    BY <1>24 DEF Arrive
  <2>2. HandlerFits' /\ {"live", "refused"} \subseteq Statuses /\ i \in Slots /\ i # Foreign
    BY <2>1, Basics, SameHandler DEF Statuses
  <2> QED BY <2>1, <2>2, SamePlace, MoveFits
<1>25. CASE Lost
  <2>1. PICK i \in StopIds : stops[i].st = "flying" /\ Book(i, "none")
    BY <1>25 DEF Lost
  <2>2. ctx' = ctx /\ pc' = pc /\ target' = target
    BY <1>25 DEF Lost
  <2>3. HandlerFits' /\ "none" \in Statuses /\ i \in Slots /\ i # Foreign
    BY <1>25, <2>2, Basics, SameHandler DEF Statuses
  <2> QED BY <2>1, <2>2, <2>3, SamePlace, MoveFits
<1>26. CASE Fire
  <2>1. PICK i \in Live : Book(i, "fired")
    BY <1>26 DEF Fire
  <2>2. ctx' = ctx /\ pc' = pc /\ target' = target /\ \A j \in Slots : stops[j].st # "fired"
    BY <1>26, Basics DEF Fire
  <2>3. HandlerFits' /\ "fired" \in Statuses /\ i \in Slots /\ stops[i].st = "live"
    BY <1>26, <2>2, Basics, SameHandler DEF Statuses, Live
  <2> QED BY <2>1, <2>2, <2>3, SamePlace, MoveFits
<1>27. CASE Fired
  <2>1. PICK i \in Slots : stops[i].st = "fired" /\ Book(i, "ended")
    BY <1>27, Basics DEF Fired
  <2>2. ctx' = ctx /\ pc' = pc /\ target' = target
    BY <1>27 DEF Fired
  <2>3. HandlerFits' /\ "ended" \in Statuses
    BY <1>27, <2>2, SameHandler DEF Statuses
  <2> QED BY <2>1, <2>2, <2>3, SamePlace, MoveFits
<1>28. CASE OwnerStop
  <2>1. ctx' = ctx /\ pc' = pc /\ target' = target
    BY <1>28 DEF OwnerStop
  <2>2. HandlerFits' /\ "ended" \in Statuses
    BY <1>28, <2>1, SameHandler DEF Statuses
  <2>3. CASE UNCHANGED stops
    BY <2>1, <2>2, <2>3, SamePlace, KeepFits
  <2>4. CASE \E i \in Live : Book(i, "ended")
    <3>1. PICK i \in Live : Book(i, "ended")
      BY <2>4
    <3>2. i \in Slots /\ stops[i].st = "live"
      BY Basics DEF Live
    <3> QED BY <2>1, <2>2, <3>1, <3>2, SamePlace, MoveFits
  <2>5. CASE /\ Live = {} /\ stops[Foreign].st = "none"
             /\ \E p \in Prices : stops' = [stops EXCEPT ![Foreign] = [price |-> p, st |-> "live"]]
    BY <2>1, <2>2, <2>5, PlaceStep
  <2> QED BY <1>28, <2>3, <2>4, <2>5 DEF OwnerStop
<1>29. CASE CloseEnds
  <2>1. pc' = pc /\ pc = "idle" /\ target' = target
    BY <1>29 DEF CloseEnds
  <2>2. CASE Persist([ctx EXCEPT !.closing = FALSE])
    BY <2>1, <2>2, ClosingStep
  <2>3. CASE UNCHANGED <<ctx, stops>>
    BY <2>1, <2>3, KeepFits DEF HandlerFits, GateAfter
  <2> QED BY <1>29, <2>2, <2>3 DEF CloseEnds
<1>30. CASE Tick
  <2> QED BY <1>30, TickStep
<1>31. CASE Restart
  <2> QED BY <1>31, KeepFits DEF Restart, Goto, Keep, HandlerFits, GateAfter
<1>32. CASE UNCHANGED vars
  <2>1. ctx' = ctx /\ pc' = pc /\ stops' = stops /\ target' = target
    BY <1>32 DEF vars
  <2> QED BY <2>1, SameHandler, SamePlace, KeepFits
<1> QED BY <1>1, <1>2, <1>3, <1>4, <1>5, <1>6, <1>7, <1>8, <1>9, <1>10, <1>11, <1>12, <1>13,
           <1>14, <1>15, <1>16, <1>17, <1>18, <1>19, <1>20, <1>21, <1>22, <1>23, <1>24, <1>25,
           <1>26, <1>27, <1>28, <1>29, <1>30, <1>31, <1>32 DEF Next, Handler, Look, Submission,
           Finish, Venue

(* The rest of the types: what is neither context nor book.                *)
Counters ==
    /\ open \in BOOLEAN /\ miss \in BOOLEAN
    /\ pc \in {"idle", "look", "cancel", "submit", "send", "answer", "confirm", "adopt", "fallback",
               "emergency", "finish", "clean", "clear", "mark"}
    /\ target \in Prices \cup {0}
    /\ faults \in 0 .. MaxFaults /\ moves \in 0 .. MaxMoves

LEMMA FaultTyped ==
    ASSUME IInv
    PROVE  /\ Counters
           /\ Fault => faults' \in 0 .. MaxFaults
           /\ NoFault => faults' \in 0 .. MaxFaults
           /\ moves < MaxMoves /\ moves' = moves + 1 => moves' \in 0 .. MaxMoves
           /\ ctx.intent.requested \in Prices \cup {0} /\ ctx.requested \in Prices
<1>1. Counters
  BY DEF IInv, TypeOK, Counters
<1>2. faults \in 0 .. MaxFaults /\ moves \in 0 .. MaxMoves /\ MaxFaults \in Nat /\ MaxMoves \in Nat
  BY <1>1, Basics DEF Counters
<1>3. Fault => faults' \in 0 .. MaxFaults
  BY <1>2 DEF Fault
<1>4. NoFault => faults' \in 0 .. MaxFaults
  BY <1>2 DEF NoFault
<1>5. moves < MaxMoves /\ moves' = moves + 1 => moves' \in 0 .. MaxMoves
  BY <1>2
<1> QED BY <1>1, <1>3, <1>4, <1>5, Fields

(* And the rest keeps its types. *)
LEMMA CountersStep == IInv /\ [Next]_vars => Counters'
<1> SUFFICES ASSUME IInv, [Next]_vars PROVE Counters'
  OBVIOUS
<1>1. CASE BeginPass
  <2>1. faults' \in 0 .. MaxFaults
    BY <1>1, FaultTyped DEF BeginPass, Keep, Counters, NoFault
  <2>2. open' \in BOOLEAN /\ miss' \in BOOLEAN /\ moves' \in 0 .. MaxMoves
    BY <1>1, FaultTyped DEF BeginPass, Keep, SaveIntent, Persist, Book, Counters
  <2>3. pc' \in {"idle", "look", "cancel", "submit", "send", "answer", "confirm", "adopt", "fallback",
                "emergency", "finish", "clean", "clear", "mark"} /\ target' \in Prices \cup {0}
    BY <1>1, FaultTyped DEF BeginPass, Goto, Counters
  <2> QED BY <2>1, <2>2, <2>3 DEF Counters
<1>2. CASE RetainStop
  <2>1. faults' \in 0 .. MaxFaults
    BY <1>2, FaultTyped DEF RetainStop, Keep, Counters, NoFault
  <2>2. open' \in BOOLEAN /\ miss' \in BOOLEAN /\ moves' \in 0 .. MaxMoves
    BY <1>2, FaultTyped DEF RetainStop, Keep, SaveIntent, Persist, Book, Counters
  <2>3. pc' \in {"idle", "look", "cancel", "submit", "send", "answer", "confirm", "adopt", "fallback",
                "emergency", "finish", "clean", "clear", "mark"} /\ target' \in Prices \cup {0}
    BY <1>2, FaultTyped DEF RetainStop, Goto, Counters
  <2> QED BY <2>1, <2>2, <2>3 DEF Counters
<1>3. CASE PlanStop
  <2>1. faults' \in 0 .. MaxFaults
    BY <1>3, FaultTyped DEF PlanStop, Keep, Counters, NoFault
  <2>2. open' \in BOOLEAN /\ miss' \in BOOLEAN /\ moves' \in 0 .. MaxMoves
    BY <1>3, FaultTyped DEF PlanStop, Keep, SaveIntent, Persist, Book, Counters
  <2>3. pc' \in {"idle", "look", "cancel", "submit", "send", "answer", "confirm", "adopt", "fallback",
                "emergency", "finish", "clean", "clear", "mark"} /\ target' \in Prices \cup {0}
    BY <1>3, FaultTyped DEF PlanStop, Goto, Counters
  <2> QED BY <2>1, <2>2, <2>3 DEF Counters
<1>4. CASE ResumeStop
  <2>1. faults' \in 0 .. MaxFaults
    BY <1>4, FaultTyped DEF ResumeStop, Keep, Counters, NoFault
  <2>2. open' \in BOOLEAN /\ miss' \in BOOLEAN /\ moves' \in 0 .. MaxMoves
    BY <1>4, FaultTyped DEF ResumeStop, Keep, SaveIntent, Persist, Book, Counters
  <2>3. pc' \in {"idle", "look", "cancel", "submit", "send", "answer", "confirm", "adopt", "fallback",
                "emergency", "finish", "clean", "clear", "mark"} /\ target' \in Prices \cup {0}
    BY <1>4, FaultTyped DEF ResumeStop, Goto, Counters
  <2> QED BY <2>1, <2>2, <2>3 DEF Counters
<1>5. CASE RejectedStop
  <2>1. faults' \in 0 .. MaxFaults
    BY <1>5, FaultTyped DEF RejectedStop, Keep, Counters, NoFault
  <2>2. open' \in BOOLEAN /\ miss' \in BOOLEAN /\ moves' \in 0 .. MaxMoves
    BY <1>5, FaultTyped DEF RejectedStop, Keep, SaveIntent, Persist, Book, Counters
  <2>3. pc' \in {"idle", "look", "cancel", "submit", "send", "answer", "confirm", "adopt", "fallback",
                "emergency", "finish", "clean", "clear", "mark"} /\ target' \in Prices \cup {0}
    BY <1>5, FaultTyped DEF RejectedStop, Goto, Counters
  <2> QED BY <2>1, <2>2, <2>3 DEF Counters
<1>6. CASE ResolveStop
  <2>1. faults' \in 0 .. MaxFaults
    BY <1>6, FaultTyped DEF ResolveStop, Keep, Counters, NoFault
  <2>2. open' \in BOOLEAN /\ miss' \in BOOLEAN /\ moves' \in 0 .. MaxMoves
    BY <1>6, FaultTyped DEF ResolveStop, Keep, SaveIntent, Persist, Book, Counters
  <2>3. pc' \in {"idle", "look", "cancel", "submit", "send", "answer", "confirm", "adopt", "fallback",
                "emergency", "finish", "clean", "clear", "mark"} /\ target' \in Prices \cup {0}
    BY <1>6, FaultTyped DEF ResolveStop, Goto, Counters
  <2> QED BY <2>1, <2>2, <2>3 DEF Counters
<1>7. CASE CancelOld
  <2>1. faults' \in 0 .. MaxFaults
    BY <1>7, FaultTyped DEF CancelOld, Keep, Counters, NoFault
  <2>2. open' \in BOOLEAN /\ miss' \in BOOLEAN /\ moves' \in 0 .. MaxMoves
    BY <1>7, FaultTyped DEF CancelOld, Keep, SaveIntent, Persist, Book, Counters
  <2>3. pc' \in {"idle", "look", "cancel", "submit", "send", "answer", "confirm", "adopt", "fallback",
                "emergency", "finish", "clean", "clear", "mark"} /\ target' \in Prices \cup {0}
    BY <1>7, FaultTyped DEF CancelOld, Goto, Counters
  <2> QED BY <2>1, <2>2, <2>3 DEF Counters
<1>8. CASE BeginSubmit
  <2>1. faults' \in 0 .. MaxFaults
    BY <1>8, FaultTyped DEF BeginSubmit, Keep, Counters, NoFault
  <2>2. open' \in BOOLEAN /\ miss' \in BOOLEAN /\ moves' \in 0 .. MaxMoves
    BY <1>8, FaultTyped DEF BeginSubmit, Keep, SaveIntent, Persist, Book, Counters
  <2>3. pc' \in {"idle", "look", "cancel", "submit", "send", "answer", "confirm", "adopt", "fallback",
                "emergency", "finish", "clean", "clear", "mark"} /\ target' \in Prices \cup {0}
    BY <1>8, FaultTyped DEF BeginSubmit, Goto, Counters
  <2> QED BY <2>1, <2>2, <2>3 DEF Counters
<1>9. CASE Send
  <2>1. faults' \in 0 .. MaxFaults
    BY <1>9, FaultTyped DEF Send, Keep, Counters, NoFault
  <2>2. open' \in BOOLEAN /\ miss' \in BOOLEAN /\ moves' \in 0 .. MaxMoves
    BY <1>9, FaultTyped DEF Send, Keep, SaveIntent, Persist, Book, Counters
  <2>3. pc' \in {"idle", "look", "cancel", "submit", "send", "answer", "confirm", "adopt", "fallback",
                "emergency", "finish", "clean", "clear", "mark"} /\ target' \in Prices \cup {0}
    BY <1>9, FaultTyped DEF Send, Goto, Counters
  <2> QED BY <2>1, <2>2, <2>3 DEF Counters
<1>10. CASE SubmitAnswered
  <2>1. faults' \in 0 .. MaxFaults
    BY <1>10, FaultTyped DEF SubmitAnswered, Keep, Counters, NoFault
  <2>2. open' \in BOOLEAN /\ miss' \in BOOLEAN /\ moves' \in 0 .. MaxMoves
    BY <1>10, FaultTyped DEF SubmitAnswered, Keep, SaveIntent, Persist, Book, Counters
  <2>3. pc' \in {"idle", "look", "cancel", "submit", "send", "answer", "confirm", "adopt", "fallback",
                "emergency", "finish", "clean", "clear", "mark"} /\ target' \in Prices \cup {0}
    BY <1>10, FaultTyped DEF SubmitAnswered, Goto, Counters
  <2> QED BY <2>1, <2>2, <2>3 DEF Counters
<1>11. CASE SubmitRejected
  <2>1. faults' \in 0 .. MaxFaults
    BY <1>11, FaultTyped DEF SubmitRejected, Keep, Counters, NoFault
  <2>2. open' \in BOOLEAN /\ miss' \in BOOLEAN /\ moves' \in 0 .. MaxMoves
    BY <1>11, FaultTyped DEF SubmitRejected, Keep, SaveIntent, Persist, Book, Counters
  <2>3. pc' \in {"idle", "look", "cancel", "submit", "send", "answer", "confirm", "adopt", "fallback",
                "emergency", "finish", "clean", "clear", "mark"} /\ target' \in Prices \cup {0}
    BY <1>11, FaultTyped DEF SubmitRejected, Goto, Counters
  <2> QED BY <2>1, <2>2, <2>3 DEF Counters
<1>12. CASE SubmitUncertain
  <2>1. faults' \in 0 .. MaxFaults
    BY <1>12, FaultTyped DEF SubmitUncertain, Keep, Counters, NoFault
  <2>2. open' \in BOOLEAN /\ miss' \in BOOLEAN /\ moves' \in 0 .. MaxMoves
    BY <1>12, FaultTyped DEF SubmitUncertain, Keep, SaveIntent, Persist, Book, Counters
  <2>3. pc' \in {"idle", "look", "cancel", "submit", "send", "answer", "confirm", "adopt", "fallback",
                "emergency", "finish", "clean", "clear", "mark"} /\ target' \in Prices \cup {0}
    BY <1>12, FaultTyped DEF SubmitUncertain, Goto, Counters
  <2> QED BY <2>1, <2>2, <2>3 DEF Counters
<1>13. CASE NotExecuted
  <2>1. faults' \in 0 .. MaxFaults
    BY <1>13, FaultTyped DEF NotExecuted, Keep, Counters, NoFault
  <2>2. open' \in BOOLEAN /\ miss' \in BOOLEAN /\ moves' \in 0 .. MaxMoves
    BY <1>13, FaultTyped DEF NotExecuted, Keep, SaveIntent, Persist, Book, Counters
  <2>3. pc' \in {"idle", "look", "cancel", "submit", "send", "answer", "confirm", "adopt", "fallback",
                "emergency", "finish", "clean", "clear", "mark"} /\ target' \in Prices \cup {0}
    BY <1>13, FaultTyped DEF NotExecuted, Goto, Counters
  <2> QED BY <2>1, <2>2, <2>3 DEF Counters
<1>14. CASE Confirm
  <2>1. faults' \in 0 .. MaxFaults
    BY <1>14, FaultTyped DEF Confirm, Keep, Counters, NoFault
  <2>2. open' \in BOOLEAN /\ miss' \in BOOLEAN /\ moves' \in 0 .. MaxMoves
    BY <1>14, FaultTyped DEF Confirm, Keep, SaveIntent, Persist, Book, Counters
  <2>3. pc' \in {"idle", "look", "cancel", "submit", "send", "answer", "confirm", "adopt", "fallback",
                "emergency", "finish", "clean", "clear", "mark"} /\ target' \in Prices \cup {0}
    BY <1>14, FaultTyped DEF Confirm, Goto, Counters
  <2> QED BY <2>1, <2>2, <2>3 DEF Counters
<1>15. CASE AdoptStop
  <2>1. faults' \in 0 .. MaxFaults
    BY <1>15, FaultTyped DEF AdoptStop, Keep, Counters, NoFault
  <2>2. open' \in BOOLEAN /\ miss' \in BOOLEAN /\ moves' \in 0 .. MaxMoves
    BY <1>15, FaultTyped DEF AdoptStop, Keep, SaveIntent, Persist, Book, Counters
  <2>3. pc' \in {"idle", "look", "cancel", "submit", "send", "answer", "confirm", "adopt", "fallback",
                "emergency", "finish", "clean", "clear", "mark"} /\ target' \in Prices \cup {0}
    BY <1>15, FaultTyped DEF AdoptStop, Goto, Counters
  <2> QED BY <2>1, <2>2, <2>3 DEF Counters
<1>16. CASE Fallback
  <2>1. faults' \in 0 .. MaxFaults
    BY <1>16, FaultTyped DEF Fallback, Keep, Counters, NoFault
  <2>2. open' \in BOOLEAN /\ miss' \in BOOLEAN /\ moves' \in 0 .. MaxMoves
    BY <1>16, FaultTyped DEF Fallback, Keep, SaveIntent, Persist, Book, Counters
  <2>3. pc' \in {"idle", "look", "cancel", "submit", "send", "answer", "confirm", "adopt", "fallback",
                "emergency", "finish", "clean", "clear", "mark"} /\ target' \in Prices \cup {0}
    BY <1>16, FaultTyped DEF Fallback, Goto, Counters
  <2> QED BY <2>1, <2>2, <2>3 DEF Counters
<1>17. CASE EmergencyClose
  <2>1. faults' \in 0 .. MaxFaults
    BY <1>17, FaultTyped DEF EmergencyClose, Keep, Counters, NoFault
  <2>2. open' \in BOOLEAN /\ miss' \in BOOLEAN /\ moves' \in 0 .. MaxMoves
    BY <1>17, FaultTyped DEF EmergencyClose, Keep, SaveIntent, Persist, Book, Counters
  <2>3. pc' \in {"idle", "look", "cancel", "submit", "send", "answer", "confirm", "adopt", "fallback",
                "emergency", "finish", "clean", "clear", "mark"} /\ target' \in Prices \cup {0}
    BY <1>17, FaultTyped DEF EmergencyClose, Goto, Counters
  <2> QED BY <2>1, <2>2, <2>3 DEF Counters
<1>18. CASE MissPosition
  <2>1. faults' \in 0 .. MaxFaults
    BY <1>18, FaultTyped DEF MissPosition, Keep, Counters, NoFault
  <2>2. open' \in BOOLEAN /\ miss' \in BOOLEAN /\ moves' \in 0 .. MaxMoves
    BY <1>18, FaultTyped DEF MissPosition, Keep, SaveIntent, Persist, Book, Counters
  <2>3. pc' \in {"idle", "look", "cancel", "submit", "send", "answer", "confirm", "adopt", "fallback",
                "emergency", "finish", "clean", "clear", "mark"} /\ target' \in Prices \cup {0}
    BY <1>18, FaultTyped DEF MissPosition, Goto, Counters
  <2> QED BY <2>1, <2>2, <2>3 DEF Counters
<1>19. CASE FinishLook
  <2>1. faults' \in 0 .. MaxFaults
    BY <1>19, FaultTyped DEF FinishLook, Keep, Counters, NoFault
  <2>2. open' \in BOOLEAN /\ miss' \in BOOLEAN /\ moves' \in 0 .. MaxMoves
    BY <1>19, FaultTyped DEF FinishLook, Keep, SaveIntent, Persist, Book, Counters
  <2>3. pc' \in {"idle", "look", "cancel", "submit", "send", "answer", "confirm", "adopt", "fallback",
                "emergency", "finish", "clean", "clear", "mark"} /\ target' \in Prices \cup {0}
    BY <1>19, FaultTyped DEF FinishLook, Goto, Counters
  <2> QED BY <2>1, <2>2, <2>3 DEF Counters
<1>20. CASE FinishCancel
  <2>1. faults' \in 0 .. MaxFaults
    BY <1>20, FaultTyped DEF FinishCancel, Keep, Counters, NoFault
  <2>2. open' \in BOOLEAN /\ miss' \in BOOLEAN /\ moves' \in 0 .. MaxMoves
    BY <1>20, FaultTyped DEF FinishCancel, Keep, SaveIntent, Persist, Book, Counters
  <2>3. pc' \in {"idle", "look", "cancel", "submit", "send", "answer", "confirm", "adopt", "fallback",
                "emergency", "finish", "clean", "clear", "mark"} /\ target' \in Prices \cup {0}
    BY <1>20, FaultTyped DEF FinishCancel, Goto, Counters
  <2> QED BY <2>1, <2>2, <2>3 DEF Counters
<1>21. CASE FinishClear
  <2>1. faults' \in 0 .. MaxFaults
    BY <1>21, FaultTyped DEF FinishClear, Keep, Counters, NoFault
  <2>2. open' \in BOOLEAN /\ miss' \in BOOLEAN /\ moves' \in 0 .. MaxMoves
    BY <1>21, FaultTyped DEF FinishClear, Keep, SaveIntent, Persist, Book, Counters
  <2>3. pc' \in {"idle", "look", "cancel", "submit", "send", "answer", "confirm", "adopt", "fallback",
                "emergency", "finish", "clean", "clear", "mark"} /\ target' \in Prices \cup {0}
    BY <1>21, FaultTyped DEF FinishClear, Goto, Counters
  <2> QED BY <2>1, <2>2, <2>3 DEF Counters
<1>22. CASE MarkClosed
  <2>1. faults' \in 0 .. MaxFaults
    BY <1>22, FaultTyped DEF MarkClosed, Keep, Counters, NoFault
  <2>2. open' \in BOOLEAN /\ miss' \in BOOLEAN /\ moves' \in 0 .. MaxMoves
    BY <1>22, FaultTyped DEF MarkClosed, Keep, SaveIntent, Persist, Book, Counters
  <2>3. pc' \in {"idle", "look", "cancel", "submit", "send", "answer", "confirm", "adopt", "fallback",
                "emergency", "finish", "clean", "clear", "mark"} /\ target' \in Prices \cup {0}
    BY <1>22, FaultTyped DEF MarkClosed, Goto, Counters
  <2> QED BY <2>1, <2>2, <2>3 DEF Counters
<1>23. CASE ResolveFails
  <2>1. faults' \in 0 .. MaxFaults
    BY <1>23, FaultTyped DEF ResolveFails, Keep, Counters, NoFault
  <2>2. open' \in BOOLEAN /\ miss' \in BOOLEAN /\ moves' \in 0 .. MaxMoves
    BY <1>23, FaultTyped DEF ResolveFails, Keep, SaveIntent, Persist, Book, Counters
  <2>3. pc' \in {"idle", "look", "cancel", "submit", "send", "answer", "confirm", "adopt", "fallback",
                "emergency", "finish", "clean", "clear", "mark"} /\ target' \in Prices \cup {0}
    BY <1>23, FaultTyped DEF ResolveFails, Goto, Counters
  <2> QED BY <2>1, <2>2, <2>3 DEF Counters
<1>24. CASE Arrive
  <2>1. faults' \in 0 .. MaxFaults
    BY <1>24, FaultTyped DEF Arrive, Keep, Counters, NoFault
  <2>2. open' \in BOOLEAN /\ miss' \in BOOLEAN /\ moves' \in 0 .. MaxMoves
    BY <1>24, FaultTyped DEF Arrive, Keep, SaveIntent, Persist, Book, Counters
  <2>3. pc' \in {"idle", "look", "cancel", "submit", "send", "answer", "confirm", "adopt", "fallback",
                "emergency", "finish", "clean", "clear", "mark"} /\ target' \in Prices \cup {0}
    BY <1>24, FaultTyped DEF Arrive, Goto, Counters
  <2> QED BY <2>1, <2>2, <2>3 DEF Counters
<1>25. CASE Lost
  <2>1. faults' \in 0 .. MaxFaults
    BY <1>25, FaultTyped DEF Lost, Keep, Counters, NoFault
  <2>2. open' \in BOOLEAN /\ miss' \in BOOLEAN /\ moves' \in 0 .. MaxMoves
    BY <1>25, FaultTyped DEF Lost, Keep, SaveIntent, Persist, Book, Counters
  <2>3. pc' \in {"idle", "look", "cancel", "submit", "send", "answer", "confirm", "adopt", "fallback",
                "emergency", "finish", "clean", "clear", "mark"} /\ target' \in Prices \cup {0}
    BY <1>25, FaultTyped DEF Lost, Goto, Counters
  <2> QED BY <2>1, <2>2, <2>3 DEF Counters
<1>26. CASE Fire
  <2>1. faults' \in 0 .. MaxFaults
    BY <1>26, FaultTyped DEF Fire, Keep, Counters, NoFault
  <2>2. open' \in BOOLEAN /\ miss' \in BOOLEAN /\ moves' \in 0 .. MaxMoves
    BY <1>26, FaultTyped DEF Fire, Keep, SaveIntent, Persist, Book, Counters
  <2>3. pc' \in {"idle", "look", "cancel", "submit", "send", "answer", "confirm", "adopt", "fallback",
                "emergency", "finish", "clean", "clear", "mark"} /\ target' \in Prices \cup {0}
    BY <1>26, FaultTyped DEF Fire, Goto, Counters
  <2> QED BY <2>1, <2>2, <2>3 DEF Counters
<1>27. CASE Fired
  <2>1. faults' \in 0 .. MaxFaults
    BY <1>27, FaultTyped DEF Fired, Keep, Counters, NoFault
  <2>2. open' \in BOOLEAN /\ miss' \in BOOLEAN /\ moves' \in 0 .. MaxMoves
    BY <1>27, FaultTyped DEF Fired, Keep, SaveIntent, Persist, Book, Counters
  <2>3. pc' \in {"idle", "look", "cancel", "submit", "send", "answer", "confirm", "adopt", "fallback",
                "emergency", "finish", "clean", "clear", "mark"} /\ target' \in Prices \cup {0}
    BY <1>27, FaultTyped DEF Fired, Goto, Counters
  <2> QED BY <2>1, <2>2, <2>3 DEF Counters
<1>28. CASE OwnerStop
  <2>1. faults' \in 0 .. MaxFaults
    BY <1>28, FaultTyped DEF OwnerStop, Keep, Counters, NoFault
  <2>2. open' \in BOOLEAN /\ miss' \in BOOLEAN /\ moves' \in 0 .. MaxMoves
    BY <1>28, FaultTyped DEF OwnerStop, Keep, SaveIntent, Persist, Book, Counters
  <2>3. pc' \in {"idle", "look", "cancel", "submit", "send", "answer", "confirm", "adopt", "fallback",
                "emergency", "finish", "clean", "clear", "mark"} /\ target' \in Prices \cup {0}
    BY <1>28, FaultTyped DEF OwnerStop, Goto, Counters
  <2> QED BY <2>1, <2>2, <2>3 DEF Counters
<1>29. CASE CloseEnds
  <2>1. faults' \in 0 .. MaxFaults
    BY <1>29, FaultTyped DEF CloseEnds, Keep, Counters, NoFault
  <2>2. open' \in BOOLEAN /\ miss' \in BOOLEAN /\ moves' \in 0 .. MaxMoves
    BY <1>29, FaultTyped DEF CloseEnds, Keep, SaveIntent, Persist, Book, Counters
  <2>3. pc' \in {"idle", "look", "cancel", "submit", "send", "answer", "confirm", "adopt", "fallback",
                "emergency", "finish", "clean", "clear", "mark"} /\ target' \in Prices \cup {0}
    BY <1>29, FaultTyped DEF CloseEnds, Goto, Counters
  <2> QED BY <2>1, <2>2, <2>3 DEF Counters
<1>30. CASE Tick
  <2>1. faults' \in 0 .. MaxFaults
    BY <1>30, FaultTyped DEF Tick, Keep, Counters, NoFault
  <2>2. open' \in BOOLEAN /\ miss' \in BOOLEAN /\ moves' \in 0 .. MaxMoves
    BY <1>30, FaultTyped DEF Tick, Keep, SaveIntent, Persist, Book, Counters
  <2>3. pc' \in {"idle", "look", "cancel", "submit", "send", "answer", "confirm", "adopt", "fallback",
                "emergency", "finish", "clean", "clear", "mark"} /\ target' \in Prices \cup {0}
    BY <1>30, FaultTyped DEF Tick, Goto, Counters
  <2> QED BY <2>1, <2>2, <2>3 DEF Counters
<1>31. CASE Restart
  <2>1. faults' \in 0 .. MaxFaults
    BY <1>31, FaultTyped DEF Restart, Keep, Counters, NoFault
  <2>2. open' \in BOOLEAN /\ miss' \in BOOLEAN /\ moves' \in 0 .. MaxMoves
    BY <1>31, FaultTyped DEF Restart, Keep, SaveIntent, Persist, Book, Counters
  <2>3. pc' \in {"idle", "look", "cancel", "submit", "send", "answer", "confirm", "adopt", "fallback",
                "emergency", "finish", "clean", "clear", "mark"} /\ target' \in Prices \cup {0}
    BY <1>31, FaultTyped DEF Restart, Goto, Counters
  <2> QED BY <2>1, <2>2, <2>3 DEF Counters
<1>32. CASE UNCHANGED vars
  <2> QED BY <1>32, FaultTyped DEF Counters, vars
<1> QED BY <1>1, <1>2, <1>3, <1>4, <1>5, <1>6, <1>7, <1>8, <1>9, <1>10, <1>11, <1>12, <1>13,
           <1>14, <1>15, <1>16, <1>17, <1>18, <1>19, <1>20, <1>21, <1>22, <1>23, <1>24, <1>25,
           <1>26, <1>27, <1>28, <1>29, <1>30, <1>31, <1>32 DEF Next, Handler, Look, Submission,
           Finish, Venue

-----------------------------------------------------------------------------
LEMMA InitInv == StopGuardAssumption /\ Init => IInv
<1> SUFFICES ASSUME StopGuardAssumption, Init PROVE IInv
  OBVIOUS
<1>1. /\ MaxFaults \in Nat /\ MaxMoves \in Nat /\ Grace \in Nat /\ Alert \in Nat
      /\ Foreign # NoId /\ NoId \notin StopIds
  BY DEF StopGuardAssumption, Foreign, NoId, StopIds
<1>2. PICK p \in Prices : ctx = [state |-> "OPEN", price |-> p, requested |-> p, oid |-> NoId,
                                 intent |-> NoIntent, closing |-> FALSE]
  BY DEF Init
<1>3. NoIntent \in Intent /\ NoIntent.stage = "NONE" /\ NoIntent.id = NoId /\ NoIntent.old = NoId
  BY <1>1 DEF NoIntent, Intent
<1>4. ctx.intent = NoIntent /\ ctx.oid = NoId /\ ctx.state = "OPEN"
      /\ ctx \in [state : {"OPEN", "CLOSED"}, price : Prices, requested : Prices,
                  oid : StopIds \cup {NoId, Foreign}, intent : Intent, closing : BOOLEAN]
  BY <1>2, <1>3
<1>5. \A i \in Slots : stops[i].st = "none"
  BY DEF Init, Slots
<1>6. stops \in [StopIds \cup {Foreign} -> [price : Prices \cup {0},
                    st : {"none", "flying", "live", "fired", "ended", "refused"}]]
  BY DEF Init
<1>7. TypeOK
  <2>1. faults \in 0 .. MaxFaults /\ moves \in 0 .. MaxMoves
    BY <1>1 DEF Init
  <2>2. (ctx.intent.stage = "NONE") = (ctx.intent.id = NoId)
    BY <1>3, <1>4
  <2>3. open \in BOOLEAN /\ miss \in BOOLEAN /\ pc = "idle" /\ target = 0
    BY DEF Init
  <2> QED BY <1>4, <1>6, <2>1, <2>2, <2>3 DEF TypeOK
<1>8. Foreign \in Slots /\ StopIds \subseteq Slots
  BY DEF Slots
<1>9. IntentFits /\ HandlerFits /\ MayTrigger = {}
  BY <1>3, <1>4, <1>5, <1>8 DEF Init, IntentFits, HandlerFits, pending, MayTrigger
<1>10. BookFits /\ Flights
  BY <1>1, <1>3, <1>4, <1>5, <1>8 DEF BookFits, Flights
<1>11. Holders /\ OldIsLooser /\ RecordIsReal
  BY <1>3, <1>4, <1>9 DEF Holders, OldIsLooser, RecordIsReal, pending
<1> QED BY <1>7, <1>9, <1>10, <1>11 DEF IInv, Fits

LEMMA Inductive == IInv /\ [Next]_vars => IInv'
<1> SUFFICES ASSUME IInv, [Next]_vars PROVE IInv'
  OBVIOUS
<1>1. Kinds' /\ Fits' /\ Counters'
  BY FitsStep, CountersStep
<1>2. TypeOK'
  BY <1>1 DEF TypeOK, Kinds, Counters, CtxType, StopType, Slots, Statuses
<1> QED BY <1>1, <1>2 DEF IInv, StopGuardAssumption

(* The inductive invariant holds of every trade.                           *)
THEOREM Invariance == StopGuardAssumption /\ Spec => []IInv
<1>1. StopGuardAssumption /\ Init => IInv
  BY InitInv
<1>2. IInv /\ [Next]_vars => IInv'
  BY Inductive
<1> QED BY <1>1, <1>2, PTL DEF Spec

(* Every variable keeps its type: the stages of the durable intent, its    *)
(* counters and the book at the venue (stop_protection.go).                *)
THEOREM TypeCorrect == StopGuardAssumption /\ Spec => []TypeOK
<1>1. IInv => TypeOK
  BY DEF IInv
<1> QED BY <1>1, Invariance, PTL

(* A set whose members are all the same has one at most.                   *)
LEMMA AtMostOne ==
    ASSUME NEW S, \A i, j \in S : i = j
    PROVE  Cardinality(S) <= 1
<1>1. CASE S = {}
  BY <1>1, FS_EmptySet
<1>2. CASE S # {}
  <2>1. PICK x \in S : TRUE
    BY <1>2
  <2>2. S = {x}
    BY <2>1
  <2>3. Cardinality(S) = 1
    BY <2>2, FS_Singleton
  <2> QED BY <2>3
<1> QED BY <1>1, <1>2

(* What the invariant means for the stops.                                 *)
LEMMA IsSafe == IInv => OneStopOut /\ ClosedIsClean /\ RecordIsReal
<1> SUFFICES ASSUME IInv PROVE OneStopOut /\ ClosedIsClean /\ RecordIsReal
  OBVIOUS
<1>1. \A i, j \in MayTrigger : i = j
  BY Fields DEF IInv, Fits, Holders, Sent, pending
<1>2. OneStopOut
  BY <1>1, AtMostOne DEF OneStopOut
<1>3. ClosedIsClean /\ RecordIsReal
  BY DEF IInv, Fits, Holders, ClosedIsClean
<1> QED BY <1>2, <1>3

(* At no time may two stops of the trade reach the book, whatever requests *)
(* are lost, late or refused and however often the engine restarts         *)
(* (setStopProtection with its durable intent).                            *)
THEOREM OneStop == StopGuardAssumption /\ Spec => []OneStopOut
BY IsSafe, Invariance, PTL

(* A trade that is CLOSED leaves no stop of its own behind                 *)
(* (finishTradeOrders waits for the requests it cannot account for).       *)
THEOREM Clean == StopGuardAssumption /\ Spec => []ClosedIsClean
BY IsSafe, Invariance, PTL

(* The recorded stop was on the book, at the price that the trade records  *)
(* (the confirmation, retainSetProtection and adoptExistingStop).          *)
THEOREM Record == StopGuardAssumption /\ Spec => []RecordIsReal
BY IsSafe, Invariance, PTL

(* What CancelOld takes off the book is the old stop of the intent.         *)
LEMMA TighterStep == IInv /\ [Next]_vars => TighterOnly
<1> SUFFICES ASSUME IInv, [Next]_vars, NEW i \in DOMAIN stops, pc = "cancel", pc' # pc,
                    stops[i].st = "live", stops'[i].st = "ended"
             PROVE  /\ ctx.intent.price >= stops[i].price
                    /\ i = Foreign => stops[i].price = ctx.price
  BY DEF TighterOnly
<1>1. CancelOld
  BY DEF Next, Handler, Look, Submission, Finish, Venue, vars, BeginPass, RetainStop,
     PlanStop,
     ResumeStop, RejectedStop, ResolveStop, BeginSubmit, Send, SubmitAnswered, SubmitRejected,
     SubmitUncertain, NotExecuted, Confirm, AdoptStop, Fallback, EmergencyClose, MissPosition,
     FinishLook, FinishCancel, FinishClear, MarkClosed, ResolveFails, Arrive, Lost, Fire, Fired,
     OwnerStop, CloseEnds, Tick, Restart, Keep
<1>2. i \in Slots /\ ctx.intent.old \in Slots /\ pending
  BY Fields, Basics DEF IInv, Fits, HandlerFits, pending, Slots
<1>3. i = ctx.intent.old
  <2>1. Book(ctx.intent.old, "ended")
    BY <1>1 DEF CancelOld
  <2>2. BookedAfter(ctx.intent.old, "ended")
    BY <1>2, <2>1, BookBook DEF Statuses
  <2> QED BY <1>2, <2>2 DEF BookedAfter, Alive
<1> QED BY <1>2, <1>3, Basics DEF IInv, Fits, OldIsLooser

(* The guard takes a working stop off the book only for one at least as    *)
(* tight, and the owner's only at the very price the trade recorded        *)
(* (CancelStopOrder in setStopProtection).                                 *)
THEOREM ForTighter == StopGuardAssumption /\ Spec => CancelsForTighter
<1>1. IInv /\ [Next]_vars => [TighterOnly]_vars
  BY TighterStep
<1> QED BY <1>1, Invariance, PTL DEF Spec, CancelsForTighter

=============================================================================
