------------------------ MODULE MessageSource_proofs ------------------------
(***************************************************************************)
(* Proofs about the message source, for any number of messages, any size   *)
(* of the outbox and of a page of history, and any number of faults.       *)
(*                                                                         *)
(* ReadyIsGapless is about the backend's row; what makes it true is spread *)
(* over two processes.  The argument follows an event: behind the messages *)
(* stored stands the outbox, and behind the outbox what a cut session will *)
(* replay (Line).  While no recovery is owed nothing posted is missing     *)
(* from the three, and in their order no message comes before one that is  *)
(* older and still missing (Good).  A recovery is over only when what it   *)
(* read has been stored (Caught), and from a frame that says "ready" to    *)
(* the next state the events in transit leave no hole (Backed).            *)
(*                                                                         *)
(* RevisionsInOrder is about the trader's queue; source times would take a *)
(* revision out of order if a stamp could be lost on the way to the        *)
(* backend, and none is (Stamped), whichever text stands under it.         *)
(***************************************************************************)
EXTENDS MessageSource, SequenceTheorems, FiniteSetTheorems, TLAPS

-----------------------------------------------------------------------------
SourceStates == {"recovering", "ready", "gap"}
WorkerStates == {"disabled", "connecting", "connected", "recovering", "reconnecting",
                 "buffer_failed"}
Events == [k : {"create", "update"}, m : Msgs, v : {0, 1, 2}]
StateFrame(c) == [k |-> "channel", s |-> c]
Frames == {[k |-> "channel", s |-> c] : c \in SourceStates} \cup Events \cup {Old}
Versions == [Msgs -> {Nothing, 0, 1, 2}]
Tasks == [pc : {"idle", "fetch", "append", "cards", "card", "drain"}, ok : BOOLEAN,
          h : Seq(Events), full : BOOLEAN, todo : SUBSET Msgs, left : Nat]
Revisions == [m : Msgs, v : {0, 1, 2}, status : {"pending", "processing", "done"}]
Jobs == [pc : {"idle", "pick", "handle"}, d : Nat]

DiscordTyped ==
    /\ posted \in 0 .. N /\ edited \in 0 .. N /\ missed \in Seq(Events)
    /\ gw \in {"off", "starting", "live", "cut"} /\ faults \in Nat
BoxTyped ==
    /\ q \in Seq(Events) /\ Len(q) <= Capacity /\ cache \in Versions
    /\ ckpt \in 0 .. posted /\ anchor \in {Nothing} \cup 0 .. ckpt
ClientTyped ==
    /\ st \in {"none"} \cup SourceStates /\ wst \in WorkerStates
    /\ isReady \in BOOLEAN /\ onReady \in BOOLEAN /\ sched \in BOOLEAN
    /\ retry \in BOOLEAN /\ cards \in SUBSET Msgs
    /\ rc \in Tasks
PipeTyped ==
    /\ dl \in {"idle", "wait", "acked"} /\ link \in {"down", "eof", "up", "conf"}
    /\ ask \in BOOLEAN /\ ack \in {"none", "ok", "err"} /\ seen \in BOOLEAN
    /\ barrier \in BOOLEAN /\ (barrier => st # "none") /\ sock \in Seq(Frames)
BackendTyped ==
    /\ row \in {"none", "unknown"} \cup SourceStates /\ db \in Versions
    /\ dlv \in Seq(Revisions) /\ dp \in Jobs
    /\ gst \in BOOLEAN
Typed ==
    /\ MessageSourceAssumption
    /\ DiscordTyped /\ BoxTyped /\ ClientTyped /\ PipeTyped /\ BackendTyped

(* What an event or a copy of a message may say: only Card has a stamp,    *)
(* once it was edited.  The active cards, those still to be read and the   *)
(* one that was read are messages the backend has stored.                  *)
Said(m, v) == m <= posted /\ (v > 0 => m = Card /\ edited >= Card)
SaidIn(s) == \A i \in 1 .. Len(s) : Said(s[i].m, s[i].v)
Known ==
    /\ edited > 0 => edited >= Card /\ Card <= posted
    /\ SaidIn(q) /\ SaidIn(missed) /\ SaidIn(rc.h)
    /\ \A i \in 1 .. Len(sock) : IsEvent(sock[i]) => Said(sock[i].m, sock[i].v)
    /\ \A m \in Msgs : /\ cache[m] # Nothing => Said(m, cache[m])
                       /\ db[m] # Nothing => Said(m, db[m])
    /\ \A m \in cards \cup rc.todo : db[m] # Nothing
    /\ rc.pc = "card" => \A i \in 1 .. Len(rc.h) : db[rc.h[i].m] # Nothing
    /\ missed # <<>> => gw = "cut"

(* A stamp does not go back: the collector's copy has one if the backend's *)
(* has, and what is in transit has one if, and only if, the copy has.      *)
Stamped ==
    /\ \A m \in Msgs : db[m] > 0 => cache[m] > 0
    /\ \A i \in 1 .. Len(sock) : IsEvent(sock[i]) =>
          /\ sock[i].v > 0 <=> cache[sock[i].m] > 0
          /\ sock[i].v = 0 => q[1].v = 0

(* The deliveries of the trader: of the revisions of a message none is     *)
(* begun before those that precede it are over, and the stamped ones are   *)
(* the last.                                                               *)
Begun(d) == dlv[d].status \in {"processing", "done"}
Follows(d, o) == d < o /\ dlv[d].m = dlv[o].m
Handed ==
    /\ \A d \in DOMAIN dlv : /\ db[dlv[d].m] # Nothing
                             /\ dlv[d].v > 0 => db[dlv[d].m] > 0
    /\ dp.pc = "handle" => dp.d \in DOMAIN dlv
    /\ \A d \in DOMAIN dlv : dlv[d].status = "processing" <=> dp.pc = "handle" /\ dp.d = d
    /\ \A d, o \in DOMAIN dlv : Follows(d, o) => /\ dlv[d].v > 0 => dlv[o].v > 0
                                                 /\ Begun(o) => dlv[d].status = "done"

Stored == {m \in Msgs : db[m] # Nothing}

(* Every event in transit is the head of the outbox, and the head leaves   *)
(* only once it is stored.                                                 *)
Heading ==
    /\ dl # "idle" => q # <<>>
    /\ \A i \in 1 .. Len(sock) : IsEvent(sock[i]) =>
          q # <<>> /\ sock[i].m = q[1].m /\ cache[q[1].m] # Nothing
    /\ seen => q # <<>> /\ q[1].m \in Stored
    /\ ack = "ok" => dl # "idle"
    /\ dl = "acked" \/ ack = "ok" => q[1].m \in Stored
    /\ link = "down" => sock = <<>>
    /\ ckpt = 0 \/ ckpt \in Stored

(* No hole in a set of messages; what the first i events of s name; and    *)
(* that storing s event by event leaves no hole in S from the L-th on.     *)
Down(S) == \A b \in S : \A a \in 1 .. b - 1 : a \in S
Firsts(s, i) == {s[j].m : j \in 1 .. i}
Names(s) == Firsts(s, Len(s))
Ordered(S, s, L) == \A i \in L .. Len(s) : Down(S \cup Firsts(s, i))

(* What is still to be stored.  An outbox that failed captures no more.    *)
Waiting == IF Halted THEN <<>> ELSE missed
Line == q \o Waiting
On == ~Halted /\ gw \in {"live", "cut"}

(* Once the first L events of the line and the messages X are stored there *)
(* is no hole, and while there is a session nothing posted is missing.     *)
Covers(L, X) ==
    /\ Ordered(Stored \cup X, Line, L)
    /\ (~Halted /\ gw \in {"live", "cut"}) => 1 .. posted \subseteq Stored \cup X \cup Names(Line)
Good == Covers(0, {})

(* The recovery row: all that is before its anchor is stored, and it is    *)
(* there while a recovery is due or under way.                             *)
Working == rc.pc # "idle" /\ rc.ok
Anchored ==
    /\ anchor # Nothing => 1 .. anchor \subseteq Stored
    /\ sched => anchor # Nothing
    /\ Working => ~sched /\ anchor # Nothing
    /\ st = "ready" => anchor = Nothing

(* A recovery reads the cards, and waits, behind what it appended.         *)
Draining == rc.pc \in {"cards", "card", "drain"} /\ rc.ok

(* Without a recovery row nothing is missing; a recovery that has read the *)
(* whole history leaves nothing missing once that is stored.               *)
Caught ==
    /\ anchor = Nothing => Good
    /\ (rc.pc = "append" /\ rc.ok /\ rc.full) => Covers(Len(q), Names(rc.h))
    /\ Draining => rc.left <= Len(q) /\ (rc.full => Covers(rc.left, {}))

(* The state that the backend's row r has (j = 0), or will have when it    *)
(* has read the j-th of the frames s, is "ready"; it is the one in force   *)
(* when the i-th is read, or after the last.                               *)
IsState(f) == f.k = "channel"
ReadyAt(r, s, j) == \/ j = 0 /\ r = "ready"
                    \/ j \in 1 .. Len(s) /\ IsState(s[j]) /\ s[j].s = "ready"
InForce(r, s, j, i) == ReadyAt(r, s, j) /\ \A k \in j + 1 .. i - 1 : ~IsState(s[k])
LastReady(r, s) == \E j \in 0 .. Len(s) : InForce(r, s, j, Len(s) + 1)

(* Under "ready", now or later, the messages S stored have no hole, and    *)
(* neither have they with T, which the events in transit may add.          *)
Backed(r, s, S, T) ==
    /\ (\E j \in 0 .. Len(s) : ReadyAt(r, s, j)) => Down(S)
    /\ \A j \in 0 .. Len(s), i \in 1 .. Len(s) :
         (IsEvent(s[i]) /\ (InForce(r, s, j, i) \/ (ReadyAt(r, s, j) /\ i < j)))
            => Down(S \cup T)
Due == IF q = <<>> THEN {} ELSE {q[1].m}
Announced ==
    /\ (link = "conf" /\ ~barrier /\ LastReady(row, sock)) => Good /\ ~Working
    /\ Backed(row, sock, Stored, Due)

SourceInv == Typed /\ Known /\ Stamped /\ Handed /\ Heading /\ Anchored /\ Caught /\ Announced

-----------------------------------------------------------------------------
(* Sequences of events.                                                    *)

(* The messages that the first events of a sequence name.                  *)
LEMMA FirstsFacts ==
    ASSUME NEW s \in Seq(Events)
    PROVE  /\ Firsts(s, 0) = {}
           /\ \A i \in 0 .. Len(s) : Firsts(s, i) \subseteq Names(s)
           /\ Names(s) \subseteq Msgs
           /\ s # <<>> => Len(s) \in Nat \ {0} /\ s[1] \in Events
           /\ \A i \in 1 .. Len(s) : s[i] \in Events
<1>1. \A i \in 1 .. Len(s) : s[i] \in Events
  BY ElementOfSeq
<1>2. Len(s) \in Nat
  BY LenProperties
<1>3. Names(s) \subseteq Msgs
  BY <1>1 DEF Names, Firsts, Events
<1>4. \A i \in 0 .. Len(s) : Firsts(s, i) \subseteq Names(s)
  BY <1>2 DEF Firsts, Names
<1>5. s # <<>> => Len(s) \in Nat \ {0}
  BY EmptySeq
<1> QED BY <1>1, <1>3, <1>4, <1>5 DEF Firsts

(* They grow with each event of a sequence that is put behind another.     *)
LEMMA FirstsConcat ==
    ASSUME NEW s \in Seq(Events), NEW t \in Seq(Events)
    PROVE  /\ s \o t \in Seq(Events) /\ Len(s \o t) = Len(s) + Len(t)
           /\ \A i \in 0 .. Len(s) : Firsts(s \o t, i) = Firsts(s, i)
           /\ \A j \in 0 .. Len(t) : Firsts(s \o t, Len(s) + j) = Names(s) \cup Firsts(t, j)
           /\ Names(s \o t) = Names(s) \cup Names(t)
<1> DEFINE u == s \o t
<1>1. Len(s) \in Nat /\ Len(t) \in Nat
  BY LenProperties
<1>2. /\ u \in Seq(Events) /\ Len(u) = Len(s) + Len(t)
      /\ \A i \in 1 .. Len(s) + Len(t) : u[i] = IF i <= Len(s) THEN s[i] ELSE t[i - Len(s)]
  BY ConcatProperties
<1> HIDE DEF u
<1>3. \A i \in 0 .. Len(s) : Firsts(u, i) = Firsts(s, i)
  BY <1>1, <1>2 DEF Firsts
<1>4. ASSUME NEW j \in 0 .. Len(t) PROVE Firsts(u, Len(s) + j) = Names(s) \cup Firsts(t, j)
  <2>1. \A x \in Firsts(u, Len(s) + j) : x \in Names(s) \cup Firsts(t, j)
    <3> SUFFICES ASSUME NEW i \in 1 .. Len(s) + j PROVE u[i].m \in Names(s) \cup Firsts(t, j)
      BY DEF Firsts
    <3>1. CASE i <= Len(s)
      BY <1>1, <1>2, <3>1 DEF Firsts, Names
    <3>2. CASE ~(i <= Len(s))
      <4>1. i - Len(s) \in 1 .. j /\ u[i] = t[i - Len(s)]
        BY <1>1, <1>2, <3>2
      <4> QED BY <4>1 DEF Firsts
    <3> QED BY <3>1, <3>2
  <2>2. ASSUME NEW i \in 1 .. Len(s) PROVE s[i].m \in Firsts(u, Len(s) + j)
    <3>1. i \in 1 .. Len(s) + j /\ u[i] = s[i]
      BY <1>1, <1>2
    <3> QED BY <3>1 DEF Firsts
  <2>3. ASSUME NEW i \in 1 .. j PROVE t[i].m \in Firsts(u, Len(s) + j)
    <3>1. Len(s) + i \in 1 .. Len(s) + j /\ Len(s) + i > Len(s) /\ (Len(s) + i) - Len(s) = i
      BY <1>1
    <3>2. u[Len(s) + i] = t[i]
      BY <1>1, <1>2, <3>1
    <3> QED BY <3>1, <3>2 DEF Firsts
  <2> QED BY <2>1, <2>2, <2>3 DEF Firsts, Names
<1>5. Names(u) = Names(s) \cup Names(t)
  BY <1>1, <1>2, <1>4 DEF Names
<1> QED BY <1>2, <1>3, <1>4, <1>5 DEF u

(* Without its head a sequence names what the rest of it names.            *)
LEMMA FirstsTail ==
    ASSUME NEW s \in Seq(Events), s # <<>>
    PROVE  /\ Tail(s) \in Seq(Events) /\ Len(Tail(s)) = Len(s) - 1
           /\ Head(s) = s[1] /\ s[1] \in Events /\ Len(s) \in Nat \ {0}
           /\ \A i \in 1 .. Len(s) : Firsts(s, i) = {s[1].m} \cup Firsts(Tail(s), i - 1)
           /\ \A i \in 1 .. Len(Tail(s)) : Tail(s)[i] = s[i + 1]
<1> DEFINE t == Tail(s)
<1>1. Len(s) \in Nat \ {0} /\ s[1] \in Events
  BY FirstsFacts
<1>2. /\ t \in Seq(Events) /\ Len(t) = Len(s) - 1 /\ Head(s) = s[1]
      /\ \A i \in 1 .. Len(t) : t[i] = s[i + 1]
  BY HeadTailProperties
<1> HIDE DEF t
<1>3. ASSUME NEW i \in 1 .. Len(s) PROVE Firsts(s, i) = {s[1].m} \cup Firsts(t, i - 1)
  <2>1. ASSUME NEW j \in 1 .. i PROVE s[j].m \in {s[1].m} \cup Firsts(t, i - 1)
    <3>1. CASE j = 1
      BY <3>1
    <3>2. CASE j # 1
      <4>1. j - 1 \in 1 .. i - 1 /\ t[j - 1] = s[j]
        BY <1>1, <1>2, <3>2
      <4> QED BY <4>1 DEF Firsts
    <3> QED BY <3>1, <3>2
  <2>2. ASSUME NEW j \in 1 .. i - 1 PROVE t[j].m \in Firsts(s, i)
    <3>1. j + 1 \in 1 .. i /\ t[j] = s[j + 1]
      BY <1>1, <1>2
    <3> QED BY <3>1 DEF Firsts
  <2>3. s[1].m \in Firsts(s, i)
    BY <1>1 DEF Firsts
  <2> QED BY <2>1, <2>2, <2>3 DEF Firsts
<1> QED BY <1>1, <1>2, <1>3 DEF t

(* A sequence of one event, and of none.                                   *)
LEMMA OneEvent ==
    ASSUME NEW e \in Events
    PROVE  <<e>> \in Seq(Events) /\ Len(<<e>>) = 1 /\ Names(<<e>>) = {e.m}
BY DEF Names, Firsts

LEMMA NoEvent == <<>> \in Seq(Events) /\ Len(<<>>) = 0 /\ Names(<<>>) = {}
BY DEF Names, Firsts

-----------------------------------------------------------------------------
(* What is covered stays covered.                                          *)

(* What is ordered is so up to every event in it.                          *)
LEMMA OrderedConcat ==
    ASSUME NEW S, NEW s \in Seq(Events), NEW t \in Seq(Events), NEW L \in Nat
    PROVE  Ordered(S, s \o t, L) => Ordered(S, s, L)
<1>1. Len(s) \in Nat /\ Len(t) \in Nat
  BY LenProperties
<1> QED BY <1>1, FirstsConcat DEF Ordered

(* Events that all come next, one after the other, may be put behind.      *)
LEMMA OrderedAppend ==
    ASSUME NEW S, NEW s \in Seq(Events), NEW e \in Events, NEW L \in Nat,
           Ordered(S, s, L), Down(S \cup Names(s) \cup {e.m})
    PROVE  Ordered(S, s \o <<e>>, L)
<1>1. Len(s) \in Nat /\ <<e>> \in Seq(Events) /\ Len(<<e>>) = 1 /\ Names(<<e>>) = {e.m}
  BY LenProperties, OneEvent
<1>2. Len(s \o <<e>>) = Len(s) + 1 /\ Names(s \o <<e>>) = Names(s) \cup {e.m}
      /\ \A i \in 0 .. Len(s) : Firsts(s \o <<e>>, i) = Firsts(s, i)
  BY <1>1, FirstsConcat
<1>3. S \cup Names(s \o <<e>>) = S \cup Names(s) \cup {e.m}
  BY <1>2
<1> SUFFICES ASSUME NEW i \in L .. Len(s) + 1
             PROVE  Down(S \cup Firsts(s \o <<e>>, i))
  BY <1>2 DEF Ordered
<1>4. CASE i = Len(s) + 1
  BY <1>2, <1>3, <1>4 DEF Names
<1>5. CASE i \in L .. Len(s)
  BY <1>1, <1>2, <1>5 DEF Ordered
<1> QED BY <1>1, <1>4, <1>5

(* The head may leave once it is stored.                                   *)
LEMMA OrderedTail ==
    ASSUME NEW S, NEW s \in Seq(Events), NEW L \in Nat, s # <<>>, s[1].m \in S,
           Ordered(S, s, L)
    PROVE  /\ Ordered(S, Tail(s), Larger(L - 1, 0))
           /\ S \cup Names(Tail(s)) = S \cup Names(s)
<1>1. /\ Tail(s) \in Seq(Events) /\ Len(Tail(s)) = Len(s) - 1 /\ Len(s) \in Nat \ {0}
      /\ \A i \in 1 .. Len(s) : Firsts(s, i) = {s[1].m} \cup Firsts(Tail(s), i - 1)
  BY FirstsTail
<1>2. \A i \in 1 .. Len(s) : S \cup Firsts(s, i) = S \cup Firsts(Tail(s), i - 1)
  BY <1>1
<1>3. ASSUME NEW i \in Larger(L - 1, 0) .. Len(s) - 1 PROVE Down(S \cup Firsts(Tail(s), i))
  <2>1. i + 1 \in 1 .. Len(s) /\ i + 1 \in L .. Len(s) /\ (i + 1) - 1 = i
    BY <1>1 DEF Larger
  <2> QED BY <1>2, <2>1 DEF Ordered
<1> QED BY <1>1, <1>2, <1>3 DEF Ordered, Names

(* Storing the head of the outbox disturbs nothing behind it.              *)
LEMMA OrderedStore ==
    ASSUME NEW S, NEW s \in Seq(Events), NEW L \in Nat, s # <<>>, Ordered(S, s, L)
    PROVE  /\ Ordered(S \cup {s[1].m}, s, L)
           /\ S \cup {s[1].m} \cup Names(s) = S \cup Names(s)
<1>1. /\ Len(s) \in Nat \ {0} /\ Firsts(s, 0) = {}
      /\ \A i \in 1 .. Len(s) : s[1].m \in Firsts(s, i)
  BY FirstsFacts DEF Firsts
<1>2. \A i \in 1 .. Len(s) : (S \cup {s[1].m}) \cup Firsts(s, i) = S \cup Firsts(s, i)
  BY <1>1
<1>3. Firsts(s, 1) = {s[1].m}
  BY DEF Firsts
<1>4. (S \cup {s[1].m}) \cup Firsts(s, 0) = S \cup Firsts(s, 1)
  BY <1>1, <1>3
<1>5. ASSUME NEW i \in L .. Len(s) PROVE Down((S \cup {s[1].m}) \cup Firsts(s, i))
  <2>1. CASE i = 0
    BY <1>1, <1>4, <2>1 DEF Ordered
  <2>2. CASE i \in 1 .. Len(s)
    BY <1>2, <2>2 DEF Ordered
  <2> QED BY <1>1, <2>1, <2>2
<1> QED BY <1>1, <1>2, <1>5 DEF Ordered, Names

(* The events that a recovery appends are behind what was captured, and    *)
(* before what comes later.                                                *)
LEMMA OrderedInsert ==
    ASSUME NEW S, NEW X, NEW s \in Seq(Events), NEW e \in Seq(Events), NEW t \in Seq(Events),
           Ordered(S \cup X, s \o t, Len(s)), X \subseteq Names(e), Names(e) \subseteq S \cup X
    PROVE  Ordered(S, (s \o e) \o t, Len(s) + Len(e))
<1>1. /\ s \o e \in Seq(Events) /\ Len(s \o e) = Len(s) + Len(e)
      /\ Names(s \o e) = Names(s) \cup Names(e)
      /\ Len(s) \in Nat /\ Len(e) \in Nat /\ Len(t) \in Nat
  BY FirstsConcat, LenProperties
<1>2. /\ Len((s \o e) \o t) = Len(s) + Len(e) + Len(t) /\ Len(s \o t) = Len(s) + Len(t)
      /\ \A j \in 0 .. Len(t) :
           /\ Firsts((s \o e) \o t, (Len(s) + Len(e)) + j) = Names(s) \cup Names(e) \cup Firsts(t, j)
           /\ Firsts(s \o t, Len(s) + j) = Names(s) \cup Firsts(t, j)
      /\ Names((s \o e) \o t) = Names(s) \cup Names(e) \cup Names(t)
      /\ Names(s \o t) = Names(s) \cup Names(t)
  <2> DEFINE se == s \o e
  <2>1. se \in Seq(Events) /\ Len(se) = Len(s) + Len(e) /\ Names(se) = Names(s) \cup Names(e)
    BY <1>1
  <2> HIDE DEF se
  <2>2. /\ Len(se \o t) = Len(se) + Len(t)
        /\ \A j \in 0 .. Len(t) : Firsts(se \o t, Len(se) + j) = Names(se) \cup Firsts(t, j)
        /\ Names(se \o t) = Names(se) \cup Names(t)
    BY <2>1, FirstsConcat
  <2>3. /\ Len(s \o t) = Len(s) + Len(t) /\ Names(s \o t) = Names(s) \cup Names(t)
        /\ \A j \in 0 .. Len(t) : Firsts(s \o t, Len(s) + j) = Names(s) \cup Firsts(t, j)
    BY FirstsConcat
  <2>4. /\ Len(se \o t) = Len(s) + Len(e) + Len(t)
        /\ \A j \in 0 .. Len(t) :
             Firsts(se \o t, (Len(s) + Len(e)) + j) = Names(s) \cup Names(e) \cup Firsts(t, j)
        /\ Names(se \o t) = Names(s) \cup Names(e) \cup Names(t)
    BY <2>1, <2>2
  <2> QED BY <2>3, <2>4 DEF se
<1>3. \A j \in 0 .. Len(t) : S \cup Firsts((s \o e) \o t, (Len(s) + Len(e)) + j)
                             = (S \cup X) \cup Firsts(s \o t, Len(s) + j)
  BY <1>2
<1>4. ASSUME NEW i \in Len(s) + Len(e) .. Len(s) + Len(e) + Len(t)
      PROVE  Down(S \cup Firsts((s \o e) \o t, i))
  <2>1. PICK j \in 0 .. Len(t) : i = (Len(s) + Len(e)) + j
    <3>1. i - (Len(s) + Len(e)) \in 0 .. Len(t) /\ i = (Len(s) + Len(e)) + (i - (Len(s) + Len(e)))
      BY <1>1
    <3> QED BY <3>1
  <2>2. Len(s) + j \in Len(s) .. Len(s \o t)
    BY <1>1, <1>2
  <2> QED BY <1>3, <2>1, <2>2 DEF Ordered
<1> QED BY <1>1, <1>2, <1>4 DEF Ordered

-----------------------------------------------------------------------------
(* Frames in transit.                                                      *)

(* A frame is a state of the channel, an event, or a stale copy.           *)
LEMMA FrameFacts ==
    /\ \A e \in Events : e \in Frames /\ IsEvent(e) /\ ~IsState(e)
    /\ \A c \in SourceStates : /\ StateFrame(c) \in Frames /\ StateFrame(c).s = c
                               /\ IsState(StateFrame(c)) /\ ~IsEvent(StateFrame(c))
    /\ Old \in Frames /\ ~IsEvent(Old) /\ ~IsState(Old)
    /\ \A f \in Frames : /\ IsEvent(f) => f \in Events /\ ~IsState(f)
                         /\ IsState(f) => f.s \in SourceStates /\ ~IsEvent(f)
<1>1. \A e \in Events : e \in Frames /\ IsEvent(e) /\ ~IsState(e)
  BY DEF Events, Frames, IsEvent, IsState
<1>2. \A c \in SourceStates : /\ StateFrame(c) \in Frames /\ StateFrame(c).s = c
                              /\ IsState(StateFrame(c)) /\ ~IsEvent(StateFrame(c))
  BY DEF StateFrame, Frames, IsEvent, IsState
<1>3. Old \in Frames /\ ~IsEvent(Old) /\ ~IsState(Old)
  BY DEF Old, Frames, IsEvent, IsState
<1>4. ASSUME NEW f \in Frames
      PROVE  /\ IsEvent(f) => f \in Events /\ ~IsState(f)
             /\ IsState(f) => f.s \in SourceStates /\ ~IsEvent(f)
  <2>1. CASE f \in Events
    BY <1>1, <2>1
  <2>2. CASE f = Old
    BY <1>3, <2>2
  <2>3. CASE f \in {[k |-> "channel", s |-> c] : c \in SourceStates}
    <3>1. PICK c \in SourceStates : f = StateFrame(c)
      BY <2>3 DEF StateFrame
    <3> QED BY <1>2, <3>1
  <2> QED BY <2>1, <2>2, <2>3 DEF Frames
<1> QED BY <1>1, <1>2, <1>3, <1>4

(* A frame is put behind the others.                                       *)
LEMMA AppendFrame ==
    ASSUME NEW s \in Seq(Frames), NEW f \in Frames
    PROVE  /\ Append(s, f) \in Seq(Frames) /\ Len(Append(s, f)) = Len(s) + 1
           /\ \A i \in 1 .. Len(s) : Append(s, f)[i] = s[i]
           /\ Append(s, f)[Len(s) + 1] = f
           /\ Len(s) \in Nat
BY LenProperties

(* A state is sent.                                                        *)
LEMMA SendsState ==
    ASSUME NEW s \in Seq(Frames), NEW c \in SourceStates, NEW r, NEW S, NEW T,
           Backed(r, s, S, T), c = "ready" => Down(S) /\ Down(S \cup T)
    PROVE  /\ Append(s, StateFrame(c)) \in Seq(Frames)
           /\ Backed(r, Append(s, StateFrame(c)), S, T)
           /\ LastReady(r, Append(s, StateFrame(c))) <=> c = "ready"
           /\ \A i \in 1 .. Len(s) + 1 : IsEvent(Append(s, StateFrame(c))[i])
                 => i \in 1 .. Len(s) /\ Append(s, StateFrame(c))[i] = s[i]
<1> DEFINE u == Append(s, StateFrame(c))
<1>1. /\ u \in Seq(Frames) /\ Len(u) = Len(s) + 1 /\ Len(s) \in Nat
      /\ \A i \in 1 .. Len(s) : u[i] = s[i]
      /\ IsState(u[Len(s) + 1]) /\ ~IsEvent(u[Len(s) + 1]) /\ u[Len(s) + 1].s = c
  BY AppendFrame, FrameFacts
<1> HIDE DEF u
<1>2. \A i \in 1 .. Len(s) + 1 : IsEvent(u[i]) => i \in 1 .. Len(s) /\ u[i] = s[i]
  BY <1>1
<1>3. \A j \in 0 .. Len(s) : ReadyAt(r, u, j) <=> ReadyAt(r, s, j)
  BY <1>1 DEF ReadyAt
<1>4. ReadyAt(r, u, Len(s) + 1) <=> c = "ready"
  BY <1>1 DEF ReadyAt
<1>5. LastReady(r, u) <=> c = "ready"
  <2>1. ASSUME NEW j \in 0 .. Len(u), InForce(r, u, j, Len(u) + 1) PROVE c = "ready"
    <3>1. ~(j < Len(s) + 1)
      BY <1>1, <2>1 DEF InForce
    <3> QED BY <1>1, <1>4, <2>1, <3>1 DEF InForce
  <2>2. ASSUME c = "ready" PROVE InForce(r, u, Len(u), Len(u) + 1) /\ Len(u) \in 0 .. Len(u)
    BY <1>1, <1>4, <2>2 DEF InForce
  <2> QED BY <2>1, <2>2 DEF LastReady
<1>6. (\E j \in 0 .. Len(u) : ReadyAt(r, u, j)) => Down(S)
  <2> SUFFICES ASSUME NEW j \in 0 .. Len(u), ReadyAt(r, u, j) PROVE Down(S)
    OBVIOUS
  <2>1. CASE j = Len(s) + 1
    BY <1>4, <2>1
  <2>2. CASE j \in 0 .. Len(s)
    BY <1>3, <2>2 DEF Backed
  <2> QED BY <1>1, <2>1, <2>2
<1>7. ASSUME NEW j \in 0 .. Len(u), NEW i \in 1 .. Len(u), IsEvent(u[i]),
             InForce(r, u, j, i) \/ (ReadyAt(r, u, j) /\ i < j)
      PROVE  Down(S \cup T)
  <2>1. i \in 1 .. Len(s) /\ u[i] = s[i]
    BY <1>1, <1>2, <1>7
  <2>2. CASE j = Len(s) + 1
    BY <1>4, <1>7, <2>2 DEF InForce
  <2>3. CASE j \in 0 .. Len(s)
    <3>1. InForce(r, s, j, i) \/ (ReadyAt(r, s, j) /\ i < j)
      BY <1>1, <1>3, <1>7, <2>1, <2>3 DEF InForce
    <3>2. IsEvent(s[i])
      BY <1>7, <2>1
    <3> QED BY <2>1, <2>3, <3>1, <3>2 DEF Backed
  <2> QED BY <1>1, <2>2, <2>3
<1> QED BY <1>1, <1>2, <1>5, <1>6, <1>7 DEF Backed, u

(* An event is sent.                                                       *)
LEMMA SendsEvent ==
    ASSUME NEW s \in Seq(Frames), NEW e \in Events, NEW r, NEW S, NEW T,
           Backed(r, s, S, T), LastReady(r, s) => Down(S \cup T)
    PROVE  /\ Append(s, e) \in Seq(Frames)
           /\ Backed(r, Append(s, e), S, T)
           /\ LastReady(r, Append(s, e)) <=> LastReady(r, s)
           /\ \A i \in 1 .. Len(s) + 1 :
                 \/ i \in 1 .. Len(s) /\ Append(s, e)[i] = s[i]
                 \/ Append(s, e)[i] = e
<1> DEFINE u == Append(s, e)
<1>1. /\ u \in Seq(Frames) /\ Len(u) = Len(s) + 1 /\ Len(s) \in Nat
      /\ \A i \in 1 .. Len(s) : u[i] = s[i]
      /\ ~IsState(u[Len(s) + 1]) /\ u[Len(s) + 1] = e
  BY AppendFrame, FrameFacts
<1> HIDE DEF u
<1>2. \A j \in 0 .. Len(s) : ReadyAt(r, u, j) <=> ReadyAt(r, s, j)
  BY <1>1 DEF ReadyAt
<1>3. ~ReadyAt(r, u, Len(s) + 1)
  BY <1>1 DEF ReadyAt
<1>4. \A j \in 0 .. Len(s) : \A i \in 1 .. Len(s) + 1 :
         InForce(r, u, j, i) <=> InForce(r, s, j, i)
  BY <1>1, <1>2 DEF InForce
<1>5. \A j \in 0 .. Len(s) : InForce(r, u, j, Len(s) + 2) <=> InForce(r, s, j, Len(s) + 1)
  BY <1>1, <1>2 DEF InForce
<1>6. LastReady(r, u) <=> LastReady(r, s)
  <2>1. \A j \in 0 .. Len(u) : InForce(r, u, j, Len(u) + 1) => j \in 0 .. Len(s)
    BY <1>1, <1>3 DEF InForce
  <2> QED BY <1>1, <1>5, <2>1 DEF LastReady
<1>7. (\E j \in 0 .. Len(u) : ReadyAt(r, u, j)) => Down(S)
  BY <1>1, <1>2, <1>3 DEF Backed
<1>8. ASSUME NEW j \in 0 .. Len(u), NEW i \in 1 .. Len(u), IsEvent(u[i]),
             InForce(r, u, j, i) \/ (ReadyAt(r, u, j) /\ i < j)
      PROVE  Down(S \cup T)
  <2>1. j \in 0 .. Len(s)
    BY <1>1, <1>3, <1>8 DEF InForce
  <2>2. CASE i = Len(s) + 1
    BY <1>1, <1>4, <1>8, <2>1, <2>2 DEF LastReady
  <2>3. CASE i \in 1 .. Len(s)
    <3>1. InForce(r, s, j, i) \/ (ReadyAt(r, s, j) /\ i < j)
      <4>1. i \in 1 .. Len(s) + 1
        BY <1>1, <2>3
      <4> QED BY <1>2, <1>4, <1>8, <2>1, <4>1
    <3>2. IsEvent(s[i])
      BY <1>1, <1>8, <2>3
    <3> QED BY <2>1, <2>3, <3>1, <3>2 DEF Backed
  <2>4. i = Len(s) + 1 \/ i \in 1 .. Len(s)
    BY <1>1
  <2> QED BY <2>2, <2>3, <2>4
<1>9. Backed(r, u, S, T)
  BY <1>7, <1>8 DEF Backed
<1>10. \A i \in 1 .. Len(s) + 1 : (i \in 1 .. Len(s) /\ u[i] = s[i]) \/ u[i] = e
  BY <1>1
<1> QED BY <1>1, <1>6, <1>9, <1>10 DEF u

(* A frame is read: a state replaces the one in the row, and an event that *)
(* is stored is the next of the outbox.                                    *)
LEMMA TailFrame ==
    ASSUME NEW s \in Seq(Frames), s # <<>>
    PROVE  /\ Tail(s) \in Seq(Frames) /\ Len(Tail(s)) = Len(s) - 1 /\ Len(s) \in Nat \ {0}
           /\ Head(s) = s[1] /\ s[1] \in Frames
           /\ \A i \in 1 .. Len(s) - 1 : Tail(s)[i] = s[i + 1]
<1>1. Len(s) \in Nat \ {0}
  BY EmptySeq
<1> QED BY <1>1, HeadTailProperties, ElementOfSeq

(* The first frame is a state, and is read.                                *)
LEMMA ReadsState ==
    ASSUME NEW s \in Seq(Frames), s # <<>>, IsState(s[1]), NEW r, NEW S, NEW T, Backed(r, s, S, T)
    PROVE  /\ Backed(s[1].s, Tail(s), S, T)
           /\ LastReady(s[1].s, Tail(s)) => LastReady(r, s)
<1> DEFINE u == Tail(s)
           c == s[1].s
<1>1. /\ Len(u) = Len(s) - 1 /\ Len(s) \in Nat \ {0}
      /\ \A i \in 1 .. Len(u) : u[i] = s[i + 1]
  BY TailFrame
<1> HIDE DEF u
<1>2. \A j \in 0 .. Len(u) : ReadyAt(c, u, j) => ReadyAt(r, s, j + 1)
  BY <1>1 DEF ReadyAt
<1> HIDE DEF c
<1>3. ASSUME NEW j \in 0 .. Len(u), NEW i \in 1 .. Len(u) + 1, InForce(c, u, j, i)
      PROVE  InForce(r, s, j + 1, i + 1)
  <2>1. ASSUME NEW k \in (j + 1) + 1 .. (i + 1) - 1 PROVE ~IsState(s[k])
    <3>1. k - 1 \in j + 1 .. i - 1 /\ k - 1 \in 1 .. Len(u) /\ (k - 1) + 1 = k
      BY <1>1
    <3> QED BY <1>1, <1>3, <3>1 DEF InForce
  <2> QED BY <1>2, <1>3, <2>1 DEF InForce
<1>4. \A j \in 0 .. Len(u) : j + 1 \in 0 .. Len(s)
  BY <1>1
<1>5. (\E j \in 0 .. Len(u) : ReadyAt(c, u, j)) => Down(S)
  BY <1>2, <1>4 DEF Backed
<1>6. ASSUME NEW j \in 0 .. Len(u), NEW i \in 1 .. Len(u), IsEvent(u[i]),
             InForce(c, u, j, i) \/ (ReadyAt(c, u, j) /\ i < j)
      PROVE  Down(S \cup T)
  <2>1. i + 1 \in 1 .. Len(s) /\ IsEvent(s[i + 1])
    BY <1>1, <1>6
  <2>2. InForce(r, s, j + 1, i + 1) \/ (ReadyAt(r, s, j + 1) /\ i + 1 < j + 1)
    BY <1>1, <1>2, <1>3, <1>6
  <2> QED BY <1>4, <2>1, <2>2 DEF Backed
<1>7. LastReady(c, u) => LastReady(r, s)
  <2> SUFFICES ASSUME NEW j \in 0 .. Len(u), InForce(c, u, j, Len(u) + 1)
               PROVE  InForce(r, s, j + 1, Len(s) + 1)
    BY <1>4 DEF LastReady
  <2>1. Len(u) + 1 \in 1 .. Len(u) + 1 /\ (Len(u) + 1) + 1 = Len(s) + 1
    BY <1>1
  <2> QED BY <1>3, <2>1
<1> QED BY <1>5, <1>6, <1>7 DEF Backed, u, c

(* The first frame is not a state, and is read.                            *)
LEMMA ReadsOther ==
    ASSUME NEW s \in Seq(Frames), s # <<>>, ~IsState(s[1]), NEW S, NEW T, NEW U,
           NEW r, NEW w, w = "ready" => r = "ready", Backed(r, s, S, T),
           \/ U = S
           \/ U = S \cup T /\ IsEvent(s[1])
    PROVE  /\ Backed(w, Tail(s), U, T)
           /\ LastReady(w, Tail(s)) => LastReady(r, s)
<1> DEFINE u == Tail(s)
<1>1. /\ Len(u) = Len(s) - 1 /\ Len(s) \in Nat \ {0}
      /\ \A i \in 1 .. Len(u) : u[i] = s[i + 1]
  BY TailFrame
<1> HIDE DEF u
<1> DEFINE Was(j) == IF j = 0 THEN 0 ELSE j + 1
<1>2. \A j \in 0 .. Len(u) : ReadyAt(w, u, j) => ReadyAt(r, s, Was(j)) /\ Was(j) \in 0 .. Len(s)
  BY <1>1 DEF ReadyAt
<1>3. ASSUME NEW j \in 0 .. Len(u), NEW i \in 1 .. Len(u) + 1, InForce(w, u, j, i)
      PROVE  InForce(r, s, Was(j), i + 1)
  <2>1. ASSUME NEW k \in Was(j) + 1 .. (i + 1) - 1 PROVE ~IsState(s[k])
    <3>1. CASE k = 1
      BY <3>1
    <3>2. CASE k # 1
      <4>1. k - 1 \in j + 1 .. i - 1 /\ k - 1 \in 1 .. Len(u) /\ (k - 1) + 1 = k
        BY <1>1, <3>2
      <4> QED BY <1>1, <1>3, <4>1 DEF InForce
    <3> QED BY <3>1, <3>2
  <2> QED BY <1>2, <1>3, <2>1 DEF InForce
<1>4. \A j \in 0 .. Len(s) : ReadyAt(r, s, j) /\ IsEvent(s[1]) => Down(S \cup T)
  <2> SUFFICES ASSUME NEW j \in 0 .. Len(s), ReadyAt(r, s, j), IsEvent(s[1]) PROVE Down(S \cup T)
    OBVIOUS
  <2>1. 1 \in 1 .. Len(s)
    BY <1>1
  <2>2. CASE j = 0
    <3>1. InForce(r, s, 0, 1)
      BY <2>2 DEF InForce
    <3> QED BY <2>1, <2>2, <3>1 DEF Backed
  <2>3. CASE j # 0
    <3>1. 1 < j
      BY <2>3 DEF ReadyAt
    <3> QED BY <2>1, <3>1 DEF Backed
  <2> QED BY <2>2, <2>3
<1>5. ASSUME NEW j \in 0 .. Len(u), ReadyAt(w, u, j) PROVE Down(U)
  <2>1. ReadyAt(r, s, Was(j)) /\ Was(j) \in 0 .. Len(s)
    BY <1>2, <1>5
  <2>2. Down(S)
    BY <2>1 DEF Backed
  <2> QED BY <1>4, <2>1, <2>2
<1>6. ASSUME NEW j \in 0 .. Len(u), NEW i \in 1 .. Len(u), IsEvent(u[i]),
             InForce(w, u, j, i) \/ (ReadyAt(w, u, j) /\ i < j)
      PROVE  Down(U \cup T)
  <2>1. i + 1 \in 1 .. Len(s) /\ IsEvent(s[i + 1]) /\ ReadyAt(w, u, j)
    BY <1>1, <1>6 DEF InForce
  <2>2. InForce(r, s, Was(j), i + 1) \/ (ReadyAt(r, s, Was(j)) /\ i + 1 < Was(j))
    BY <1>1, <1>2, <1>3, <1>6
  <2>3. Down(S \cup T)
    BY <1>2, <2>1, <2>2 DEF Backed
  <2>4. U \cup T = S \cup T
    OBVIOUS
  <2> QED BY <2>3, <2>4
<1>7. LastReady(w, u) => LastReady(r, s)
  <2> SUFFICES ASSUME NEW j \in 0 .. Len(u), InForce(w, u, j, Len(u) + 1)
               PROVE  InForce(r, s, Was(j), Len(s) + 1) /\ Was(j) \in 0 .. Len(s)
    BY DEF LastReady
  <2>1. Len(u) + 1 \in 1 .. Len(u) + 1 /\ (Len(u) + 1) + 1 = Len(s) + 1
    BY <1>1
  <2> QED BY <1>2, <1>3, <2>1 DEF InForce
<1> QED BY <1>5, <1>6, <1>7 DEF Backed, u

(* Frames that are not states are replaced by others that are not, and     *)
(* none is an event.                                                       *)
LEMMA NoEvents ==
    ASSUME NEW s \in Seq(Frames), NEW u \in Seq(Frames), Len(u) = Len(s), NEW r, NEW S, NEW T, NEW V,
           Backed(r, s, S, T),
           \A i \in 1 .. Len(s) : /\ ~IsEvent(u[i]) /\ (IsState(u[i]) <=> IsState(s[i]))
                                  /\ IsState(s[i]) => u[i] = s[i]
    PROVE  Backed(r, u, S, V) /\ (LastReady(r, u) => LastReady(r, s))
<1>1. Len(s) \in Nat
  BY LenProperties
<1>2. \A j \in 0 .. Len(s) : ReadyAt(r, u, j) => ReadyAt(r, s, j)
  BY <1>1 DEF ReadyAt
<1>3. \A j \in 0 .. Len(s) : InForce(r, u, j, Len(s) + 1) => InForce(r, s, j, Len(s) + 1)
  BY <1>1, <1>2 DEF InForce
<1>4. LastReady(r, u) => LastReady(r, s)
  BY <1>3 DEF LastReady
<1> QED BY <1>2, <1>4 DEF Backed

(* With no frame in transit only the row of the channel counts.            *)
LEMMA NothingSent ==
    ASSUME NEW r, NEW S, NEW T
    PROVE  Backed(r, <<>>, S, T) <=> (r = "ready" => Down(S))
<1>1. Len(<<>>) = 0
  OBVIOUS
<1>2. \A j \in 0 .. 0 : ReadyAt(r, <<>>, j) <=> r = "ready"
  BY <1>1 DEF ReadyAt
<1> QED BY <1>1, <1>2 DEF Backed
-----------------------------------------------------------------------------
(* What the steps are made of.                                             *)

(* What the numbers of the state are.                                      *)
LEMMA Numbers ==
    ASSUME Typed
    PROVE  /\ N \in Nat /\ Card \in 1 .. N /\ Capacity \in Nat \ {0} /\ Page \in Nat \ {0}
           /\ MaxFaults \in Nat /\ Card \in Msgs /\ Msgs = 1 .. N /\ Nothing = -1
           /\ posted \in 0 .. N /\ edited \in 0 .. N /\ ckpt \in 0 .. posted
           /\ anchor \in {Nothing} \cup 0 .. ckpt /\ BeginRecovery(anchor) \in 0 .. ckpt
           /\ BeginRecovery(anchor) # Nothing
BY DEF Typed, MessageSourceAssumption, DiscordTyped, BoxTyped, Msgs, Nothing, BeginRecovery

(* A task that is outdated, or has nothing left, is a task.                *)
LEMMA Task ==
    ASSUME Typed
    PROVE  /\ rc \in Tasks /\ NoTask \in Tasks /\ NoTask.pc = "idle" /\ NoTask.h = <<>> /\ ~NoTask.ok
           /\ Outdate(rc) \in Tasks /\ ~Outdate(rc).ok
           /\ Outdate(rc).pc = rc.pc /\ Outdate(rc).h = rc.h
<1>1. rc \in Tasks
  BY DEF Typed, ClientTyped
<1>2. NoTask \in Tasks /\ NoTask.pc = "idle" /\ NoTask.h = <<>> /\ ~NoTask.ok
  BY NoEvent DEF NoTask, Tasks
<1>3. /\ Outdate(rc) \in Tasks /\ ~Outdate(rc).ok
      /\ Outdate(rc).pc = rc.pc /\ Outdate(rc).h = rc.h
  BY <1>1 DEF Outdate, Tasks
<1> QED BY <1>1, <1>2, <1>3

(* No frame but the state that a READY still owes.                         *)
LEMMA SendNone ==
    ASSUME Typed, barrier => st' \in SourceStates, Send(<<>>)
    PROVE  /\ barrier' = FALSE
           /\ sock' = IF barrier THEN Append(sock, StateFrame(st')) ELSE sock
<1>1. sock \in Seq(Frames)
  BY DEF Typed, PipeTyped
<1>2. CASE barrier
  <2>1. StateFrame(st') \in Frames /\ sock' = sock \o <<StateFrame(st')>> \o <<>>
    BY <1>2, FrameFacts DEF Send, StateFrame
  <2>2. Append(sock, StateFrame(st')) \in Seq(Frames)
    BY <1>1, <2>1, AppendProperties
  <2>3. sock' = Append(sock, StateFrame(st')) \o <<>>
    BY <1>1, <2>1, AppendIsConcat
  <2> QED BY <1>2, <2>2, <2>3, ConcatEmptySeq DEF Send
<1>3. CASE ~barrier
  <2>1. sock' = sock \o <<>> \o <<>>
    BY <1>3 DEF Send
  <2> QED BY <1>1, <1>3, <2>1, ConcatEmptySeq DEF Send
<1> QED BY <1>2, <1>3

(* One frame, behind the state that a READY still owes.                    *)
LEMMA SendOne ==
    ASSUME Typed, NEW f \in Frames, barrier => st' \in SourceStates, Send(<<f>>)
    PROVE  /\ barrier' = FALSE
           /\ sock' = IF barrier THEN Append(Append(sock, StateFrame(st')), f) ELSE Append(sock, f)
<1>1. sock \in Seq(Frames)
  BY DEF Typed, PipeTyped
<1>2. CASE barrier
  <2>1. StateFrame(st') \in Frames /\ sock' = sock \o <<StateFrame(st')>> \o <<f>>
    BY <1>2, FrameFacts DEF Send, StateFrame
  <2>2. Append(sock, StateFrame(st')) \in Seq(Frames)
    BY <1>1, <2>1, AppendProperties
  <2>3. sock' = Append(sock, StateFrame(st')) \o <<f>>
    BY <1>1, <2>1, AppendIsConcat
  <2> QED BY <1>2, <2>2, <2>3, AppendIsConcat DEF Send
<1>3. CASE ~barrier
  <2>1. sock' = sock \o <<>> \o <<f>>
    BY <1>3 DEF Send
  <2>2. sock \o <<>> = sock
    BY <1>1, ConcatEmptySeq
  <2> QED BY <1>1, <1>3, <2>1, <2>2, AppendIsConcat DEF Send
<1> QED BY <1>2, <1>3

(* Two states of the channel in a row.                                     *)
LEMMA SendState ==
    ASSUME Typed, st' \in SourceStates, Send(ChannelFrame)
    PROVE  /\ barrier' = FALSE
           /\ sock' = IF barrier THEN Append(Append(sock, StateFrame(st')), StateFrame(st'))
                                 ELSE Append(sock, StateFrame(st'))
<1>1. PICK f \in Frames : f = StateFrame(st')
  BY FrameFacts
<1>2. Send(<<f>>)
  BY <1>1 DEF ChannelFrame, StateFrame
<1> QED BY <1>1, <1>2, SendOne

(* Whatever is sent, the frames stay frames.                               *)
LEMMA SentTyped ==
    ASSUME Typed,
           \/ Send(<<>>) /\ (barrier => st' \in SourceStates)
           \/ Send(ChannelFrame) /\ st' \in SourceStates
           \/ (\E e \in Events : Send(<<e>>)) /\ (barrier => st' \in SourceStates)
    PROVE  sock' \in Seq(Frames) /\ barrier' = FALSE
<1>1. sock \in Seq(Frames)
  BY DEF Typed, PipeTyped
<1>2. \A s \in Seq(Frames), f \in Frames : Append(s, f) \in Seq(Frames)
  BY AppendProperties
<1>3. st' \in SourceStates => StateFrame(st') \in Frames
  BY FrameFacts
<1>4. CASE Send(<<>>) /\ (barrier => st' \in SourceStates)
  BY <1>1, <1>2, <1>3, <1>4, SendNone
<1>5. CASE Send(ChannelFrame) /\ st' \in SourceStates
  BY <1>1, <1>2, <1>3, <1>5, SendState
<1>6. ASSUME NEW e \in Events, Send(<<e>>), barrier => st' \in SourceStates
      PROVE  sock' \in Seq(Frames) /\ barrier' = FALSE
  <2>1. e \in Frames
    BY FrameFacts
  <2> QED BY <1>1, <1>2, <1>3, <1>6, <2>1, SendOne
<1> QED BY <1>4, <1>5, <1>6

(* The outbox, its head and the rest.                                      *)
LEMMA HeadFacts ==
    ASSUME Typed, q # <<>>
    PROVE  /\ e0 = q[1] /\ e0 \in Events /\ e0.k \in {"create", "update"} /\ e0.m \in Msgs
           /\ e0.v \in {0, 1, 2} /\ 1 \in 1 .. Len(q) /\ Len(q) \in Nat \ {0}
           /\ Tail(q) \in Seq(Events) /\ Len(Tail(q)) = Len(q) - 1
           /\ \A i \in 1 .. Len(q) - 1 : Tail(q)[i] = q[i + 1]
<1>1. q \in Seq(Events)
  BY DEF Typed, BoxTyped
<1>2. e0 = q[1] /\ q[1] \in Events /\ Len(q) \in Nat \ {0}
  BY <1>1, FirstsTail DEF e0
<1>3. e0.k \in {"create", "update"} /\ e0.m \in Msgs /\ e0.v \in {0, 1, 2}
  BY <1>2 DEF Events
<1>4. /\ Tail(q) \in Seq(Events) /\ Len(Tail(q)) = Len(q) - 1
      /\ \A i \in 1 .. Len(Tail(q)) : Tail(q)[i] = q[i + 1]
  BY <1>1, FirstsTail
<1> QED BY <1>2, <1>3, <1>4

(* Lengths are numbers.                                                    *)
LEMMA Lens ==
    ASSUME Typed
    PROVE  /\ q \in Seq(Events) /\ missed \in Seq(Events) /\ rc.h \in Seq(Events)
           /\ Len(q) \in 0 .. Capacity /\ Len(missed) \in Nat /\ Len(rc.h) \in Nat
<1>1. q \in Seq(Events) /\ missed \in Seq(Events) /\ rc.h \in Seq(Events) /\ Len(q) <= Capacity
  BY DEF Typed, BoxTyped, DiscordTyped, ClientTyped, Tasks
<1> QED BY <1>1, Numbers, LenProperties

(* The versions that an event may carry.                                   *)
LEMMA VersionFacts ==
    ASSUME Typed, Known, NEW m \in Msgs
    PROVE  Version(m) \in {0, 1, 2} /\ (m <= posted => Said(m, Version(m)))
BY Numbers DEF Version, Said, Known

(* The history that is read: events that are said, and, when the page was  *)
(* not too short, all messages after the anchor.                           *)
LEMMA HistoryFacts ==
    ASSUME Typed, Known
    PROVE  /\ History.h \in Seq(Events) /\ SaidIn(History.h) /\ History.full \in BOOLEAN
           /\ History.full => \A m \in 1 .. posted : m > anchor => m \in Names(History.h)
<1> DEFINE after == {m \in 1 .. posted : m > anchor}
           kept == {m \in after : m > posted - Page}
           c == Cardinality(kept)
           h == [i \in 1 .. c |-> Event("create", i + posted - c, Version(i + posted - c))]
<1>1. History.h = h /\ History.full = (kept = after)
  BY DEF History
<1>2. PICK b \in 0 .. posted : kept = b + 1 .. posted
  <2> DEFINE first == IF anchor < posted - Page THEN posted - Page
                      ELSE IF anchor = -1 THEN 0 ELSE anchor
  <2>1. first \in 0 .. posted
    BY Numbers
  <2>2. \A m \in 1 .. posted : (m > anchor /\ m > posted - Page) <=> m >= first + 1
    BY Numbers
  <2>3. kept = first + 1 .. posted
    <3>1. \A m : m \in kept <=> (m \in 1 .. posted /\ m > anchor /\ m > posted - Page)
      OBVIOUS
    <3>2. \A m : m \in first + 1 .. posted <=> (m \in 1 .. posted /\ m >= first + 1)
      BY <2>1, Numbers
    <3> HIDE DEF kept, first
    <3> QED BY <2>2, <3>1, <3>2
  <2> QED BY <2>1, <2>3
<1>3. c = posted - b
  <2>1. b \in Int /\ posted \in Int /\ b <= posted /\ b + 1 \in Int
    BY Numbers
  <2>2. Cardinality(b + 1 .. posted) = IF b + 1 > posted THEN 0 ELSE posted - (b + 1) + 1
    BY <2>1, FS_Interval
  <2>3. Cardinality(b + 1 .. posted) = posted - b
    BY <2>1, <2>2
  <2> QED BY <1>2, <2>3
<1> HIDE DEF c
<1>4. \A i \in 1 .. c : i + posted - c = i + b /\ i + b \in 1 .. posted /\ i + b \in Msgs
  <2>1. b \in Int /\ posted \in Int /\ b >= 0 /\ posted <= N /\ N \in Int /\ Msgs = 1 .. N
    BY Numbers
  <2> QED BY <1>3, <2>1
<1>5. c \in Nat /\ \A i \in 1 .. c : /\ h[i] \in Events /\ h[i].m = i + b
                                     /\ Said(h[i].m, h[i].v)
  <2>1. ASSUME NEW i \in 1 .. c
        PROVE  h[i] \in Events /\ h[i].m = i + b /\ Said(h[i].m, h[i].v)
    <3>1. h[i] = [k |-> "create", m |-> i + b, v |-> Version(i + b)]
      BY <1>4 DEF Event
    <3>2. Version(i + b) \in {0, 1, 2} /\ Said(i + b, Version(i + b))
      BY <1>4, VersionFacts
    <3> QED BY <1>4, <3>1, <3>2 DEF Events
  <2> QED BY <1>2, <1>3, <2>1, Numbers
<1>6. h \in Seq(Events) /\ Len(h) = c
  <2>1. h \in [1 .. c -> Events]
    BY <1>5
  <2> QED BY <1>5, <2>1, SeqDef, LenProperties
<1> HIDE DEF h
<1>7. SaidIn(h)
  BY <1>5, <1>6 DEF SaidIn
<1>8. ASSUME kept = after, NEW m \in 1 .. posted, m > anchor PROVE m \in Names(h)
  <2>0. m \in b + 1 .. posted
    BY <1>2, <1>8
  <2>1. m - b \in 1 .. c /\ (m - b) + b = m
    BY <1>3, <2>0, Numbers
  <2>2. h[m - b].m = m
    BY <1>5, <2>1
  <2> QED BY <1>6, <2>1, <2>2 DEF Names, Firsts
<1> QED BY <1>1, <1>6, <1>7, <1>8

(* A card that is fetched again: an event of a message that the backend    *)
(* has stored.                                                             *)
LEMMA CardFacts ==
    ASSUME Typed, Known, RecoveryRead
    PROVE  /\ rc'.h \in Seq(Events) /\ SaidIn(rc'.h) /\ rc'.pc = "card"
           /\ \A i \in 1 .. Len(rc'.h) : db[rc'.h[i].m] # Nothing
           /\ rc' \in Tasks /\ rc'.todo \subseteq rc.todo
           /\ rc'.ok = rc.ok /\ rc'.full = rc.full /\ rc'.left = rc.left
<1>1. PICK m \in rc.todo : rc' = [rc EXCEPT !.pc = "card", !.todo = @ \ {m},
                                         !.h = <<Event("update", m, Version(m))>>]
  BY DEF RecoveryRead
<1>2. rc \in Tasks /\ m \in Msgs
  BY DEF Typed, ClientTyped, Tasks
<1>3. db[m] # Nothing /\ m <= posted
  BY <1>2 DEF Known, Said
<1>4. PICK e \in Events : e = Event("update", m, Version(m)) /\ e.m = m /\ Said(e.m, e.v)
  <2>1. PICK v \in {0, 1, 2} : v = Version(m) /\ Said(m, v)
    BY <1>2, <1>3, VersionFacts
  <2>2. PICK e \in Events : e = [k |-> "update", m |-> m, v |-> v]
    BY <1>2 DEF Events
  <2> QED BY <2>1, <2>2 DEF Event
<1>5. <<e>> \in Seq(Events) /\ Len(<<e>>) = 1 /\ <<e>>[1] = e
  BY OneEvent
<1>6. rc' = [rc EXCEPT !.pc = "card", !.todo = rc.todo \ {m}, !.h = <<e>>]
  BY <1>1, <1>4
<1>7. /\ rc' \in Tasks /\ rc'.h = <<e>> /\ rc'.pc = "card" /\ rc'.todo \subseteq rc.todo
      /\ rc'.ok = rc.ok /\ rc'.full = rc.full /\ rc'.left = rc.left
  BY <1>2, <1>5, <1>6 DEF Tasks
<1> QED BY <1>3, <1>4, <1>5, <1>7 DEF SaidIn

(* What the collector's copy of the next message becomes.                  *)
LEMMA HydratedFacts ==
    ASSUME Typed, Known, q # <<>>
    PROVE  /\ Hydrated(cache[e0.m], e0) \in {0, 1, 2}
           /\ cache[e0.m] > 0 => Hydrated(cache[e0.m], e0) > 0
           /\ ~(cache[e0.m] > 0) => Hydrated(cache[e0.m], e0) = e0.v
           /\ Said(e0.m, Hydrated(cache[e0.m], e0))
<1>1. e0 = q[1] /\ 1 \in 1 .. Len(q) /\ e0.m \in Msgs /\ e0.v \in {0, 1, 2}
  BY HeadFacts
<1>2. Said(e0.m, e0.v)
  BY <1>1 DEF Known, SaidIn
<1>3. cache[e0.m] \in {Nothing, 0, 1, 2} /\ (cache[e0.m] # Nothing => Said(e0.m, cache[e0.m]))
  BY <1>1 DEF Known, Typed, BoxTyped, Versions
<1>4. cache[e0.m] > 0 => Said(e0.m, 2) /\ Hydrated(cache[e0.m], e0) > 0
  BY <1>1, <1>2, <1>3 DEF Said, Nothing, Hydrated
<1>5. ~(cache[e0.m] > 0) => Hydrated(cache[e0.m], e0) = e0.v
  BY DEF Hydrated
<1>6. Hydrated(cache[e0.m], e0) \in {0, 1, 2}
  BY <1>1, <1>3 DEF Hydrated, Nothing
<1>7. cache[e0.m] > 0 => Said(e0.m, Hydrated(cache[e0.m], e0))
  BY <1>4 DEF Said
<1> QED BY <1>2, <1>4, <1>5, <1>6, <1>7

(* The recovery after an append.                                           *)
LEMMA AppendFacts ==
    ASSUME Typed, RecoveryAppend
    PROVE  /\ rc' \in Tasks /\ rc'.h = <<>> /\ rc'.pc \in {"cards", "drain"}
           /\ rc'.ok = rc.ok /\ rc'.full = rc.full /\ rc'.left = Len(q) + Len(rc.h)
           /\ rc'.todo \subseteq cards \cup rc.todo
           /\ rc.ok /\ rc.pc \in {"append", "card"} /\ q' = q \o rc.h
           /\ Len(q) + Len(rc.h) <= Capacity
<1>1. rc \in Tasks /\ cards \subseteq Msgs /\ rc.todo \subseteq Msgs
  BY DEF Typed, ClientTyped, Tasks
<1>2. PICK t \in SUBSET (cards \cup rc.todo) : rc' = Appended(t)
  BY DEF RecoveryAppend
<1>3. Len(q) + Len(rc.h) \in Nat
  BY Lens
<1>4. PICK p \in {"cards", "drain"} : rc' = [rc EXCEPT !.pc = p, !.h = <<>>, !.todo = t,
                                                  !.left = Len(q) + Len(rc.h)]
  BY <1>2 DEF Appended
<1>5. /\ rc' \in Tasks /\ rc'.h = <<>> /\ rc'.pc = p /\ rc'.todo = t
      /\ rc'.ok = rc.ok /\ rc'.full = rc.full /\ rc'.left = Len(q) + Len(rc.h)
  BY <1>1, <1>3, <1>4, NoEvent DEF Tasks
<1> QED BY <1>2, <1>5 DEF RecoveryAppend

-----------------------------------------------------------------------------
(* Types, one part of the state after the other.                           *)

(* The steps of Next, one by one.                                          *)
LEMMA Steps ==
    ASSUME Next
    PROVE  \/ Post \/ Edit \/ Ready \/ Resume \/ OnReady \/ PublishBarrier \/ Connect
           \/ Configure \/ Status \/ RecoveryStart \/ RecoveryFetch \/ RecoveryAppend
           \/ RecoveryRead \/ RecoveryOverflow \/ RecoveryDone \/ RecoveryOutdated
           \/ RecoveryRetry \/ Deliver \/ Acked \/ Pop \/ Undelivered \/ Serve \/ DispatchCheck
           \/ DispatchPick \/ Handle \/ EndOfStream \/ Cut \/ RecoveryFail \/ Late
           \/ SkipWithGap \/ CollectorCrash \/ Disconnect
BY DEF Next, GatewaySession, Recovery, DeliverLoop, Dispatch, Faults

(* What is put behind the outbox.                                          *)
LEMMA Behind ==
    ASSUME Typed, NEW t \in Seq(Events)
    PROVE  /\ q \o t \in Seq(Events) /\ Len(q \o t) = Len(q) + Len(t)
           /\ \A i \in 1 .. Len(q \o t) : \/ i \in 1 .. Len(q) /\ (q \o t)[i] = q[i]
                                          \/ \E j \in 1 .. Len(t) : (q \o t)[i] = t[j]
           /\ q # <<>> => q \o t # <<>> /\ (q \o t)[1] = q[1]
<1> DEFINE u == q \o t
<1>1. q \in Seq(Events) /\ Len(q) \in Nat /\ Len(t) \in Nat
  BY Lens, LenProperties
<1>2. /\ u \in Seq(Events) /\ Len(u) = Len(q) + Len(t)
      /\ \A i \in 1 .. Len(q) + Len(t) : u[i] = IF i <= Len(q) THEN q[i] ELSE t[i - Len(q)]
  BY <1>1, ConcatProperties
<1> HIDE DEF u
<1>3. \A i \in 1 .. Len(u) : \/ i \in 1 .. Len(q) /\ u[i] = q[i]
                             \/ \E j \in 1 .. Len(t) : u[i] = t[j]
  <2> SUFFICES ASSUME NEW i \in 1 .. Len(u), ~(i <= Len(q))
               PROVE  \E j \in 1 .. Len(t) : u[i] = t[j]
    BY <1>1, <1>2
  <2>1. i - Len(q) \in 1 .. Len(t) /\ u[i] = t[i - Len(q)]
    BY <1>1, <1>2
  <2> QED BY <2>1
<1>4. q # <<>> => u # <<>> /\ u[1] = q[1]
  <2>1. q # <<>> => 1 \in 1 .. Len(q)
    BY <1>1, EmptySeq
  <2> QED BY <1>1, <1>2, <2>1
<1> QED BY <1>2, <1>3, <1>4 DEF u

(* The part of new events that still fits.                                 *)
LEMMA PartFits ==
    ASSUME Typed, NEW es \in Seq(Events), Len(q) + Len(es) > Capacity
    PROVE  /\ SubSeq(es, 1, Capacity - Len(q)) \in Seq(Events)
           /\ Len(q) + Len(SubSeq(es, 1, Capacity - Len(q))) = Capacity
           /\ \A i \in 1 .. Len(SubSeq(es, 1, Capacity - Len(q))) :
                 i \in 1 .. Len(es) /\ SubSeq(es, 1, Capacity - Len(q))[i] = es[i]
<1> DEFINE part == SubSeq(es, 1, Capacity - Len(q))
<1>1. /\ Len(q) \in 0 .. Capacity /\ Len(es) \in Nat /\ Capacity \in Nat
      /\ 1 \in Int /\ Capacity - Len(q) \in Int /\ Capacity - Len(q) < Len(es)
      /\ 0 <= Capacity - Len(q)
  BY Lens, Numbers, LenProperties
<1>2. \A i \in 1 .. Capacity - Len(q) : i \in 1 .. Len(es) /\ es[i] \in Events
  BY <1>1, ElementOfSeq
<1>3. /\ part \in Seq(Events)
      /\ Len(part) = IF 1 <= Capacity - Len(q) THEN (Capacity - Len(q)) - 1 + 1 ELSE 0
      /\ \A i \in 1 .. (Capacity - Len(q)) - 1 + 1 : part[i] = es[1 + i - 1]
  BY <1>1, <1>2, SubSeqProperties
<1> HIDE DEF part
<1>4. /\ Len(part) = Capacity - Len(q) /\ (Capacity - Len(q)) - 1 + 1 = Capacity - Len(q)
      /\ \A i \in 1 .. Len(part) : 1 + i - 1 = i
  BY <1>1, <1>3
<1>5. \A i \in 1 .. Len(part) : i \in 1 .. Len(es) /\ part[i] = es[i]
  BY <1>2, <1>3, <1>4
<1>6. Len(q) + Len(part) = Capacity
  BY <1>1, <1>4
<1> QED BY <1>3, <1>5, <1>6 DEF part

(* What is captured.                                                       *)
LEMMA CaptureFacts ==
    ASSUME Typed, NEW es \in Seq(Events), Capture(es)
    PROVE  /\ wst' \in {wst, "buffer_failed"} /\ q' \in Seq(Events) /\ Len(q') <= Capacity
           /\ \/ Len(q) + Len(es) <= Capacity /\ q' = q \o es /\ wst' = wst
              \/ /\ Len(q) + Len(es) > Capacity /\ wst' = "buffer_failed"
                 /\ \E t \in Seq(Events) :
                       /\ q' = q \o t
                       /\ \A i \in 1 .. Len(t) : i \in 1 .. Len(es) /\ t[i] = es[i]
<1>1. Len(q) \in 0 .. Capacity /\ Len(es) \in Nat /\ Capacity \in Nat
  BY Lens, Numbers, LenProperties
<1>2. CASE Len(q) + Len(es) <= Capacity
  <2>1. q' = q \o es /\ wst' = wst
    BY <1>1, <1>2 DEF Capture
  <2>2. q' \in Seq(Events) /\ Len(q') <= Capacity
    BY <1>2, <2>1, Behind
  <2> QED BY <1>1, <1>2, <2>1, <2>2
<1>3. CASE Len(q) + Len(es) > Capacity
  <2> DEFINE part == SubSeq(es, 1, Capacity - Len(q))
  <2>1. q' = q \o part /\ wst' = "buffer_failed"
    BY <1>1, <1>3 DEF Capture
  <2>2. /\ part \in Seq(Events) /\ Len(q) + Len(part) = Capacity
        /\ \A i \in 1 .. Len(part) : i \in 1 .. Len(es) /\ part[i] = es[i]
    BY <1>3, PartFits
  <2> HIDE DEF part
  <2>3. q' \in Seq(Events) /\ Len(q') <= Capacity
    BY <1>1, <2>1, <2>2, Behind
  <2> QED BY <1>1, <1>3, <2>1, <2>2, <2>3
<1> QED BY <1>1, <1>2, <1>3

(* What a message, or its edit, does to the outbox, or to what the session *)
(* misses.                                                                 *)
LEMMA EmitFacts ==
    ASSUME Typed, NEW e \in Events, Emit(e)
    PROVE  /\ missed' \in Seq(Events) /\ q' \in Seq(Events) /\ Len(q') <= Capacity
           /\ wst' \in {wst, "buffer_failed"}
           /\ \A i \in 1 .. Len(q') : (i \in 1 .. Len(q) /\ q'[i] = q[i]) \/ q'[i] = e
           /\ \A i \in 1 .. Len(missed') : (i \in 1 .. Len(missed) /\ missed'[i] = missed[i])
                                           \/ missed'[i] = e
           /\ q # <<>> => q' # <<>> /\ q'[1] = q[1]
<1>1. <<e>> \in Seq(Events) /\ Len(<<e>>) = 1 /\ <<e>>[1] = e
  BY OneEvent
<1>2. /\ missed' \in Seq(Events)
      /\ \A i \in 1 .. Len(missed') : (i \in 1 .. Len(missed) /\ missed'[i] = missed[i])
                                      \/ missed'[i] = e
  <2>1. Append(missed, e) \in Seq(Events) /\ Len(Append(missed, e)) = Len(missed) + 1
        /\ (\A i \in 1 .. Len(missed) : Append(missed, e)[i] = missed[i])
        /\ Append(missed, e)[Len(missed) + 1] = e
    BY Lens, AppendProperties
  <2>2. missed' \in {missed, Append(missed, e)}
    BY DEF Emit
  <2>3. CASE missed' = missed
    BY <2>3, Lens
  <2>4. CASE missed' = Append(missed, e)
    <3> DEFINE u == Append(missed, e)
    <3>1. \A i \in 1 .. Len(u) : (i \in 1 .. Len(missed) /\ u[i] = missed[i]) \/ u[i] = e
      <4> HIDE DEF u
      <4>1. /\ Len(u) = Len(missed) + 1 /\ Len(missed) \in Nat /\ u[Len(missed) + 1] = e
            /\ \A i \in 1 .. Len(missed) : u[i] = missed[i]
        BY <2>1, Lens DEF u
      <4> QED BY <4>1
    <3> QED BY <2>1, <2>4, <3>1
  <2> QED BY <2>2, <2>3, <2>4
<1>3. CASE gw = "live" /\ ~Halted
  <2>1. Capture(<<e>>)
    BY <1>3 DEF Emit
  <2>2. /\ q' \in Seq(Events) /\ Len(q') <= Capacity /\ wst' \in {wst, "buffer_failed"}
        /\ \/ q' = q \o <<e>>
           \/ \E t \in Seq(Events) :
                 /\ q' = q \o t
                 /\ \A i \in 1 .. Len(t) : i \in 1 .. Len(<<e>>) /\ t[i] = <<e>>[i]
    BY <1>1, <2>1, CaptureFacts
  <2>3. PICK t \in Seq(Events) : q' = q \o t /\ \A i \in 1 .. Len(t) : t[i] = e
    <3>1. \A i \in 1 .. Len(<<e>>) : <<e>>[i] = e
      BY <1>1
    <3> QED BY <1>1, <2>2, <3>1
  <2>4. /\ \A i \in 1 .. Len(q') : (i \in 1 .. Len(q) /\ q'[i] = q[i]) \/ q'[i] = e
        /\ q # <<>> => q' # <<>> /\ q'[1] = q[1]
    BY <2>3, Behind
  <2> QED BY <1>2, <2>2, <2>4
<1>4. CASE ~(gw = "live" /\ ~Halted)
  BY <1>2, <1>4, Lens DEF Emit
<1> QED BY <1>3, <1>4

(* The event of a message posted, and of an edit.                          *)
LEMMA PostedEvent ==
    ASSUME Typed, Post
    PROVE  /\ Event("create", posted + 1, 0) \in Events /\ Emit(Event("create", posted + 1, 0))
           /\ posted' = posted + 1 /\ posted + 1 \in 1 .. N /\ edited' = edited /\ faults' = faults
BY Numbers DEF Post, Event, Events

LEMMA EditedEvent ==
    ASSUME Typed, Edit
    PROVE  /\ Event("update", Card, 1) \in Events /\ Emit(Event("update", Card, 1))
           /\ posted' = posted /\ edited = 0 /\ edited' = posted /\ Card <= posted
           /\ faults' = faults
BY Numbers DEF Edit, Event, Events

(* Every step keeps the types of Discord and the session,                  *)
LEMMA DiscordStep == ASSUME Typed, Next PROVE DiscordTyped'
<1> USE DEF disc, wire, box, chan, client, pipe, go, RecoveryRest, DeliverRest, ServeRest,
            DispatchRest, DiscordTyped
<1>1. faults \in Nat /\ faults + 1 \in Nat /\ DiscordTyped
  BY DEF Typed
<1>2. CASE Post
  <2>1. missed' \in Seq(Events) /\ gw' = gw
    BY <1>2, PostedEvent, EmitFacts DEF Emit
  <2> QED BY <1>1, <2>1, <1>2, PostedEvent, Numbers
<1>3. CASE Edit
  <2>1. missed' \in Seq(Events) /\ gw' = gw
    BY <1>3, EditedEvent, EmitFacts DEF Emit
  <2> QED BY <1>1, <2>1, <1>3, EditedEvent, Numbers
<1>4. CASE Ready \/ Resume \/ Cut \/ CollectorCrash
  BY <1>1, <1>4, NoEvent DEF Ready, Resume, Cut, CollectorCrash, Fault
<1>5. CASE OnReady \/ PublishBarrier \/ Connect \/ Status \/ RecoveryStart \/ RecoveryFetch
           \/ RecoveryAppend \/ RecoveryRead \/ RecoveryOverflow \/ RecoveryDone
           \/ RecoveryOutdated \/ RecoveryRetry
  BY <1>1, <1>5 DEF OnReady, PublishBarrier, Connect, Status, RecoveryStart, RecoveryFetch,
     RecoveryAppend, RecoveryRead, RecoveryOverflow, RecoveryDone, RecoveryOutdated,
     RecoveryRetry, FailedAfter
<1>6. CASE Configure
  BY <1>1, <1>6 DEF Configure
<1>7. CASE Deliver \/ Acked \/ Pop \/ Undelivered \/ Serve \/ DispatchCheck \/ DispatchPick
           \/ Handle \/ EndOfStream
  BY <1>1, <1>7 DEF Deliver, Acked, Pop, Undelivered, Resend, Serve, DispatchCheck, DispatchPick,
     Handle, EndOfStream, Fault
<1>8. CASE RecoveryFail \/ Late \/ SkipWithGap \/ Disconnect
  BY <1>1, <1>8 DEF RecoveryFail, FailedAfter, Late, Resend, SkipWithGap, Disconnect, Fault
<1> QED BY <1>2, <1>3, <1>4, <1>5, <1>6, <1>7, <1>8, Steps

(* of the outbox and the recovery row,                                     *)
LEMMA BoxStep == ASSUME Typed, Known, Heading, Next PROVE BoxTyped'
<1> USE DEF disc, wire, box, chan, client, pipe, go, RecoveryRest, DeliverRest, ServeRest,
            DispatchRest
<1>1. /\ q \in Seq(Events) /\ Len(q) <= Capacity /\ cache \in Versions
      /\ ckpt \in 0 .. posted /\ anchor \in {Nothing} \cup 0 .. ckpt
      /\ BeginRecovery(anchor) \in 0 .. ckpt /\ Capacity \in Nat /\ posted \in Nat
  BY Numbers DEF Typed, BoxTyped
<1>2. CASE Post
  <2>1. q' \in Seq(Events) /\ Len(q') <= Capacity /\ UNCHANGED <<ckpt, anchor, cache>>
    BY <1>2, PostedEvent, EmitFacts DEF Emit
  <2> QED BY <1>1, <1>2, <2>1, PostedEvent DEF BoxTyped
<1>3. CASE Edit
  <2>1. q' \in Seq(Events) /\ Len(q') <= Capacity /\ UNCHANGED <<ckpt, anchor, cache>>
    BY <1>3, EditedEvent, EmitFacts DEF Emit
  <2> QED BY <1>1, <1>3, <2>1, EditedEvent DEF BoxTyped
<1>4. CASE Resume
  <2>1. q' \in Seq(Events) /\ Len(q') <= Capacity
    <3>1. CASE Len(q) + Len(missed) > Capacity
      BY <1>4, <3>1, Lens, CaptureFacts DEF Resume
    <3>2. CASE ~(Len(q) + Len(missed) > Capacity)
      <4>1. q' = q \o missed
        BY <1>4, <3>2 DEF Resume
      <4>2. Len(q) + Len(missed) <= Capacity
        BY <1>1, <3>2, Lens
      <4> QED BY <4>1, <4>2, Lens, Behind
    <3> QED BY <3>1, <3>2
  <2>2. UNCHANGED <<posted, ckpt, anchor, cache>>
    BY <1>4 DEF Resume
  <2> QED BY <1>1, <2>1, <2>2 DEF BoxTyped
<1>5. CASE Ready \/ OnReady \/ RecoveryRetry
  <2>1. UNCHANGED <<posted, q, ckpt, cache>> /\ anchor' = BeginRecovery(anchor)
    BY <1>5 DEF Ready, OnReady, RecoveryRetry, Schedule
  <2> QED BY <1>1, <2>1 DEF BoxTyped
<1>6. CASE Configure
  <2>1. UNCHANGED <<posted, q, ckpt, cache>> /\ anchor' \in {anchor, BeginRecovery(anchor)}
    BY <1>6 DEF Configure, Schedule
  <2> QED BY <1>1, <2>1 DEF BoxTyped
<1>7. CASE RecoveryAppend
  <2>1. UNCHANGED <<posted, ckpt, anchor, cache>>
    BY <1>7 DEF RecoveryAppend
  <2>2. q' \in Seq(Events) /\ Len(q') <= Capacity
    BY <1>7, AppendFacts, Lens, Behind
  <2> QED BY <1>1, <2>1, <2>2 DEF BoxTyped
<1>8. CASE RecoveryOverflow
  <2>1. PICK es \in Seq(Events) : es = rc.h
    BY Lens
  <2>2. /\ q' = q \o SubSeq(es, 1, Capacity - Len(q)) /\ Len(q) + Len(es) > Capacity
        /\ UNCHANGED <<posted, ckpt, anchor, cache>>
    BY <1>8, <2>1 DEF RecoveryOverflow, FailedAfter
  <2>3. q' \in Seq(Events) /\ Len(q') = Capacity
    BY <2>2, Behind, PartFits
  <2> QED BY <1>1, <2>2, <2>3 DEF BoxTyped
<1>9. CASE RecoveryFail
  <2>1. q' = q \o <<>> /\ UNCHANGED <<posted, ckpt, anchor, cache>>
    BY <1>9 DEF RecoveryFail, FailedAfter
  <2>2. q' = q
    BY <1>1, <2>1, ConcatEmptySeq
  <2> QED BY <1>1, <2>1, <2>2 DEF BoxTyped
<1>10. CASE RecoveryDone
  <2>1. UNCHANGED <<posted, q, ckpt, cache>> /\ anchor' \in {anchor, Nothing}
    BY <1>10 DEF RecoveryDone
  <2> QED BY <1>1, <2>1 DEF BoxTyped
<1>11. CASE Deliver
  <2>1. q # <<>> /\ UNCHANGED <<posted, q, ckpt, anchor>>
    BY <1>11 DEF Deliver
  <2>2. cache' = [cache EXCEPT ![e0.m] = Hydrated(cache[e0.m], e0)]
    BY <1>11 DEF Deliver
  <2>3. cache' \in Versions
    BY <1>1, <2>1, <2>2, HeadFacts, HydratedFacts DEF Versions
  <2> QED BY <1>1, <2>1, <2>3 DEF BoxTyped
<1>12. CASE Acked
  <2>1. UNCHANGED <<posted, q, anchor, cache>> /\ ckpt' \in {ckpt, Larger(ckpt, e0.m)}
        /\ (ckpt' = ckpt \/ ckpt' = Larger(ckpt, e0.m))
    BY <1>12 DEF Acked
  <2>2. Larger(ckpt, e0.m) \in ckpt .. posted
    <3>1. q # <<>> /\ e0.m <= posted
      BY <1>12, HeadFacts DEF Acked, Heading, Known, SaidIn, Said
    <3> QED BY <1>1, <3>1, HeadFacts, Numbers DEF Larger
  <2>3. ckpt' \in ckpt .. posted
    BY <1>1, <2>1, <2>2
  <2> QED BY <1>1, <2>1, <2>3, Numbers DEF BoxTyped
<1>13. CASE Pop \/ SkipWithGap
  <2>1. q # <<>> /\ q' = Tail(q) /\ UNCHANGED <<posted, ckpt, cache>>
        /\ anchor' \in {anchor, BeginRecovery(anchor)}
    BY <1>13 DEF Pop, SkipWithGap, PopHead, Heading
  <2> QED BY <1>1, <2>1, HeadFacts DEF BoxTyped
<1>14. CASE Cut \/ PublishBarrier \/ Connect \/ Status \/ RecoveryStart \/ RecoveryFetch
            \/ RecoveryRead \/ RecoveryOutdated \/ Undelivered \/ Serve \/ DispatchCheck \/ DispatchPick
            \/ Handle \/ EndOfStream \/ Late \/ CollectorCrash \/ Disconnect
  <2>1. UNCHANGED <<posted, box>>
    BY <1>14 DEF Cut, PublishBarrier, Connect, Status, RecoveryStart, RecoveryFetch,
       RecoveryRead, RecoveryOutdated, Undelivered, Resend, Serve, DispatchCheck, DispatchPick, Handle,
       EndOfStream, Late, CollectorCrash, Disconnect
  <2> QED BY <1>1, <2>1 DEF BoxTyped
<1> QED BY <1>2, <1>3, <1>4, <1>5, <1>6, <1>7, <1>8, <1>9, <1>10, <1>11, <1>12, <1>13, <1>14, Steps

(* of the collector's client and its recovery task,                        *)
LEMMA ClientStep == ASSUME Typed, Known, Next PROVE ClientTyped'
<1> USE DEF disc, wire, box, chan, client, pipe, go, RecoveryRest, DeliverRest, ServeRest,
            DispatchRest
<1> DEFINE Rest == <<st, isReady, onReady, sched, retry, cards, rc>>
<1>1. /\ st \in {"none"} \cup SourceStates /\ wst \in WorkerStates /\ cards \in SUBSET Msgs
      /\ isReady \in BOOLEAN /\ onReady \in BOOLEAN /\ sched \in BOOLEAN /\ retry \in BOOLEAN
  BY DEF Typed, ClientTyped
<1>2. /\ {"connected", "recovering", "reconnecting", "connecting", "disabled", "buffer_failed"}
           \subseteq WorkerStates
      /\ Finished \in WorkerStates
      /\ {"recovering", "gap", "ready"} \subseteq SourceStates
  BY <1>1 DEF Finished, WorkerStates, SourceStates
<1>3. /\ rc \in Tasks /\ NoTask \in Tasks /\ Outdate(rc) \in Tasks
      /\ rc.h \in Seq(Events) /\ rc.left \in Nat
  BY Task, Lens DEF Tasks
<1> HIDE DEF Rest
<1>4. ASSUME wst' \in WorkerStates, Rest' = Rest PROVE ClientTyped'
  BY <1>1, <1>3, <1>4 DEF ClientTyped, Rest
<1>5. CASE Post
  <2>1. wst' \in WorkerStates /\ Rest' = Rest
    BY <1>1, <1>2, <1>5, PostedEvent, EmitFacts DEF Emit, Rest
  <2> QED BY <1>4, <2>1
<1>6. CASE Edit
  <2>1. wst' \in WorkerStates /\ Rest' = Rest
    BY <1>1, <1>2, <1>6, EditedEvent, EmitFacts DEF Emit, Rest
  <2> QED BY <1>4, <2>1
<1>7. CASE Resume
  <2>1. wst' \in WorkerStates
    BY <1>1, <1>2, <1>7 DEF Resume, Capture
  <2>2. Rest' = Rest
    BY <1>7 DEF Resume, Rest
  <2> QED BY <1>4, <2>1, <2>2
<1>8. CASE Cut \/ PublishBarrier \/ Connect \/ Status \/ Deliver \/ Acked \/ Undelivered
           \/ Serve \/ DispatchCheck \/ DispatchPick \/ Handle \/ EndOfStream \/ Late \/ Disconnect
  <2>1. wst' \in WorkerStates
    BY <1>1, <1>2, <1>8 DEF Cut, PublishBarrier, Connect, Status, Deliver, Acked, Undelivered,
       Resend, Serve, DispatchCheck, DispatchPick, Handle, EndOfStream, Late, Disconnect
  <2>2. Rest' = Rest
    BY <1>8 DEF Cut, PublishBarrier, Connect, Status, Deliver, Acked, Undelivered, Rest,
       Resend, Serve, DispatchCheck, DispatchPick, Handle, EndOfStream, Late, Disconnect
  <2> QED BY <1>4, <2>1, <2>2
<1>9. ASSUME /\ st' \in {"none"} \cup SourceStates /\ wst' \in WorkerStates /\ cards' \in SUBSET Msgs
             /\ isReady' \in BOOLEAN /\ onReady' \in BOOLEAN /\ sched' \in BOOLEAN
             /\ retry' \in BOOLEAN /\ rc' \in Tasks
      PROVE  ClientTyped'
  BY <1>9 DEF ClientTyped
<1>10. CASE Ready \/ OnReady \/ CollectorCrash
  <2>1. rc' \in {Outdate(rc), NoTask}
    BY <1>10 DEF Ready, OnReady, CollectorCrash
  <2>2. /\ st' \in {"none", "recovering"} /\ wst' \in {"recovering", "disabled"}
        /\ cards' \in {cards, {}} /\ isReady' \in {isReady, TRUE, FALSE} /\ onReady' \in {TRUE, FALSE}
        /\ sched' \in {sched, FALSE} /\ retry' = FALSE
    BY <1>10 DEF Ready, OnReady, CollectorCrash
  <2> QED BY <1>1, <1>2, <1>3, <1>9, <2>1, <2>2
<1>11. CASE Configure \/ RecoveryRetry
  <2>1. rc' \in {Outdate(rc), rc}
    BY <1>11 DEF Configure, RecoveryRetry, Schedule
  <2>2. /\ st' \in {st, "recovering"} /\ wst' \in {wst, "connecting"}
        /\ isReady' = isReady /\ onReady' = onReady
        /\ sched' \in {sched, TRUE} /\ retry' \in {retry, FALSE}
    BY <1>11 DEF Configure, RecoveryRetry, Schedule
  <2>3. cards' \in SUBSET Msgs
    <3>1. CASE Configure
      <4>1. cards' \subseteq {Card}
        BY <3>1 DEF Configure
      <4> QED BY <4>1, Numbers
    <3>2. CASE RecoveryRetry
      <4>1. cards' = cards
        BY <3>2 DEF RecoveryRetry
      <4> QED BY <1>1, <4>1
    <3> QED BY <1>11, <3>1, <3>2
  <2> QED BY <1>1, <1>2, <1>3, <1>9, <2>1, <2>2, <2>3
<1>12. CASE RecoveryStart
  <2>1. [NoTask EXCEPT !.pc = "fetch", !.ok = TRUE] \in Tasks
    BY NoEvent DEF NoTask, Tasks
  <2>2. rc' \in {NoTask, [NoTask EXCEPT !.pc = "fetch", !.ok = TRUE]}
    BY <1>12 DEF RecoveryStart
  <2>3. /\ st' \in {"recovering", "gap"} /\ wst' = wst /\ sched' = FALSE /\ retry' \in {retry, TRUE}
        /\ UNCHANGED <<cards, isReady, onReady>>
    BY <1>12 DEF RecoveryStart, ChannelStatus
  <2> QED BY <1>1, <1>2, <1>3, <1>9, <2>1, <2>2, <2>3
<1>13. CASE RecoveryFetch
  <2>1. rc' = [rc EXCEPT !.pc = "append", !.h = History.h, !.full = History.full]
    BY <1>13 DEF RecoveryFetch
  <2>2. rc' \in Tasks
    BY <1>3, <2>1, HistoryFacts DEF Tasks
  <2>3. UNCHANGED <<st, wst, cards, isReady, onReady, sched, retry>>
    BY <1>13 DEF RecoveryFetch
  <2> QED BY <1>1, <1>9, <2>2, <2>3
<1>14. CASE RecoveryAppend
  <2>1. rc' \in Tasks
    BY <1>14, AppendFacts
  <2>2. UNCHANGED <<st, wst, cards, isReady, onReady, sched, retry>>
    BY <1>14 DEF RecoveryAppend
  <2> QED BY <1>1, <1>9, <2>1, <2>2
<1>18. CASE RecoveryRead
  <2>1. rc' \in Tasks
    BY <1>18, CardFacts
  <2>2. UNCHANGED <<st, wst, cards, isReady, onReady, sched, retry>>
    BY <1>18 DEF RecoveryRead
  <2> QED BY <1>1, <1>9, <2>1, <2>2
<1>15. CASE RecoveryOverflow \/ RecoveryFail
  <2>1. /\ st' = "gap" /\ wst' \in {wst, Finished} /\ rc' = NoTask
        /\ UNCHANGED <<cards, isReady, onReady, sched>>
    BY <1>15 DEF RecoveryOverflow, RecoveryFail, FailedAfter, ChannelStatus
  <2>2. retry' \in BOOLEAN
    BY <1>15 DEF RecoveryOverflow, RecoveryFail, FailedAfter
  <2> QED BY <1>1, <1>2, <1>3, <1>9, <2>1, <2>2
<1>16. CASE RecoveryDone \/ RecoveryOutdated
  <2>1. /\ st' \in {st, "ready", "gap"} /\ wst' \in {wst, Finished} /\ rc' = NoTask
        /\ retry' \in {retry, FALSE, TRUE}
        /\ UNCHANGED <<cards, isReady, onReady, sched>>
    BY <1>16 DEF RecoveryDone, RecoveryOutdated, ChannelStatus
  <2> QED BY <1>1, <1>2, <1>3, <1>9, <2>1
<1>17. CASE Pop \/ SkipWithGap
  <2>1. \A a \in Nat : Larger(a - 1, 0) \in Nat
    BY DEF Larger
  <2>2. \A t \in Tasks : [t EXCEPT !.left = Larger(@ - 1, 0)] \in Tasks
    BY <2>1 DEF Tasks
  <2>3. rc' \in {[rc EXCEPT !.left = Larger(@ - 1, 0)], [Outdate(rc) EXCEPT !.left = Larger(@ - 1, 0)]}
    BY <1>17 DEF Pop, SkipWithGap
  <2>4. rc' \in Tasks
    BY <1>3, <2>2, <2>3
  <2>5. /\ st' \in {st, "gap"} /\ retry' \in {retry, FALSE}
        /\ UNCHANGED <<wst, cards, isReady, onReady, sched>>
    BY <1>17 DEF Pop, SkipWithGap, ChannelStatus
  <2> QED BY <1>1, <1>2, <1>9, <2>4, <2>5
<1> QED BY <1>5, <1>6, <1>7, <1>8, <1>10, <1>11, <1>12, <1>13, <1>14, <1>15, <1>16, <1>17, <1>18, Steps

(* The collector's channels have a state once a READY came.                *)
LEMMA PipeStep == ASSUME Typed, Known, Heading, Next PROVE PipeTyped'
<1> USE DEF disc, wire, box, chan, client, pipe, go, RecoveryRest, DeliverRest, ServeRest,
            DispatchRest
<1>1. /\ dl \in {"idle", "wait", "acked"} /\ link \in {"down", "eof", "up", "conf"}
      /\ ask \in BOOLEAN /\ ack \in {"none", "ok", "err"} /\ seen \in BOOLEAN
      /\ barrier \in BOOLEAN /\ (barrier => st \in SourceStates) /\ sock \in Seq(Frames)
      /\ st \in {"none"} \cup SourceStates
      /\ {"recovering", "gap", "ready"} \subseteq SourceStates /\ "none" \notin SourceStates
  BY DEF Typed, PipeTyped, ClientTyped, SourceStates
<1>2. ASSUME /\ dl' \in {"idle", "wait", "acked"} /\ link' \in {"down", "eof", "up", "conf"}
             /\ ask' \in BOOLEAN /\ ack' \in {"none", "ok", "err"} /\ seen' \in BOOLEAN
             /\ barrier' \in BOOLEAN /\ (barrier' => st' \in SourceStates) /\ sock' \in Seq(Frames)
      PROVE  PipeTyped'
  BY <1>1, <1>2 DEF PipeTyped
<1>3. CASE Post \/ Edit \/ Cut \/ Status \/ RecoveryFetch \/ RecoveryAppend \/ RecoveryRead
           \/ RecoveryOutdated \/ DispatchCheck \/ DispatchPick \/ Handle
  <2>1. UNCHANGED <<pipe, dl, seen, st>>
    BY <1>3 DEF Post, Edit, Emit, Cut, Status, RecoveryFetch, RecoveryAppend, RecoveryRead,
       RecoveryOutdated, DispatchCheck, DispatchPick, Handle
  <2> QED BY <1>1, <1>2, <2>1
<1>4. CASE Resume \/ Ready \/ Connect
  <2>1. /\ ask' \in BOOLEAN /\ barrier' \in BOOLEAN
        /\ link' \in {link, "up"} /\ UNCHANGED <<sock, ack, dl, seen>>
    BY <1>1, <1>4 DEF Resume, Ready, Connect
  <2>2. barrier' => st' \in SourceStates
    BY <1>1, <1>4 DEF Resume, Ready, Connect
  <2> QED BY <1>1, <1>2, <2>1, <2>2
<1>5. CASE OnReady \/ PublishBarrier
  <2>1. /\ st' \in {st, "recovering"} /\ UNCHANGED <<link, ack, dl, seen>> /\ ask' \in {ask, TRUE}
        /\ Send(<<>>) \/ UNCHANGED <<sock, barrier>>
    BY <1>5 DEF OnReady, PublishBarrier
  <2>2. barrier => st' \in SourceStates
    BY <1>1, <2>1
  <2>3. CASE Send(<<>>)
    <3>1. sock' \in Seq(Frames) /\ barrier' = FALSE
      BY <2>2, <2>3, SentTyped
    <3> QED BY <1>1, <1>2, <2>1, <3>1
  <2>4. CASE UNCHANGED <<sock, barrier>>
    BY <1>1, <1>2, <2>1, <2>2, <2>4
  <2> QED BY <2>1, <2>3, <2>4
<1>6. CASE Configure
  <2>1. /\ st' \in SourceStates /\ Send(ChannelFrame) /\ UNCHANGED <<ack, dl, seen>>
        /\ ask' = FALSE /\ link' = "conf"
    BY <1>1, <1>6 DEF Configure, Schedule
  <2>2. sock' \in Seq(Frames) /\ barrier' = FALSE
    BY <2>1, SentTyped
  <2> QED BY <1>1, <1>2, <2>1, <2>2
<1>7. CASE RecoveryStart \/ RecoveryOverflow \/ RecoveryDone \/ RecoveryFail
  <2>1. /\ st' \in SourceStates /\ UNCHANGED <<link, ask, ack, dl, seen>>
        /\ Send(ChannelFrame) \/ UNCHANGED <<sock, barrier>>
    BY <1>1, <1>7 DEF RecoveryStart, RecoveryOverflow, RecoveryDone, RecoveryFail, FailedAfter,
       ChannelStatus
  <2>2. sock' \in Seq(Frames) /\ barrier' \in BOOLEAN
    BY <1>1, <2>1, SentTyped
  <2> QED BY <1>1, <1>2, <2>1, <2>2
<1>8. CASE RecoveryRetry
  <2>1. UNCHANGED <<pipe, dl, seen>> /\ st' = "recovering"
    BY <1>8 DEF RecoveryRetry, Schedule
  <2> QED BY <1>1, <1>2, <2>1
<1>9. CASE Deliver
  <2>1. PICK m \in Msgs, v \in {0, 1, 2} : Send(<<Event(e0.k, m, v)>>) /\ q # <<>>
    <3>1. q # <<>>
      BY <1>9 DEF Deliver
    <3>2. e0.m \in Msgs /\ Hydrated(cache[e0.m], e0) \in {0, 1, 2}
      BY <3>1, HeadFacts, HydratedFacts
    <3> QED BY <1>9, <3>1, <3>2 DEF Deliver
  <2>2. Event(e0.k, m, v) \in Events
    BY <2>1, HeadFacts DEF Event, Events
  <2>3. st' = st /\ dl' = "wait" /\ ack' = "none" /\ UNCHANGED <<link, ask, seen>>
    BY <1>9 DEF Deliver
  <2>4. sock' \in Seq(Frames) /\ barrier' = FALSE
    BY <1>1, <2>1, <2>2, <2>3, SentTyped
  <2> QED BY <1>1, <1>2, <2>3, <2>4
<1>10. CASE Pop
  <2>1. /\ sock' = [i \in DOMAIN sock |-> IF sock[i].k = "channel" THEN sock[i] ELSE Old]
        /\ UNCHANGED <<st, link, ask, barrier>> /\ dl' = "idle" /\ seen' = FALSE /\ ack' = "none"
    BY <1>10 DEF Pop, PopHead
  <2>2. sock' \in Seq(Frames)
    BY <1>1, <2>1, FrameFacts
  <2> QED BY <1>1, <1>2, <2>1, <2>2
<1>11. CASE SkipWithGap
  <2>1. /\ st' = "gap" /\ UNCHANGED <<link, ask>> /\ dl' = "idle" /\ seen' = FALSE /\ ack' = "none"
        /\ Send(ChannelFrame) \/ UNCHANGED <<sock, barrier>>
    BY <1>11 DEF SkipWithGap, PopHead, ChannelStatus
  <2>2. sock' \in Seq(Frames) /\ barrier' \in BOOLEAN
    BY <1>1, <2>1, SentTyped
  <2> QED BY <1>1, <1>2, <2>1, <2>2
<1>12. CASE Acked \/ Undelivered \/ Late
  <2>1. /\ dl' \in {"idle", "acked"} /\ ack' \in {ack, "none"}
        /\ UNCHANGED <<st, link, ask, sock, barrier, seen>>
    BY <1>12 DEF Acked, Undelivered, Late, Resend
  <2> QED BY <1>1, <1>2, <2>1
<1>13. CASE Serve
  <2>1. /\ sock # <<>> /\ sock' = Tail(sock) /\ UNCHANGED <<st, link, ask, barrier, dl>>
        /\ seen' \in {seen, TRUE} /\ ack' \in {ack, "ok", "err"}
    BY <1>13 DEF Serve
  <2>2. sock' \in Seq(Frames)
    BY <1>1, <2>1, TailFrame
  <2> QED BY <1>1, <1>2, <2>1, <2>2
<1>14. CASE CollectorCrash \/ EndOfStream \/ Disconnect
  <2>1. /\ sock' \in {sock, <<>>} /\ ask' \in {ask, FALSE} /\ ack' \in {ack, "none"}
        /\ dl' \in {dl, "idle"} /\ link' \in {"down", "eof"} /\ seen' = seen
    BY <1>1, <1>14 DEF CollectorCrash, EndOfStream, Disconnect
  <2>2. barrier' \in BOOLEAN /\ (barrier' => barrier /\ st' = st)
    <3>1. CASE CollectorCrash
      BY <3>1 DEF CollectorCrash
    <3>2. CASE EndOfStream \/ Disconnect
      <4>1. UNCHANGED <<barrier, st>>
        BY <3>2 DEF EndOfStream, Disconnect
      <4> QED BY <1>1, <4>1
    <3> QED BY <1>14, <3>1, <3>2
  <2>3. sock' \in Seq(Frames)
    BY <1>1, <2>1, EmptySeq
  <2>4. barrier' => st' \in SourceStates
    BY <1>1, <2>2
  <2> QED BY <1>1, <1>2, <2>1, <2>2, <2>3, <2>4
<1> QED BY <1>3, <1>4, <1>5, <1>6, <1>7, <1>8, <1>9, <1>10, <1>11, <1>12, <1>13, <1>14, Steps

(* and of the backend's tables.                                            *)
LEMMA BackendStep == ASSUME Typed, Known, Next PROVE BackendTyped'
<1> USE DEF disc, wire, box, chan, client, pipe, go, RecoveryRest, DeliverRest, ServeRest,
            DispatchRest
<1> DEFINE Rows == {"none", "unknown"} \cup SourceStates
<1>1. row \in Rows /\ db \in Versions /\ dlv \in Seq(Revisions) /\ dp \in Jobs /\ gst \in BOOLEAN
  BY DEF Typed, BackendTyped
<1>2. ASSUME row' \in Rows, db' \in Versions, dlv' \in Seq(Revisions), dp' \in Jobs,
             gst' \in BOOLEAN
      PROVE  BackendTyped'
  BY <1>2 DEF BackendTyped
<1>3. NoDelivery \in Jobs
  BY DEF NoDelivery, Jobs
<1> HIDE DEF Rows
<1>11. /\ Len(dlv) \in Nat /\ DOMAIN dlv = 1 .. Len(dlv)
       /\ \A d \in DOMAIN dlv : dlv[d] \in Revisions
  BY <1>1, LenProperties, ElementOfSeq
<1>12. ASSUME NEW d \in DOMAIN dlv, NEW c \in {"pending", "processing", "done"},
              dlv' = [dlv EXCEPT ![d].status = c]
       PROVE  dlv' \in Seq(Revisions)
  <2>1. [dlv[d] EXCEPT !.status = c] \in Revisions
    BY <1>11 DEF Revisions
  <2>2. dlv' = [dlv EXCEPT ![d] = [dlv[d] EXCEPT !.status = c]]
    BY <1>12
  <2> QED BY <1>1, <1>11, <2>1, <2>2, ExceptSeq
<1>4. CASE Post \/ Edit \/ Cut \/ Resume \/ Ready \/ OnReady \/ PublishBarrier \/ Connect
           \/ Configure \/ RecoveryStart \/ RecoveryFetch \/ RecoveryAppend \/ RecoveryRead
           \/ RecoveryOverflow \/ RecoveryDone \/ RecoveryFail \/ RecoveryOutdated \/ RecoveryRetry \/ Deliver
           \/ Acked \/ Pop \/ Undelivered \/ Late \/ SkipWithGap \/ CollectorCrash
  <2>1. UNCHANGED <<row, db, dlv, dp, gst>>
    BY <1>4 DEF Post, Edit, Emit, Cut, Resume, Ready, OnReady, PublishBarrier, Connect,
       Configure, RecoveryStart, RecoveryFetch, RecoveryAppend, RecoveryRead, RecoveryOverflow,
       RecoveryDone, RecoveryFail, FailedAfter, RecoveryOutdated, RecoveryRetry, Deliver,
       Acked, Pop, Undelivered, Late, Resend, SkipWithGap, CollectorCrash
  <2> QED BY <1>1, <1>2, <2>1
<1>5. CASE Status \/ EndOfStream
  <2>1. UNCHANGED <<row, db, dlv, dp>> /\ gst' \in BOOLEAN
    BY <1>5 DEF Status, EndOfStream
  <2> QED BY <1>1, <1>2, <2>1
<1>6. CASE Serve
  <2>1. sock # <<>> /\ UNCHANGED <<dp, gst>>
    BY <1>6 DEF Serve
  <2>2. PICK f \in Frames : f = Head(sock)
    BY <2>1, TailFrame DEF Typed, PipeTyped
  <2>3. row' \in Rows
    <3>1. row' = row \/ row' = "unknown" \/ (IsState(f) /\ row' = f.s)
      BY <1>6, <2>2 DEF Serve, IsState
    <3> QED BY <1>1, <3>1, FrameFacts DEF Rows
  <2>4. (db' = db /\ dlv' = dlv) \/ (IsEvent(f) /\ Ingest(f.k, f.m, f.v))
    BY <1>6, <2>2 DEF Serve
  <2>5. db' \in Versions /\ dlv' \in Seq(Revisions)
    <3>1. CASE IsEvent(f) /\ Ingest(f.k, f.m, f.v)
      <4>1. f.m \in Msgs /\ f.v \in {0, 1, 2}
        BY <3>1, FrameFacts DEF Events
      <4>2. PICK r \in Revisions : r = [m |-> f.m, v |-> f.v, status |-> "pending"]
        BY <4>1 DEF Revisions
      <4>3. Append(dlv, r) \in Seq(Revisions)
        BY <1>1, AppendProperties
      <4> QED BY <1>1, <3>1, <4>1, <4>2, <4>3 DEF Ingest, Versions
    <3> QED BY <1>1, <2>4, <3>1
  <2> QED BY <1>1, <1>2, <2>1, <2>3, <2>5
<1>7. CASE DispatchCheck
  <2>1. UNCHANGED <<row, db, dlv, gst>> /\ dp' = [dp EXCEPT !.pc = "pick"]
    BY <1>7 DEF DispatchCheck
  <2>2. dp' \in Jobs
    BY <1>1, <2>1 DEF Jobs
  <2> QED BY <1>1, <1>2, <2>1, <2>2
<1>8. CASE DispatchPick
  <2>1. PICK d \in DOMAIN dlv : /\ dlv' = [dlv EXCEPT ![d].status = "processing"]
                                /\ dp' = [pc |-> "handle", d |-> d]
    BY <1>8 DEF DispatchPick, Pending
  <2>2. UNCHANGED <<row, db, gst>>
    BY <1>8 DEF DispatchPick
  <2>3. dp' \in Jobs /\ dlv' \in Seq(Revisions)
    <3>1. d \in Nat /\ "processing" \in {"pending", "processing", "done"}
      BY <1>11
    <3>2. dlv' \in Seq(Revisions)
      BY <1>12, <2>1, <3>1
    <3> QED BY <2>1, <3>1, <3>2 DEF Jobs
  <2> QED BY <1>1, <1>2, <2>2, <2>3
<1>9. CASE Handle
  <2>1. UNCHANGED <<row, db, gst>> /\ dp' = NoDelivery
        /\ (dlv' = [dlv EXCEPT ![dp.d].status = "done"]
            \/ dlv' = [dlv EXCEPT ![dp.d].status = "pending"])
    BY <1>9 DEF Handle
  <2>2. dlv' \in Seq(Revisions)
    <3>1. CASE dp.d \in DOMAIN dlv
      BY <1>12, <2>1, <3>1
    <3>2. CASE dp.d \notin DOMAIN dlv
      <4>1. dlv' = dlv
        BY <1>1, <2>1, <3>2, SeqDef
      <4> QED BY <1>1, <4>1
    <3> QED BY <3>1, <3>2
  <2> QED BY <1>1, <1>2, <1>3, <2>1, <2>2
<1>10. CASE Disconnect
  <2>1. /\ UNCHANGED <<row, db>> /\ gst' = FALSE /\ dp' \in {dp, NoDelivery}
        /\ \/ dlv' = dlv
           \/ dlv' = [d \in DOMAIN dlv |->
                          IF dlv[d].status = "processing" THEN [dlv[d] EXCEPT !.status = "pending"]
                          ELSE dlv[d]]
    BY <1>10 DEF Disconnect
  <2>2. dlv' \in Seq(Revisions)
    <3>1. \A r \in Revisions : [r EXCEPT !.status = "pending"] \in Revisions
      BY DEF Revisions
    <3>2. dlv' = dlv \/ dlv' \in [1 .. Len(dlv) -> Revisions]
      BY <1>11, <2>1, <3>1
    <3> QED BY <1>1, <1>11, <3>2, SeqDef
  <2> QED BY <1>1, <1>2, <1>3, <2>1, <2>2
<1> QED BY <1>4, <1>5, <1>6, <1>7, <1>8, <1>9, <1>10, Steps

(* Every step keeps the types.                                             *)
LEMMA TypedStep == ASSUME Typed, Known, Heading, Next PROVE Typed'
BY DiscordStep, BoxStep, ClientStep, PipeStep, BackendStep DEF Typed

-----------------------------------------------------------------------------
(* What events and copies say of the messages.                             *)

(* What was said stays said.                                               *)
LEMMA SaidLater ==
    ASSUME Typed, Known, Next
    PROVE  /\ posted <= posted'
           /\ edited' = edited \/ (edited = 0 /\ Card <= posted /\ edited' = posted)
           /\ \A m \in Msgs, v \in {0, 1, 2} : Said(m, v) => Said(m, v)'
           /\ edited' > 0 => edited' >= Card /\ Card <= posted'
<1> USE DEF disc, wire, box, chan, client, pipe, go, RecoveryRest, DeliverRest, ServeRest,
            DispatchRest
<1>1. posted \in Nat /\ edited \in Nat /\ Card \in Nat /\ (edited > 0 => edited >= Card /\ Card <= posted)
  BY Numbers DEF Known
<1>2. /\ posted' \in {posted, posted + 1}
      /\ edited' = edited \/ (edited = 0 /\ Card <= posted /\ edited' = posted /\ posted' = posted)
  <2>1. CASE Post \/ Edit
    BY <2>1 DEF Post, Edit
  <2>2. CASE ~(Post \/ Edit)
    <3>1. UNCHANGED disc
      BY <2>2, Steps DEF Ready, Resume, OnReady, PublishBarrier, Connect, Configure, Status,
         RecoveryStart, RecoveryFetch, RecoveryAppend, RecoveryRead, RecoveryOverflow, RecoveryDone,
         RecoveryOutdated, RecoveryRetry, Deliver, Acked, Pop, Undelivered, Serve,
         DispatchCheck, DispatchPick, Handle, EndOfStream, Cut, RecoveryFail, FailedAfter, Late,
         Resend, SkipWithGap, CollectorCrash, Disconnect
    <3> QED BY <3>1
  <2> QED BY <2>1, <2>2
<1>3. ASSUME NEW m \in Msgs, NEW v \in {0, 1, 2}, Said(m, v) PROVE Said(m, v)'
  BY <1>1, <1>2, <1>3, Numbers DEF Said
<1> QED BY <1>1, <1>2, <1>3, Numbers

(* Of a whole sequence of events too.                                      *)
LEMMA SaidKept ==
    ASSUME Typed, Known, Next, NEW s \in Seq(Events), SaidIn(s)
    PROVE  SaidIn(s)'
<1>1. ASSUME NEW i \in 1 .. Len(s) PROVE Said(s[i].m, s[i].v)'
  <2>1. PICK m \in Msgs, v \in {0, 1, 2} : m = s[i].m /\ v = s[i].v
    BY FirstsFacts DEF Events
  <2>2. Said(m, v)
    BY <2>1 DEF SaidIn
  <2>3. Said(m, v)'
    BY <2>2, SaidLater
  <2> QED BY <2>1, <2>3
<1> QED BY <1>1 DEF SaidIn

(* The outbox is unchanged, grows at its end by events that are said, or   *)
(* loses its head.                                                         *)
LEMMA QueueSteps ==
    ASSUME Typed, Known, Heading, Next
    PROVE  \/ q' = q
           \/ /\ Post \/ Edit \/ Resume \/ RecoveryAppend \/ RecoveryOverflow
              /\ \E t \in Seq(Events) : q' = q \o t /\ SaidIn(t)'
           \/ (Pop \/ SkipWithGap) /\ q # <<>> /\ q' = Tail(q)
<1> USE DEF disc, wire, box, chan, client, pipe, go, RecoveryRest, DeliverRest, ServeRest,
            DispatchRest
<1>1. ASSUME NEW es \in Seq(Events), SaidIn(es)', Capture(es)
      PROVE  \E t \in Seq(Events) : q' = q \o t /\ SaidIn(t)'
  <2>1. CASE q' = q \o es
    BY <1>1, <2>1
  <2>2. ASSUME NEW t \in Seq(Events), q' = q \o t,
               \A i \in 1 .. Len(t) : i \in 1 .. Len(es) /\ t[i] = es[i]
        PROVE  SaidIn(t)'
    BY <1>1, <2>2 DEF SaidIn
  <2> QED BY <1>1, <2>1, <2>2, CaptureFacts
<1>2. ASSUME NEW e \in Events, Said(e.m, e.v)', Emit(e)
      PROVE  q' = q \/ \E t \in Seq(Events) : q' = q \o t /\ SaidIn(t)'
  <2>1. <<e>> \in Seq(Events) /\ Len(<<e>>) = 1 /\ SaidIn(<<e>>)'
    BY <1>2, OneEvent DEF SaidIn
  <2> QED BY <1>1, <1>2, <2>1 DEF Emit
<1>3. CASE Post
  <2>1. PICK e \in Events : e = Event("create", posted + 1, 0)
    BY <1>3, PostedEvent
  <2>2. e.m = posted + 1 /\ e.v = 0 /\ Emit(e) /\ posted' = posted + 1
    BY <1>3, <2>1, PostedEvent DEF Event
  <2>3. Said(e.m, e.v)'
    BY <2>2, Numbers DEF Said
  <2> QED BY <1>2, <1>3, <2>2, <2>3
<1>4. CASE Edit
  <2>1. Said(Card, 1)'
    BY <1>4, EditedEvent DEF Said
  <2> QED BY <1>2, <1>4, <2>1, EditedEvent DEF Event
<1>5. CASE Resume
  <2>1. PICK t \in Seq(Events) : t = missed
    BY Lens
  <2>2. SaidIn(t)'
    BY <2>1, SaidKept DEF Known
  <2>3. Capture(t) \/ q' = q \o t
    BY <1>5, <2>1 DEF Resume
  <2> QED BY <1>1, <1>5, <2>2, <2>3
<1>6. CASE RecoveryAppend \/ RecoveryOverflow
  <2>1. PICK es \in Seq(Events) : es = rc.h
    BY Lens
  <2>2. SaidIn(es)
    BY <2>1 DEF Known
  <2>3. SaidIn(es)'
    BY <2>2, SaidKept
  <2>4. CASE RecoveryAppend
    <3>1. q' = q \o es
      BY <2>1, <2>4 DEF RecoveryAppend
    <3> QED BY <2>3, <2>4, <3>1
  <2>5. CASE RecoveryOverflow
    <3>1. q' = q \o SubSeq(es, 1, Capacity - Len(q)) /\ Len(q) + Len(es) > Capacity
      BY <2>1, <2>5 DEF RecoveryOverflow, FailedAfter
    <3>2. PICK t \in Seq(Events) : t = SubSeq(es, 1, Capacity - Len(q))
      BY <3>1, PartFits
    <3>3. \A i \in 1 .. Len(t) : i \in 1 .. Len(es) /\ t[i] = es[i]
      BY <3>1, <3>2, PartFits
    <3>4. SaidIn(t)'
      BY <2>3, <3>3 DEF SaidIn
    <3> QED BY <2>5, <3>1, <3>2, <3>4
  <2> QED BY <1>6, <2>4, <2>5
<1>7. CASE Pop \/ SkipWithGap
  BY <1>7 DEF Pop, SkipWithGap, PopHead, Heading
<1>8. CASE RecoveryFail
  <2>1. q' = q \o <<>>
    BY <1>8 DEF RecoveryFail, FailedAfter
  <2> QED BY <2>1, Lens, ConcatEmptySeq
<1>9. CASE Cut \/ PublishBarrier \/ Connect \/ Status \/ RecoveryStart \/ RecoveryFetch
           \/ RecoveryRead \/ RecoveryOutdated \/ Undelivered \/ Serve \/ DispatchCheck
           \/ DispatchPick \/ Handle \/ EndOfStream \/ Late \/ CollectorCrash \/ Disconnect
  <2>1. UNCHANGED box
    BY <1>9 DEF Cut, PublishBarrier, Connect, Status, RecoveryStart, RecoveryFetch,
       RecoveryRead, RecoveryOutdated, Undelivered, Resend, Serve, DispatchCheck, DispatchPick, Handle,
       EndOfStream, Late, CollectorCrash, Disconnect
  <2> QED BY <2>1
<1>10. CASE Ready \/ OnReady \/ RecoveryRetry \/ Configure \/ RecoveryDone \/ Deliver \/ Acked
  <2>1. q' = q
    BY <1>10 DEF Ready, OnReady, RecoveryRetry, Configure, RecoveryDone, Deliver, Acked
  <2> QED BY <2>1
<1> QED BY <1>3, <1>4, <1>5, <1>6, <1>7, <1>8, <1>9, <1>10, Steps

-----------------------------------------------------------------------------
(* What the frames in transit are after a step.                            *)

(* The steps that put no event in transit.                                 *)
LEMMA NoNewEvent ==
    ASSUME Typed,
           \/ Send(<<>>) /\ (barrier => st' \in SourceStates)
           \/ Send(ChannelFrame) /\ st' \in SourceStates
    PROVE  \A i \in 1 .. Len(sock') : IsEvent(sock'[i]) =>
              \E j \in 1 .. Len(sock) : sock'[i] = sock[j]
<1> DEFINE Fresh(u) == \A i \in 1 .. Len(u) : IsEvent(u[i]) => \E j \in 1 .. Len(sock) : u[i] = sock[j]
<1>1. sock \in Seq(Frames) /\ Fresh(sock)
  BY DEF Typed, PipeTyped
<1>2. ASSUME NEW s \in Seq(Frames), NEW c \in SourceStates, Fresh(s)
      PROVE  Append(s, StateFrame(c)) \in Seq(Frames) /\ Fresh(Append(s, StateFrame(c)))
  <2>1. PICK f \in Frames : f = StateFrame(c) /\ ~IsEvent(f)
    BY FrameFacts
  <2> DEFINE u == Append(s, f)
  <2>2. /\ u \in Seq(Frames) /\ Len(u) = Len(s) + 1 /\ Len(s) \in Nat
        /\ \A i \in 1 .. Len(s) : u[i] = s[i]
        /\ u[Len(s) + 1] = f
    BY AppendFrame
  <2>3. u = Append(s, StateFrame(c))
    BY <2>1
  <2> HIDE DEF u
  <2>4. Fresh(u)
    BY <1>2, <2>1, <2>2
  <2> QED BY <2>2, <2>3, <2>4
<1> SUFFICES Fresh(sock')
  OBVIOUS
<1> HIDE DEF Fresh
<1>3. ASSUME st' \in SourceStates
      PROVE  /\ Fresh(Append(sock, StateFrame(st')))
             /\ Fresh(Append(Append(sock, StateFrame(st')), StateFrame(st')))
  <2>1. PICK c \in SourceStates : c = st'
    BY <1>3
  <2>2. PICK s \in Seq(Frames) : s = Append(sock, StateFrame(c)) /\ Fresh(s)
    BY <1>1, <1>2
  <2>3. Fresh(Append(s, StateFrame(c)))
    BY <1>2, <2>2
  <2> QED BY <2>1, <2>2, <2>3
<1>4. CASE Send(<<>>) /\ (barrier => st' \in SourceStates)
  BY <1>1, <1>3, <1>4, SendNone
<1>5. CASE Send(ChannelFrame) /\ st' \in SourceStates
  BY <1>3, <1>5, SendState
<1> QED BY <1>4, <1>5

(* The only new event is the one delivered; a popped event leaves none.    *)
LEMMA SockSteps ==
    ASSUME Typed, Known, Heading, Next, NEW i \in 1 .. Len(sock'), IsEvent(sock'[i])
    PROVE  /\ ~Pop
           /\ \/ \E j \in 1 .. Len(sock) : sock'[i] = sock[j]
              \/ /\ Deliver /\ q # <<>> /\ sock'[i].m = q[1].m /\ cache'[q[1].m] # Nothing
                 /\ sock'[i].v = cache'[q[1].m] /\ sock'[i].v \in {0, 1, 2}
<1> USE DEF disc, wire, box, chan, client, pipe, go, RecoveryRest, DeliverRest, ServeRest,
            DispatchRest
<1> DEFINE Goal == \E j \in 1 .. Len(sock) : sock'[i] = sock[j]
<1>1. /\ sock \in Seq(Frames) /\ (barrier => st \in SourceStates)
      /\ st \in {"none"} \cup SourceStates
      /\ {"recovering", "gap", "ready"} \subseteq SourceStates /\ "none" \notin SourceStates
  BY DEF Typed, PipeTyped, ClientTyped, SourceStates
<1>2. CASE Pop
  <2>1. sock' = [j \in DOMAIN sock |-> IF sock[j].k = "channel" THEN sock[j] ELSE Old]
    BY <1>2 DEF Pop
  <2>2. DOMAIN sock = 1 .. Len(sock) /\ sock' \in Seq(Frames)
    BY <1>1, PipeStep DEF PipeTyped
  <2>3. Len(sock') = Len(sock)
    BY <1>1, <2>1, <2>2
  <2>4. sock'[i] = (IF sock[i].k = "channel" THEN sock[i] ELSE Old)
    BY <2>1, <2>2, <2>3
  <2>5. ~IsEvent(sock'[i])
    BY <2>4, FrameFacts DEF IsEvent
  <2> QED BY <2>5
<1>3. CASE Deliver
  <2>1. q # <<>> /\ st' = st
    BY <1>3 DEF Deliver
  <2>2. e0 = q[1] /\ e0.m \in Msgs /\ cache \in Versions
    BY <2>1, HeadFacts DEF Typed, BoxTyped
  <2>3. PICK v \in {0, 1, 2} : v = Hydrated(cache[e0.m], e0)
    BY <2>1, HydratedFacts
  <2>4. PICK e \in Events : e = Event(e0.k, e0.m, v)
    BY <2>1, <2>2, HeadFacts DEF Event, Events
  <2>5. e.m = e0.m /\ e.v = v /\ Send(<<e>>) /\ cache' = [cache EXCEPT ![e0.m] = v]
    BY <1>3, <2>3, <2>4 DEF Deliver, Event
  <2>6. cache'[q[1].m] = v /\ v # Nothing
    BY <2>2, <2>5 DEF Versions, Nothing
  <2>8. Goal \/ sock'[i] = e
    <3>1. e \in Frames
      BY FrameFacts
    <3>2. sock' = IF barrier THEN Append(Append(sock, StateFrame(st')), e) ELSE Append(sock, e)
      BY <1>1, <2>1, <2>5, <3>1, SendOne
    <3>3. CASE ~barrier
      BY <1>1, <3>1, <3>2, <3>3, AppendFrame
    <3>4. CASE barrier
      <4>1. PICK c \in SourceStates : c = st'
        BY <1>1, <2>1, <3>4
      <4>2. PICK f \in Frames : f = StateFrame(c) /\ ~IsEvent(f)
        BY FrameFacts
      <4>3. PICK s \in Seq(Frames) :
               /\ s = Append(sock, f) /\ Len(s) = Len(sock) + 1 /\ Len(sock) \in Nat
               /\ \A j \in 1 .. Len(sock) : s[j] = sock[j]
               /\ s[Len(sock) + 1] = f
        BY <1>1, AppendFrame
      <4>4. PICK u \in Seq(Frames) :
               /\ u = Append(s, e) /\ Len(u) = Len(s) + 1
               /\ \A j \in 1 .. Len(s) : u[j] = s[j]
               /\ u[Len(s) + 1] = e
        BY <3>1, AppendFrame
      <4>5. sock' = u
        BY <3>2, <3>4, <4>1, <4>2, <4>3, <4>4
      <4>6. i \in 1 .. Len(sock) + 2
        BY <4>3, <4>4, <4>5
      <4>7. CASE i \in 1 .. Len(sock)
        BY <4>3, <4>4, <4>5, <4>7
      <4>8. CASE i = Len(sock) + 1
        BY <4>2, <4>3, <4>4, <4>5, <4>8
      <4>9. CASE i = Len(sock) + 2
        BY <4>3, <4>4, <4>5, <4>9
      <4> QED BY <4>3, <4>6, <4>7, <4>8, <4>9
    <3> QED BY <3>3, <3>4
  <2>9. ~Pop
    BY <1>3 DEF Deliver, Pop
  <2>10. CASE sock'[i] = e
    BY <1>3, <2>1, <2>2, <2>5, <2>6, <2>9, <2>10
  <2> QED BY <2>8, <2>9, <2>10
<1>4. CASE ~Pop /\ ~Deliver
  <2>1. CASE OnReady \/ PublishBarrier
    <3>1. st' \in {st, "recovering"} /\ (Send(<<>>) \/ UNCHANGED <<sock, barrier>>)
      BY <2>1 DEF OnReady, PublishBarrier
    <3> QED BY <1>1, <1>4, <3>1, NoNewEvent
  <2>2. CASE Configure \/ RecoveryStart \/ RecoveryOverflow \/ RecoveryDone \/ RecoveryFail
             \/ SkipWithGap
    <3>1. st' \in SourceStates /\ (Send(ChannelFrame) \/ UNCHANGED <<sock, barrier>>)
      <4>1. CASE Configure
        BY <1>1, <4>1 DEF Configure, Schedule
      <4>2. CASE ~Configure
        BY <1>1, <2>2, <4>2 DEF RecoveryStart, RecoveryOverflow, RecoveryDone, RecoveryFail,
           FailedAfter, ChannelStatus, SkipWithGap
      <4> QED BY <4>1, <4>2
    <3> QED BY <1>1, <1>4, <3>1, NoNewEvent
  <2>3. CASE Serve
    <3>1. sock # <<>> /\ sock' = Tail(sock)
      BY <2>3 DEF Serve
    <3> QED BY <1>1, <1>4, <3>1, TailFrame
  <2>4. CASE Disconnect
    <3>1. sock' = <<>>
      BY <2>4 DEF Disconnect
    <3> QED BY <3>1
  <2>5. CASE ~(OnReady \/ PublishBarrier \/ Configure \/ RecoveryStart \/ RecoveryOverflow
               \/ RecoveryDone \/ RecoveryFail \/ SkipWithGap \/ Serve \/ Disconnect)
    <3>1. sock' = sock
      BY <1>4, <2>5, Steps DEF Post, Edit, Emit, Ready, Resume, Connect, Status, RecoveryFetch,
         RecoveryAppend, RecoveryRead, RecoveryOutdated, RecoveryRetry, Acked, Undelivered, Late,
         Resend, DispatchCheck, DispatchPick, Handle, EndOfStream, Cut, CollectorCrash
    <3> QED BY <1>4, <3>1
  <2> QED BY <2>1, <2>2, <2>3, <2>4, <2>5
<1> QED BY <1>2, <1>3, <1>4

-----------------------------------------------------------------------------
(* Only Serve stores, and what it stores is a new revision.                *)
LEMMA StoreSteps ==
    ASSUME Typed, Next
    PROVE  \/ db' = db
           \/ \E f \in Events :
                 /\ Serve /\ sock # <<>> /\ f = sock[1] /\ IsEvent(f) /\ ~seen
                 /\ db' = [db EXCEPT ![f.m] = f.v]
<1> USE DEF disc, wire, box, chan, client, pipe, go, RecoveryRest, DeliverRest, ServeRest,
            DispatchRest
<1>1. CASE Serve
  <2>1. sock # <<>>
    BY <1>1 DEF Serve
  <2>2. PICK f \in Frames : f = Head(sock) /\ f = sock[1]
    BY <2>1, TailFrame DEF Typed, PipeTyped
  <2>3. db' = db \/ (IsEvent(f) /\ ~seen /\ Ingest(f.k, f.m, f.v))
    BY <1>1, <2>2 DEF Serve
  <2>4. IsEvent(f) => f \in Events
    BY FrameFacts
  <2> QED BY <1>1, <2>1, <2>2, <2>3, <2>4 DEF Ingest
<1>2. CASE ~Serve
  <2>1. db' = db
    BY <1>2, Steps DEF Post, Edit, Emit, Cut, Resume, Ready, OnReady, PublishBarrier, Connect,
       Configure, Status, RecoveryStart, RecoveryFetch, RecoveryAppend, RecoveryRead,
       RecoveryOverflow, RecoveryDone, RecoveryFail, FailedAfter, RecoveryOutdated, RecoveryRetry,
       Deliver, Acked, Pop, Undelivered, Late, Resend, SkipWithGap, CollectorCrash, DispatchCheck,
       DispatchPick, Handle, EndOfStream, Disconnect
  <2> QED BY <2>1
<1> QED BY <1>1, <1>2

(* What is stored stays stored.                                            *)
LEMMA StoreGrows ==
    ASSUME Typed, Next
    PROVE  /\ \A m \in Msgs : /\ db[m] \in {Nothing, 0, 1, 2} /\ db'[m] \in {Nothing, 0, 1, 2}
                              /\ db[m] # Nothing => db'[m] # Nothing
           /\ Stored \subseteq Stored'
           /\ Stored' = Stored \/ (/\ Serve /\ sock # <<>> /\ IsEvent(sock[1]) /\ sock[1].m \in Msgs
                                   /\ Stored' = Stored \cup {sock[1].m})
<1>1. db \in Versions /\ \A m \in Msgs : db[m] \in {Nothing, 0, 1, 2}
  BY DEF Typed, BackendTyped, Versions
<1>2. CASE db' = db
  BY <1>1, <1>2 DEF Stored, Nothing
<1>3. ASSUME NEW f \in Events, Serve, sock # <<>>, f = sock[1], IsEvent(f),
             db' = [db EXCEPT ![f.m] = f.v]
      PROVE  /\ \A m \in Msgs : db'[m] \in {Nothing, 0, 1, 2} /\ (db[m] # Nothing => db'[m] # Nothing)
             /\ Stored' = Stored \cup {f.m} /\ f.m \in Msgs
  <2>1. f.m \in Msgs /\ f.v \in {0, 1, 2}
    BY DEF Events
  <2>2. \A m \in Msgs : db'[m] = (IF m = f.m THEN f.v ELSE db[m])
    BY <1>1, <1>3, <2>1 DEF Versions
  <2>3. \A m \in Msgs : db'[m] \in {Nothing, 0, 1, 2} /\ (db[m] # Nothing => db'[m] # Nothing)
    BY <1>1, <1>3, <2>1, <2>2 DEF Nothing
  <2>4. Stored' = Stored \cup {f.m}
    BY <2>1, <2>2 DEF Stored, Nothing
  <2> QED BY <2>1, <2>3, <2>4
<1> QED BY <1>1, <1>2, <1>3, StoreSteps

(* The recovery reads, and what it read it keeps, or appends or drops.     *)
LEMMA ReadSteps ==
    ASSUME Typed, Known, Next
    PROVE  \/ RecoveryFetch /\ rc'.h = History.h /\ rc'.pc = "append" /\ rc'.todo = rc.todo
           \/ RecoveryRead
           \/ rc'.h = rc.h /\ rc'.pc = rc.pc /\ rc'.todo = rc.todo
           \/ rc'.h = <<>> /\ rc'.todo \subseteq cards \cup rc.todo
<1> USE DEF disc, wire, box, chan, client, pipe, go, RecoveryRest, DeliverRest, ServeRest,
            DispatchRest
<1>1. /\ rc \in Tasks /\ NoTask.h = <<>> /\ NoTask.todo = {} /\ Outdate(rc) \in Tasks
      /\ Outdate(rc).h = rc.h /\ Outdate(rc).pc = rc.pc /\ Outdate(rc).todo = rc.todo
  BY Task DEF NoTask, Outdate, Tasks
<1>2. CASE RecoveryFetch
  <2>1. rc' = [rc EXCEPT !.pc = "append", !.h = History.h, !.full = History.full]
    BY <1>2 DEF RecoveryFetch
  <2> QED BY <1>1, <1>2, <2>1 DEF Tasks
<1>3. CASE RecoveryAppend
  BY <1>3, AppendFacts
<1>4. CASE Ready \/ OnReady \/ Configure \/ RecoveryRetry
  <2>1. rc' = Outdate(rc) \/ rc' = rc
    BY <1>4 DEF Ready, OnReady, Configure, Schedule, RecoveryRetry
  <2> QED BY <1>1, <2>1
<1>5. CASE RecoveryStart \/ RecoveryOverflow \/ RecoveryDone \/ RecoveryFail
           \/ RecoveryOutdated \/ CollectorCrash
  <2>1. rc' = NoTask \/ rc' = [NoTask EXCEPT !.pc = "fetch", !.ok = TRUE]
    BY <1>5 DEF RecoveryStart, RecoveryOverflow, RecoveryDone, RecoveryFail, FailedAfter,
       RecoveryOutdated, CollectorCrash
  <2>2. NoTask \in Tasks
    BY Task
  <2>3. rc'.h = <<>> /\ rc'.todo = {}
    BY <1>1, <2>1, <2>2 DEF Tasks
  <2> QED BY <2>3
<1>6. CASE Pop \/ SkipWithGap
  <2>1. rc' = [rc EXCEPT !.left = Larger(@ - 1, 0)]
        \/ rc' = [Outdate(rc) EXCEPT !.left = Larger(@ - 1, 0)]
    BY <1>6 DEF Pop, SkipWithGap
  <2> QED BY <1>1, <2>1 DEF Tasks
<1>7. CASE ~(Ready \/ OnReady \/ Configure \/ RecoveryRetry \/ RecoveryStart \/ RecoveryFetch
             \/ RecoveryAppend \/ RecoveryRead \/ RecoveryOverflow \/ RecoveryDone
             \/ RecoveryFail \/ RecoveryOutdated \/ CollectorCrash \/ Pop \/ SkipWithGap)
  <2>1. rc' = rc
    BY <1>7, Steps DEF Post, Edit, Emit, Resume, PublishBarrier, Connect, Status, Deliver,
       Acked, Undelivered, Late, Resend, Serve, DispatchCheck, DispatchPick, Handle,
       EndOfStream, Cut, Disconnect
  <2> QED BY <2>1
<1> QED BY <1>2, <1>3, <1>4, <1>5, <1>6, <1>7

(* Every step keeps what events and copies may say.                        *)
LEMMA KnownStep == ASSUME Typed, Known, Heading, Handed, Next PROVE Known'
<1> USE DEF disc, wire, box, chan, client, pipe, go, RecoveryRest, DeliverRest, ServeRest,
            DispatchRest
<1>1. edited' > 0 => edited' >= Card /\ Card <= posted'
  BY SaidLater
<1>2. SaidIn(q)'
  <2>1. PICK s \in Seq(Events) : s = q /\ SaidIn(s)
    BY Lens DEF Known
  <2>2. SaidIn(s)'
    BY <2>1, SaidKept
  <2>3. CASE q' = q
    BY <2>1, <2>2, <2>3 DEF SaidIn
  <2>4. ASSUME NEW t \in Seq(Events), q' = q \o t, SaidIn(t)' PROVE SaidIn(q)'
    <3>1. \A i \in 1 .. Len(q') : \/ i \in 1 .. Len(s) /\ q'[i] = s[i]
                                  \/ \E j \in 1 .. Len(t) : q'[i] = t[j]
      BY <2>1, <2>4, Behind
    <3> QED BY <2>2, <2>4, <3>1 DEF SaidIn
  <2>5. CASE q # <<>> /\ q' = Tail(q)
    <3>1. \A i \in 1 .. Len(q') : i + 1 \in 1 .. Len(s) /\ q'[i] = s[i + 1]
      BY <2>1, <2>5, HeadFacts
    <3> QED BY <2>2, <3>1 DEF SaidIn
  <2> QED BY <2>3, <2>4, <2>5, QueueSteps
<1>3. SaidIn(missed)' /\ (missed' # <<>> => gw' = "cut")
  <2>1. PICK s \in Seq(Events) : s = missed /\ SaidIn(s)
    BY Lens DEF Known
  <2>2. SaidIn(s)'
    BY <2>1, SaidKept
  <2>3. ASSUME NEW e \in Events, Emit(e), Said(e.m, e.v)' PROVE SaidIn(missed)' /\ (missed' # <<>> => gw' = "cut")
    <3>1. \A i \in 1 .. Len(missed') : (i \in 1 .. Len(s) /\ missed'[i] = s[i]) \/ missed'[i] = e
      BY <2>1, <2>3, EmitFacts
    <3>2. missed' # <<>> => gw' = "cut"
      BY <2>3 DEF Emit, Known
    <3> QED BY <2>2, <2>3, <3>1, <3>2 DEF SaidIn
  <2>4. CASE Post
    <3>1. PICK e \in Events : e = Event("create", posted + 1, 0)
      BY <2>4, PostedEvent
    <3>2. e.m = posted + 1 /\ e.v = 0 /\ Emit(e) /\ posted' = posted + 1
      BY <2>4, <3>1, PostedEvent DEF Event
    <3>3. Said(e.m, e.v)'
      BY <3>2, Numbers DEF Said
    <3> QED BY <2>3, <3>2, <3>3
  <2>5. CASE Edit
    <3>1. PICK e \in Events : e = Event("update", Card, 1)
      BY <2>5, EditedEvent
    <3>2. e.m = Card /\ e.v = 1 /\ Emit(e)
      BY <2>5, <3>1, EditedEvent DEF Event
    <3>3. Said(e.m, e.v)'
      BY <2>5, <3>2, EditedEvent DEF Said
    <3> QED BY <2>3, <3>2, <3>3
  <2>6. CASE missed' = <<>>
    BY <2>6 DEF SaidIn
  <2>7. CASE ~Post /\ ~Edit /\ missed' # <<>>
    <3>1. missed' = missed /\ (gw = "cut" => gw' = "cut")
      BY <2>7, Steps DEF Resume, Ready, OnReady, PublishBarrier, Connect, Configure, Status,
         RecoveryStart, RecoveryFetch, RecoveryAppend, RecoveryRead, RecoveryOverflow, RecoveryDone,
         RecoveryOutdated, RecoveryRetry, Deliver, Acked, Pop, Undelivered, Serve,
         DispatchCheck, DispatchPick, Handle, EndOfStream, Cut, RecoveryFail, FailedAfter, Late,
         Resend, SkipWithGap, CollectorCrash, Disconnect
    <3> QED BY <2>1, <2>2, <2>7, <3>1 DEF SaidIn, Known
  <2> QED BY <2>4, <2>5, <2>6, <2>7
<1>4. SaidIn(rc.h)'
  <2>1. PICK s \in Seq(Events) : s = rc.h /\ SaidIn(s)
    BY Lens DEF Known
  <2>2. SaidIn(s)' /\ SaidIn(<<>>)'
    BY <2>1, SaidKept DEF SaidIn
  <2>3. ASSUME NEW h \in Seq(Events), SaidIn(h), rc'.h = h PROVE SaidIn(rc.h)'
    BY <2>3, SaidKept
  <2> QED BY <2>1, <2>2, <2>3, HistoryFacts, CardFacts, ReadSteps
<1>5. ASSUME NEW m \in Msgs, NEW v \in {0, 1, 2}, Said(m, v) PROVE Said(m, v)'
  BY <1>5, SaidLater
<1>6. \A m \in Msgs : \A v \in {0, 1, 2} : cache[m] = v => Said(m, v)'
  BY <1>5 DEF Known, Nothing
<1>7. q # <<>> => q[1].m \in Msgs
  BY HeadFacts
<1>8. \A m \in Msgs : \A v \in {0, 1, 2} : cache'[m] = v => Said(m, v)'
  <2>1. CASE Deliver
    <3>1. q # <<>>
      BY <2>1 DEF Deliver
    <3>2. PICK m \in Msgs, w \in {0, 1, 2} : /\ m = e0.m /\ w = Hydrated(cache[m], e0)
                                             /\ Said(m, w)
      BY <3>1, HeadFacts, HydratedFacts
    <3>3. cache' = [cache EXCEPT ![m] = w]
      BY <2>1, <3>2 DEF Deliver
    <3>4. \A a \in Msgs : cache'[a] = cache[a] \/ (a = m /\ cache'[a] = w)
      BY <3>3 DEF Typed, BoxTyped, Versions
    <3> QED BY <1>5, <1>6, <3>2, <3>4
  <2>2. CASE ~Deliver
    <3>1. cache' = cache
      BY <2>2, Steps DEF Post, Edit, Emit, Cut, Resume, Ready, OnReady, PublishBarrier, Connect,
       Configure, Schedule, Status, RecoveryStart, RecoveryFetch, RecoveryAppend, RecoveryRead,
       RecoveryOverflow,
       RecoveryDone, RecoveryFail, FailedAfter, RecoveryOutdated, RecoveryRetry,
       Acked, Pop, Undelivered, Late, Resend, Serve, SkipWithGap, CollectorCrash, DispatchCheck,
       DispatchPick, Handle, EndOfStream, Disconnect
    <3> QED BY <1>6, <3>1
  <2> QED BY <2>1, <2>2
<1>9. \A m \in Msgs : cache'[m] # Nothing => Said(m, cache[m])'
  BY <1>8, BoxStep DEF BoxTyped, Versions
<1>10. \A i \in 1 .. Len(sock') : IsEvent(sock'[i]) => Said(sock[i].m, sock[i].v)'
  <2>1. ASSUME NEW i \in 1 .. Len(sock'), IsEvent(sock'[i])
        PROVE  Said(sock[i].m, sock[i].v)'
    <3>1. ASSUME NEW j \in 1 .. Len(sock), sock'[i] = sock[j] PROVE Said(sock[i].m, sock[i].v)'
      <4>1. sock[j] \in Frames
        BY DEF Typed, PipeTyped
      <4>2. PICK f \in Events : f = sock[j] /\ f.m \in Msgs /\ f.v \in {0, 1, 2}
        BY <2>1, <3>1, <4>1, FrameFacts DEF Events
      <4>3. Said(f.m, f.v)
        BY <2>1, <3>1, <4>2 DEF Known
      <4> QED BY <1>5, <3>1, <4>2, <4>3
    <3>2. ASSUME q # <<>>, sock'[i].m = q[1].m, sock'[i].v = cache'[q[1].m], sock'[i].v \in {0, 1, 2}
          PROVE Said(sock[i].m, sock[i].v)'
      <4>1. PICK m \in Msgs, v \in {0, 1, 2} : m = sock'[i].m /\ v = sock'[i].v
        BY <1>7, <3>2
      <4> QED BY <1>8, <3>2, <4>1
    <3> QED BY <2>1, <3>1, <3>2, SockSteps
  <2> QED BY <2>1
<1>11. \A m \in Msgs : db'[m] # Nothing => Said(m, db[m])'
  <2>1. ASSUME NEW m \in Msgs, db[m] # Nothing, db'[m] = db[m] PROVE Said(m, db[m])'
    <3>1. PICK v \in {0, 1, 2} : v = db[m] /\ Said(m, v)
      BY <2>1 DEF Known, Typed, BackendTyped, Versions
    <3> QED BY <1>5, <2>1, <3>1
  <2>2. ASSUME NEW f \in Events, sock # <<>>, f = sock[1], IsEvent(f), db' = [db EXCEPT ![f.m] = f.v]
        PROVE  \A m \in Msgs : db'[m] # Nothing => Said(m, db[m])'
    <3>1. f.m \in Msgs /\ f.v \in {0, 1, 2} /\ 1 \in 1 .. Len(sock)
      BY <2>2, TailFrame DEF Events, Typed, PipeTyped
    <3>2. Said(f.m, f.v)'
      BY <1>5, <2>2, <3>1 DEF Known
    <3>3. \A m \in Msgs : db'[m] = IF m = f.m THEN f.v ELSE db[m]
      BY <2>2, <3>1 DEF Typed, BackendTyped, Versions
    <3> QED BY <2>1, <3>2, <3>3
  <2> QED BY <2>1, <2>2, StoreSteps
<1>12. \A m \in cards' : m \in Msgs /\ db[m] # Nothing
  <2>1. CASE Configure
    <3>1. \A m \in cards' : \E d \in DOMAIN dlv : dlv[d].m = m
      BY <2>1 DEF Configure
    <3>2. \A d \in DOMAIN dlv : db[dlv[d].m] # Nothing
      BY DEF Handed
    <3>3. cards' \subseteq Msgs
      BY <2>1, Numbers DEF Configure
    <3> QED BY <3>1, <3>2, <3>3
  <2>2. CASE ~Configure
    <3>1. cards' \subseteq cards
      BY <2>2, Steps DEF Post, Edit, Emit, Cut, Resume, Ready, OnReady, PublishBarrier, Connect,
         Status, RecoveryStart, RecoveryFetch, RecoveryAppend, RecoveryRead, RecoveryOverflow,
         RecoveryDone, RecoveryFail, FailedAfter, RecoveryOutdated, RecoveryRetry, Deliver,
         Acked, Pop, Undelivered, Late, Resend, Serve, SkipWithGap, CollectorCrash, DispatchCheck,
         DispatchPick, Handle, EndOfStream, Disconnect
    <3>2. cards \subseteq Msgs /\ \A m \in cards : db[m] # Nothing
      BY DEF Known, Typed, ClientTyped
    <3> QED BY <3>1, <3>2
  <2> QED BY <2>1, <2>2
<1>13. \A m \in Msgs : db[m] # Nothing => db'[m] # Nothing
  BY StoreGrows
<1>14. /\ \A m \in cards \cup rc.todo : m \in Msgs /\ db[m] # Nothing
       /\ \A i \in 1 .. Len(rc.h) : rc.h[i].m \in Msgs
  BY FirstsFacts, Lens DEF Known, Typed, ClientTyped, Tasks, Events
<1>15. \A m \in rc'.todo : m \in Msgs /\ db[m] # Nothing
  BY <1>14, CardFacts, ReadSteps
<1>16. rc'.pc = "card" => \A i \in 1 .. Len(rc'.h) : rc'.h[i].m \in Msgs /\ db[rc'.h[i].m] # Nothing
  <2>1. CASE RecoveryRead
    <3>1. \A i \in 1 .. Len(rc'.h) : rc'.h[i] \in Events
      BY <2>1, CardFacts, FirstsFacts
    <3> QED BY <2>1, <3>1, CardFacts DEF Events
  <2>2. CASE rc'.h = rc.h /\ rc'.pc = rc.pc
    BY <1>14, <2>2 DEF Known
  <2>3. CASE rc'.h = <<>>
    BY <2>3
  <2> QED BY <2>1, <2>2, <2>3, ReadSteps
<1>17. (\A m \in cards \cup rc.todo : db[m] # Nothing)'
  BY <1>12, <1>13, <1>15
<1>18. (rc.pc = "card" => \A i \in 1 .. Len(rc.h) : db[rc.h[i].m] # Nothing)'
  BY <1>13, <1>16
<1> QED BY <1>1, <1>2, <1>3, <1>4, <1>9, <1>10, <1>11, <1>17, <1>18 DEF Known

-----------------------------------------------------------------------------
(* The head of the outbox stays until it is popped.                        *)
LEMMA HeadKept ==
    ASSUME Typed, Known, Heading, Next, ~Pop, ~SkipWithGap, q # <<>>
    PROVE  q' # <<>> /\ q'[1] = q[1]
<1>1. CASE q' = q
  BY <1>1
<1>2. ASSUME NEW t \in Seq(Events), q' = q \o t PROVE q' # <<>> /\ q'[1] = q[1]
  BY <1>2, Behind
<1> QED BY <1>1, <1>2, QueueSteps

(* A message hydrated stays hydrated.                                      *)
LEMMA CacheKept ==
    ASSUME Typed, Known, Next
    PROVE  \A m \in Msgs : cache[m] # Nothing => cache'[m] # Nothing
<1> USE DEF disc, wire, box, chan, client, pipe, go, RecoveryRest, DeliverRest, ServeRest,
            DispatchRest
<1>1. CASE Deliver
  <2>1. q # <<>>
    BY <1>1 DEF Deliver
  <2>2. PICK m \in Msgs, v \in {0, 1, 2} : m = e0.m /\ v = Hydrated(cache[m], e0)
    BY <2>1, HeadFacts, HydratedFacts
  <2>3. cache' = [cache EXCEPT ![m] = v]
    BY <1>1, <2>2 DEF Deliver
  <2>4. \A a \in Msgs : cache'[a] = cache[a] \/ cache'[a] = v
    BY <2>3 DEF Typed, BoxTyped, Versions
  <2> QED BY <2>2, <2>4 DEF Nothing
<1>2. CASE ~Deliver
  <2>1. cache' = cache
    BY <1>2, Steps DEF Post, Edit, Emit, Cut, Resume, Ready, OnReady, PublishBarrier, Connect,
     Configure, Schedule, Status, RecoveryStart, RecoveryFetch, RecoveryAppend, RecoveryRead,
       RecoveryOverflow,
     RecoveryDone, RecoveryFail, FailedAfter, RecoveryOutdated, RecoveryRetry,
     Acked, Pop, Undelivered, Late, Resend, Serve, SkipWithGap, CollectorCrash, DispatchCheck,
     DispatchPick, Handle, EndOfStream, Disconnect
  <2> QED BY <2>1
<1> QED BY <1>1, <1>2

(* Reading an event of the head stores its message.                        *)
LEMMA ServedEvent ==
    ASSUME Typed, Heading, Serve, NEW f \in Frames, f = sock[1], IsEvent(f),
           f.k # "channel", f.k # "old", seen' = TRUE
    PROVE  q # <<>> /\ f.m = q[1].m /\ (~seen => Ingest(f.k, f.m, f.v)) /\ q[1].m \in Stored'
<1>1. sock # <<>> /\ Head(sock) = f /\ 1 \in 1 .. Len(sock)
  BY TailFrame DEF Serve, Typed, PipeTyped
<1>2. q # <<>> /\ f.m = q[1].m
  BY <1>1 DEF Heading
<1>3. f.m \in Msgs /\ f.v \in {0, 1, 2}
  BY FrameFacts DEF Events
<1>4. \/ seen /\ db' = db
      \/ ~seen /\ Ingest(f.k, f.m, f.v)
  BY <1>1 DEF Serve, Typed, PipeTyped
<1>5. q[1].m \in Stored'
  <2>1. CASE seen
    BY <1>4, <2>1 DEF Heading, Stored
  <2>2. CASE ~seen
    <3>1. db' \in Versions /\ db'[f.m] # Nothing
      <4>1. db[f.m] \in {Nothing, 0, 1, 2} /\ db \in Versions
        BY <1>3 DEF Typed, BackendTyped, Versions
      <4> QED BY <1>3, <1>4, <2>2, <4>1 DEF Ingest, Versions, Nothing
    <3> QED BY <1>2, <1>3, <3>1 DEF Stored, Nothing
  <2> QED BY <2>1, <2>2
<1> QED BY <1>2, <1>4, <1>5

(* Every step keeps what is known of the head of the outbox.               *)
LEMMA HeadingStep == ASSUME Typed, Known, Heading, Next PROVE Heading'
<1> USE DEF disc, wire, box, chan, client, pipe, go, RecoveryRest, DeliverRest, ServeRest,
            DispatchRest
<1>1. ASSUME q # <<>>, q[1].m \in Stored, ~Pop, ~SkipWithGap
      PROVE  q' # <<>> /\ q'[1] = q[1] /\ q'[1].m \in Stored'
  BY <1>1, HeadKept, StoreGrows
<1>2. \A i \in 1 .. Len(sock') : IsEvent(sock'[i]) =>
         q' # <<>> /\ sock'[i].m = q'[1].m /\ cache'[q'[1].m] # Nothing
  <2>1. ASSUME NEW i \in 1 .. Len(sock'), IsEvent(sock'[i])
        PROVE  q' # <<>> /\ sock'[i].m = q'[1].m /\ cache'[q'[1].m] # Nothing
    <3>1. ~Pop
      BY <2>1, SockSteps
    <3>2. CASE \E j \in 1 .. Len(sock) : sock'[i] = sock[j]
      <4>1. q # <<>> /\ sock'[i].m = q[1].m /\ cache[q[1].m] # Nothing
        BY <2>1, <3>2 DEF Heading
      <4>2. ~SkipWithGap /\ q[1].m \in Msgs
        BY <4>1, HeadFacts DEF SkipWithGap, NeedsRead
      <4>3. q' # <<>> /\ q'[1] = q[1] /\ cache'[q[1].m] # Nothing
        BY <3>1, <4>1, <4>2, HeadKept, CacheKept
      <4> QED BY <4>1, <4>3
    <3>3. CASE Deliver /\ q # <<>> /\ sock'[i].m = q[1].m /\ cache'[q[1].m] # Nothing
      <4>1. q' = q
        BY <3>3 DEF Deliver
      <4> QED BY <3>3, <4>1
    <3> QED BY <2>1, <3>2, <3>3, SockSteps
  <2> QED BY <2>1
<1>3. link' = "down" => sock' = <<>>
  <2>1. CASE Disconnect \/ EndOfStream
    BY <2>1 DEF Disconnect, EndOfStream
  <2>2. CASE CollectorCrash
    BY <2>2 DEF CollectorCrash, Heading
  <2>3. CASE Connect \/ Configure
    BY <2>3 DEF Connect, Configure
  <2>4. CASE OnReady \/ PublishBarrier \/ RecoveryStart \/ RecoveryOverflow \/ RecoveryDone
             \/ RecoveryFail \/ SkipWithGap \/ Deliver \/ Serve
    <3>1. link' = link /\ (link = "down" => sock' = sock)
      BY <2>4 DEF OnReady, PublishBarrier, RecoveryStart, RecoveryOverflow, RecoveryDone,
         RecoveryFail, FailedAfter, ChannelStatus, Connected, SkipWithGap, Deliver, Serve
    <3> QED BY <3>1 DEF Heading
  <2>5. CASE Pop
    <3>1. link' = link /\ sock' = [i \in DOMAIN sock |-> IF sock[i].k = "channel" THEN sock[i] ELSE Old]
      BY <2>5 DEF Pop
    <3>2. sock = <<>> => sock' = <<>>
      BY <3>1
    <3> QED BY <3>1, <3>2 DEF Heading
  <2>6. CASE ~(Disconnect \/ EndOfStream \/ CollectorCrash \/ Connect \/ Configure \/ OnReady
               \/ PublishBarrier \/ RecoveryStart \/ RecoveryOverflow \/ RecoveryDone
               \/ RecoveryFail \/ SkipWithGap \/ Deliver \/ Serve \/ Pop)
    <3>1. UNCHANGED <<link, sock>>
      BY <2>6, Steps DEF Post, Edit, Emit, Ready, Resume, Status, RecoveryFetch,
         RecoveryAppend, RecoveryRead, RecoveryOutdated, RecoveryRetry, Acked, Undelivered, Late,
         Resend, DispatchCheck, DispatchPick, Handle, Cut
    <3> QED BY <3>1 DEF Heading
  <2> QED BY <2>1, <2>2, <2>3, <2>4, <2>5, <2>6
<1>4. /\ dl' # "idle" => q' # <<>>
      /\ seen' => q' # <<>> /\ q'[1].m \in Stored'
      /\ ack' = "ok" => dl' # "idle"
      /\ dl' = "acked" \/ ack' = "ok" => q'[1].m \in Stored'
      /\ ckpt' = 0 \/ ckpt' \in Stored'
  <2>1. Stored \subseteq Stored'
    BY StoreGrows
  <2>2. CASE Pop \/ SkipWithGap
    <3>1. dl' = "idle" /\ seen' = FALSE /\ ack' = "none" /\ ckpt' = ckpt
      BY <2>2 DEF Pop, SkipWithGap, PopHead
    <3> QED BY <2>1, <3>1 DEF Heading
  <2>3. CASE Deliver
    <3>1. dl' = "wait" /\ ack' = "none" /\ UNCHANGED <<seen, ckpt, q, db>> /\ q # <<>>
      BY <2>3 DEF Deliver
    <3> QED BY <2>1, <3>1 DEF Heading, Stored
  <2>4. CASE Acked
    <3>1. dl = "wait" /\ ack = "ok" /\ dl' = "acked" /\ UNCHANGED <<seen, q, db, ack>>
          /\ (ckpt' = ckpt \/ ckpt' = Larger(ckpt, e0.m))
      BY <2>4 DEF Acked
    <3>2. q # <<>> /\ q[1].m \in Stored /\ e0 = q[1]
      BY <3>1, HeadFacts DEF Heading
    <3>3. ckpt' = ckpt \/ ckpt' \in Stored
      BY <3>1, <3>2 DEF Larger
    <3> QED BY <2>1, <3>1, <3>2, <3>3 DEF Heading, Stored
  <2>5. CASE Undelivered \/ Late \/ CollectorCrash
    <3>1. dl' = "idle" /\ ack' = "none" /\ UNCHANGED <<seen, ckpt, q, db>>
      BY <2>5 DEF Undelivered, Late, Resend, CollectorCrash
    <3> QED BY <2>1, <3>1 DEF Heading, Stored
  <2>6. CASE Serve
    <3>1. sock # <<>> /\ UNCHANGED <<q, dl, ckpt>>
      BY <2>6 DEF Serve
    <3>2. PICK f \in Frames : f = Head(sock) /\ f = sock[1]
      BY <3>1, TailFrame DEF Typed, PipeTyped
    <3>3. \/ seen' = seen /\ ack' \in {ack, "err"}
          \/ IsEvent(f) /\ f.k # "channel" /\ f.k # "old" /\ seen' = TRUE /\ ack' = IF dl = "wait" THEN "ok" ELSE ack
      BY <2>6, <3>2 DEF Serve, IsEvent
    <3>4. CASE seen' = seen /\ ack' \in {ack, "err"}
      BY <2>1, <3>1, <3>4 DEF Heading
    <3>5. CASE IsEvent(f) /\ f.k # "channel" /\ f.k # "old" /\ seen' = TRUE /\ ack' = IF dl = "wait" THEN "ok" ELSE ack
      <4>1. q # <<>> /\ q[1].m \in Stored'
        BY <2>6, <3>2, <3>5, ServedEvent
      <4> QED BY <2>1, <3>1, <3>5, <4>1 DEF Heading
    <3> QED BY <3>3, <3>4, <3>5
  <2>7. CASE ~(Pop \/ SkipWithGap \/ Deliver \/ Acked \/ Undelivered \/ Late \/ CollectorCrash \/ Serve)
    <3>1. UNCHANGED <<dl, seen, ckpt>> /\ ack' \in {ack, "none"}
      BY <2>7, Steps DEF Post, Edit, Emit, Cut, Resume, Ready, OnReady, PublishBarrier, Connect,
       Configure, Schedule, Status, RecoveryStart, RecoveryFetch, RecoveryAppend, RecoveryRead,
       RecoveryOverflow,
       RecoveryDone, RecoveryFail, FailedAfter, RecoveryOutdated, RecoveryRetry, DispatchCheck,
       DispatchPick, Handle, EndOfStream, Disconnect
    <3>2. q # <<>> => q' # <<>> /\ q'[1] = q[1]
      BY <2>7, HeadKept
    <3> QED BY <2>1, <3>1, <3>2 DEF Heading
  <2> QED BY <2>2, <2>3, <2>4, <2>5, <2>6, <2>7
<1> QED BY <1>2, <1>3, <1>4 DEF Heading

-----------------------------------------------------------------------------
(* Stamps.                                                                 *)

(* What comes after the head of the outbox is not in transit.              *)
LEMMA InTransitHead ==
    ASSUME Typed, Known, Heading, Next, NEW j \in 1 .. Len(sock), IsEvent(sock[j]), ~Pop
    PROVE  /\ q # <<>> /\ sock[j].m = q[1].m /\ q[1].m \in Msgs
           /\ q' # <<>> /\ q'[1] = q[1] /\ sock[j].v \in {0, 1, 2}
<1>1. q # <<>> /\ sock[j].m = q[1].m /\ cache[q[1].m] # Nothing
  BY DEF Heading
<1>2. e0 = q[1] /\ q[1].m \in Msgs
  BY <1>1, HeadFacts
<1>3. ~SkipWithGap
  BY <1>1, <1>2 DEF SkipWithGap, NeedsRead
<1>4. sock[j] \in Frames
  BY ElementOfSeq DEF Typed, PipeTyped
<1>5. sock[j].v \in {0, 1, 2}
  BY <1>4, FrameFacts DEF Events
<1> QED BY <1>1, <1>2, <1>3, <1>5, HeadKept

(* Every step keeps the stamps.                                            *)
LEMMA StampedStep == ASSUME Typed, Known, Stamped, Heading, Next PROVE Stamped'
<1> USE DEF disc, wire, box, chan, client, pipe, go, RecoveryRest, DeliverRest, ServeRest,
            DispatchRest
<1>1. \/ cache' = cache
      \/ /\ Deliver /\ q # <<>> /\ q' = q
         /\ \A m \in Msgs : cache'[m] = IF m = q[1].m THEN Hydrated(cache[m], q[1]) ELSE cache[m]
  <2>1. CASE Deliver
    <3>1. q # <<>> /\ q' = q /\ cache' = [cache EXCEPT ![e0.m] = Hydrated(cache[e0.m], e0)]
      BY <2>1 DEF Deliver
    <3>2. e0 = q[1]
      BY <3>1, HeadFacts
    <3> QED BY <2>1, <3>1, <3>2 DEF Typed, BoxTyped, Versions
  <2>2. CASE ~Deliver
    <3>1. cache' = cache
      BY <2>2, Steps DEF Post, Edit, Emit, Cut, Resume, Ready, OnReady, PublishBarrier, Connect,
         Configure, Schedule, Status, RecoveryStart, RecoveryFetch, RecoveryAppend, RecoveryRead,
         RecoveryOverflow, RecoveryDone, RecoveryFail, FailedAfter, RecoveryOutdated,
         RecoveryRetry, Acked, Pop, Undelivered, Late, Resend, Serve, SkipWithGap,
         CollectorCrash, DispatchCheck, DispatchPick, Handle, EndOfStream, Disconnect
    <3> QED BY <3>1
  <2> QED BY <2>1, <2>2
<1>2. q # <<>> => /\ e0 = q[1] /\ q[1].m \in Msgs
                  /\ cache[q[1].m] > 0 => Hydrated(cache[q[1].m], q[1]) > 0
                  /\ ~(cache[q[1].m] > 0) => Hydrated(cache[q[1].m], q[1]) = q[1].v
  BY HeadFacts, HydratedFacts
<1>3. \A m \in Msgs : cache[m] > 0 => cache'[m] > 0
  BY <1>1, <1>2
<1>4. ASSUME NEW m \in Msgs, db'[m] > 0 PROVE cache'[m] > 0
  <2>1. CASE db'[m] = db[m]
    BY <1>3, <1>4, <2>1 DEF Stamped
  <2>2. ASSUME NEW f \in Events, sock # <<>>, f = sock[1], IsEvent(f),
               db' = [db EXCEPT ![f.m] = f.v], m = f.m
        PROVE  cache'[m] > 0
    <3>1. 1 \in 1 .. Len(sock) /\ db'[m] = f.v
      BY <2>2, TailFrame DEF Typed, PipeTyped, BackendTyped, Versions
    <3>2. cache[m] > 0
      BY <1>4, <2>2, <3>1 DEF Stamped
    <3> QED BY <1>3, <3>2
  <2>3. ASSUME NEW f \in Events, db' = [db EXCEPT ![f.m] = f.v], m # f.m PROVE db'[m] = db[m]
    BY <2>3 DEF Typed, BackendTyped, Versions
  <2> QED BY <2>1, <2>2, <2>3, StoreSteps
<1>5. ASSUME NEW i \in 1 .. Len(sock'), IsEvent(sock'[i])
      PROVE  /\ sock'[i].v > 0 <=> cache'[sock'[i].m] > 0
             /\ sock'[i].v = 0 => q'[1].v = 0
  <2>1. ASSUME NEW j \in 1 .. Len(sock), sock'[i] = sock[j]
        PROVE  /\ sock'[i].v > 0 <=> cache'[sock'[i].m] > 0
               /\ sock'[i].v = 0 => q'[1].v = 0
    <3>1. PICK m \in Msgs, v \in {0, 1, 2} :
             /\ m = sock[j].m /\ v = sock[j].v /\ m = q[1].m
             /\ q # <<>> /\ q'[1] = q[1]
      BY <1>5, <2>1, SockSteps, InTransitHead
    <3>2. (v > 0 <=> cache[m] > 0) /\ (v = 0 => q[1].v = 0)
      BY <1>5, <2>1, <3>1 DEF Stamped
    <3>3. CASE v > 0
      BY <1>3, <2>1, <3>1, <3>2, <3>3
    <3>4. CASE v = 0
      <4>1. q[1].v = 0 /\ ~(cache[m] > 0)
        BY <3>2, <3>4
      <4>2. ~(cache'[m] > 0)
        BY <1>1, <1>2, <3>1, <4>1
      <4> QED BY <2>1, <3>1, <3>4, <4>1, <4>2
    <3> QED BY <3>3, <3>4
  <2>2. ASSUME Deliver, q # <<>>, sock'[i].m = q[1].m, sock'[i].v = cache'[q[1].m],
               sock'[i].v \in {0, 1, 2}
        PROVE  /\ sock'[i].v > 0 <=> cache'[sock'[i].m] > 0
               /\ sock'[i].v = 0 => q'[1].v = 0
    <3>1. q' = q
      BY <2>2 DEF Deliver
    <3>2. cache' = [cache EXCEPT ![q[1].m] = Hydrated(cache[q[1].m], q[1])]
      BY <1>2, <2>2 DEF Deliver
    <3>3. cache'[q[1].m] = Hydrated(cache[q[1].m], q[1])
      BY <1>2, <2>2, <3>2 DEF Typed, BoxTyped, Versions
    <3> QED BY <1>2, <2>2, <3>1, <3>3
  <2> QED BY <1>5, <2>1, <2>2, SockSteps
<1> QED BY <1>4, <1>5 DEF Stamped

-----------------------------------------------------------------------------
(* The trader's deliveries.                                                *)

(* A new one is of a revision that is stamped if the stored one was.       *)
LEMMA DeliverySteps ==
    ASSUME Typed, Stamped, Next
    PROVE  \/ UNCHANGED <<dlv, dp>>
           \/ /\ UNCHANGED dp
              /\ \E r \in Revisions : /\ r.status = "pending" /\ dlv' = Append(dlv, r)
                                      /\ db' = [db EXCEPT ![r.m] = r.v]
                                      /\ db[r.m] > 0 => r.v > 0
           \/ dp.pc = "idle" /\ dlv' = dlv /\ dp' = [dp EXCEPT !.pc = "pick"]
           \/ /\ dp.pc = "pick"
              /\ \E d \in DOMAIN dlv :
                    /\ dlv[d].status = "pending"
                    /\ \A o \in DOMAIN dlv : dlv[o].status = "pending" => Before(d, o)
                    /\ dlv' = [dlv EXCEPT ![d].status = "processing"]
                    /\ dp' = [pc |-> "handle", d |-> d]
           \/ /\ dp.pc = "handle" /\ dp' = NoDelivery
              /\ \/ dlv' = [dlv EXCEPT ![dp.d].status = "done"]
                 \/ dlv' = [dlv EXCEPT ![dp.d].status = "pending"]
           \/ /\ dp' = NoDelivery
              /\ dlv' = [d \in DOMAIN dlv |->
                            IF dlv[d].status = "processing"
                            THEN [dlv[d] EXCEPT !.status = "pending"] ELSE dlv[d]]
<1> USE DEF disc, wire, box, chan, client, pipe, go, RecoveryRest, DeliverRest, ServeRest,
            DispatchRest
<1>1. CASE Serve
  <2>1. sock # <<>> /\ dp' = dp
    BY <1>1 DEF Serve
  <2>2. PICK f \in Frames : f = Head(sock) /\ f = sock[1] /\ 1 \in 1 .. Len(sock)
    BY <2>1, TailFrame DEF Typed, PipeTyped
  <2>3. dlv' = dlv \/ (IsEvent(f) /\ Ingest(f.k, f.m, f.v))
    BY <1>1, <2>2 DEF Serve
  <2>4. CASE IsEvent(f) /\ Ingest(f.k, f.m, f.v)
    <3>1. f.m \in Msgs /\ f.v \in {0, 1, 2}
      BY <2>4, FrameFacts DEF Events
    <3>2. PICK r \in Revisions : r = [m |-> f.m, v |-> f.v, status |-> "pending"]
      BY <3>1 DEF Revisions
    <3>3. db[f.m] > 0 => f.v > 0
      BY <2>2, <2>4, <3>1 DEF Stamped
    <3>4. r.m = f.m /\ r.v = f.v /\ r.status = "pending"
      BY <3>2
    <3>5. \/ dlv' = dlv
          \/ dlv' = Append(dlv, r) /\ db' = [db EXCEPT ![r.m] = r.v]
      BY <2>4, <3>2 DEF Ingest
    <3> QED BY <2>1, <3>3, <3>4, <3>5
  <2> QED BY <2>1, <2>3, <2>4
<1>2. CASE DispatchCheck
  BY <1>2 DEF DispatchCheck
<1>3. CASE DispatchPick
  <2>1. PICK d \in Pending : /\ \A o \in Pending : Before(d, o)
                             /\ dlv' = [dlv EXCEPT ![d].status = "processing"]
                             /\ dp' = [pc |-> "handle", d |-> d]
    BY <1>3 DEF DispatchPick
  <2>2. d \in DOMAIN dlv /\ dlv[d].status = "pending" /\ dp.pc = "pick"
    BY <1>3 DEF DispatchPick, Pending
  <2>3. \A o \in DOMAIN dlv : dlv[o].status = "pending" => Before(d, o)
    BY <2>1 DEF Pending
  <2> QED BY <2>1, <2>2, <2>3
<1>4. CASE Handle
  BY <1>4 DEF Handle
<1>5. CASE Disconnect
  BY <1>5 DEF Disconnect
<1>6. CASE ~(Serve \/ DispatchCheck \/ DispatchPick \/ Handle \/ Disconnect)
  <2>1. UNCHANGED <<dlv, dp>>
    BY <1>6, Steps DEF Post, Edit, Emit, Cut, Resume, Ready, OnReady, PublishBarrier, Connect,
       Configure, Status, RecoveryStart, RecoveryFetch, RecoveryAppend, RecoveryRead,
       RecoveryOverflow, RecoveryDone, RecoveryFail, FailedAfter, RecoveryOutdated, RecoveryRetry,
       Deliver, Acked, Pop, Undelivered, Late, Resend, SkipWithGap, CollectorCrash, EndOfStream
  <2> QED BY <2>1
<1> QED BY <1>1, <1>2, <1>3, <1>4, <1>5, <1>6

(* What the trader's table holds.                                          *)
LEMMA DeliveryFacts ==
    ASSUME Typed
    PROVE  /\ dlv \in Seq(Revisions) /\ Len(dlv) \in Nat /\ DOMAIN dlv = 1 .. Len(dlv)
           /\ \A d \in DOMAIN dlv : /\ dlv[d] \in Revisions /\ dlv[d].m \in Msgs
                                    /\ dlv[d].v \in {0, 1, 2} /\ d \in Nat
                                    /\ dlv[d].status \in {"pending", "processing", "done"}
<1>1. dlv \in Seq(Revisions)
  BY DEF Typed, BackendTyped
<1>2. Len(dlv) \in Nat /\ DOMAIN dlv = 1 .. Len(dlv) /\ \A d \in DOMAIN dlv : dlv[d] \in Revisions
  BY <1>1, LenProperties, ElementOfSeq
<1> QED BY <1>1, <1>2 DEF Revisions

(* By source time, and by id, no revision is taken while one of the same   *)
(* message that precedes it is pending.                                    *)
LEMMA EarlierFirst ==
    ASSUME Typed, Known, Handed, NEW d \in DOMAIN dlv, NEW o \in DOMAIN dlv, Follows(o, d),
           Before(d, o)
    PROVE  FALSE
<1>1. /\ d \in Nat /\ o \in Nat /\ o < d /\ dlv[o].m = dlv[d].m /\ dlv[d].m \in Msgs
      /\ dlv[d].v \in {0, 1, 2} /\ dlv[o].v \in {0, 1, 2}
  BY DeliveryFacts DEF Follows
<1>2. Time(d) < Time(o)
  BY <1>1 DEF Before
<1>3. dlv[o].v > 0 => dlv[d].v > 0
  BY DEF Handed
<1>4. dlv[d].v > 0 => edited >= dlv[d].m
  <2>1. ASSUME dlv[d].v > 0 PROVE edited >= dlv[d].m
    <3>1. db[dlv[d].m] > 0 /\ db[dlv[d].m] # Nothing
      BY <2>1 DEF Handed, Nothing
    <3>2. Said(dlv[d].m, db[dlv[d].m])
      BY <1>1, <3>1 DEF Known
    <3> QED BY <3>1, <3>2 DEF Said
  <2> QED BY <2>1
<1> QED BY <1>1, <1>2, <1>3, <1>4, Numbers DEF Time

(* The stamp of a stored message stays.                                    *)
LEMMA StampStays ==
    ASSUME Typed, Stamped, Next
    PROVE  \A m \in Msgs : db[m] > 0 => db'[m] > 0
<1>1. ASSUME NEW f \in Events, sock # <<>>, f = sock[1], IsEvent(f),
             db' = [db EXCEPT ![f.m] = f.v]
      PROVE  \A m \in Msgs : db[m] > 0 => db'[m] > 0
  <2>1. 1 \in 1 .. Len(sock) /\ f.m \in Msgs
    BY <1>1, TailFrame DEF Typed, PipeTyped, Events
  <2>2. db[f.m] > 0 => f.v > 0
    BY <1>1, <2>1 DEF Stamped
  <2>3. \A m \in Msgs : db'[m] = IF m = f.m THEN f.v ELSE db[m]
    BY <1>1, <2>1 DEF Typed, BackendTyped, Versions
  <2> QED BY <2>2, <2>3
<1> QED BY <1>1, StoreSteps

(* Every step keeps what is known of the deliveries, and none hands a      *)
(* revision over after a later one of the same message was handled.        *)
LEMMA HandedStep == ASSUME Typed, Known, Stamped, Handed, Next PROVE Handed' /\ NotHandedBack
<1>1. /\ dlv \in Seq(Revisions) /\ Len(dlv) \in Nat /\ DOMAIN dlv = 1 .. Len(dlv)
      /\ \A d \in DOMAIN dlv : /\ dlv[d] \in Revisions /\ dlv[d].m \in Msgs
                               /\ dlv[d].v \in {0, 1, 2} /\ d \in Nat
                               /\ dlv[d].status \in {"pending", "processing", "done"}
      /\ dp \in Jobs
  BY DeliveryFacts DEF Typed, BackendTyped
<1>2. \A m \in Msgs : /\ db[m] \in {Nothing, 0, 1, 2} /\ db'[m] \in {Nothing, 0, 1, 2}
                      /\ db[m] # Nothing => db'[m] # Nothing
  BY StoreGrows
<1>3. /\ \A d \in DOMAIN dlv : db[dlv[d].m] # Nothing /\ (dlv[d].v > 0 => db[dlv[d].m] > 0)
      /\ dp.pc = "handle" => dp.d \in DOMAIN dlv
      /\ \A d \in DOMAIN dlv : dlv[d].status = "processing" <=> dp.pc = "handle" /\ dp.d = d
      /\ \A d, o \in DOMAIN dlv : Follows(d, o) => /\ dlv[d].v > 0 => dlv[o].v > 0
                                                   /\ Begun(o) => dlv[d].status = "done"
  BY DEF Handed
<1>4. ASSUME NEW d \in DOMAIN dlv
      PROVE  db'[dlv[d].m] # Nothing /\ (dlv[d].v > 0 => db'[dlv[d].m] > 0)
  BY <1>1, <1>2, <1>3, StampStays
<1>5. ASSUME DOMAIN dlv' = DOMAIN dlv,
             \A d \in DOMAIN dlv : dlv'[d].m = dlv[d].m /\ dlv'[d].v = dlv[d].v,
             dp'.pc = "handle" => dp'.d \in DOMAIN dlv,
             \A d \in DOMAIN dlv : dlv'[d].status = "processing" <=> dp'.pc = "handle" /\ dp'.d = d,
             \A d, o \in DOMAIN dlv : Follows(d, o) /\ dlv'[o].status \in {"processing", "done"}
                                         => dlv'[d].status = "done",
             \A d \in DOMAIN dlv : dlv[d].status = "done" => dlv'[d] = dlv[d]
      PROVE  Handed' /\ NotHandedBack
  <2>1. \A d, o \in DOMAIN dlv : Follows(d, o)' <=> Follows(d, o)
    BY <1>5 DEF Follows
  <2>2. Handed'
    BY <1>3, <1>4, <1>5, <2>1 DEF Handed, Begun
  <2>3. NotHandedBack
    BY <1>3, <1>5 DEF NotHandedBack, Follows, Begun
  <2> QED BY <2>2, <2>3
<1>6. CASE UNCHANGED <<dlv, dp>> \/ (dp.pc = "idle" /\ dlv' = dlv /\ dp' = [dp EXCEPT !.pc = "pick"])
  <2>1. dlv' = dlv /\ (dp' = dp \/ (dp.pc = "idle" /\ dp'.pc = "pick"))
    BY <1>1, <1>6 DEF Jobs
  <2>2. \A d \in DOMAIN dlv : dlv'[d].status = "processing" <=> dp'.pc = "handle" /\ dp'.d = d
    BY <1>3, <2>1
  <2> QED BY <1>3, <1>5, <2>1, <2>2 DEF Begun
<1>7. ASSUME NEW r \in Revisions, r.status = "pending", dlv' = Append(dlv, r), dp' = dp,
             db' = [db EXCEPT ![r.m] = r.v], db[r.m] > 0 => r.v > 0
      PROVE  Handed' /\ NotHandedBack
  <2> DEFINE n == Len(dlv) + 1
  <2>1. /\ DOMAIN dlv' = 1 .. n /\ dlv'[n] = r /\ \A d \in DOMAIN dlv : dlv'[d] = dlv[d]
    BY <1>1, <1>7, AppendProperties
  <2>2. \A d \in DOMAIN dlv' : (d \in DOMAIN dlv /\ d < n) \/ d = n
    BY <1>1, <2>1
  <2>3. r.m \in Msgs /\ r.v \in {0, 1, 2} /\ db'[r.m] = r.v
    BY <1>7 DEF Revisions, Typed, BackendTyped, Versions
  <2> HIDE DEF n
  <2>4. \A d \in DOMAIN dlv' : /\ db'[dlv'[d].m] # Nothing
                               /\ dlv'[d].v > 0 => db'[dlv'[d].m] > 0
    BY <1>4, <2>1, <2>2, <2>3 DEF Nothing
  <2>5. \A d \in DOMAIN dlv : d # n
    BY <1>1 DEF n
  <2>6. /\ dp'.pc = "handle" => dp'.d \in DOMAIN dlv'
        /\ \A d \in DOMAIN dlv' : dlv'[d].status = "processing" <=> dp'.pc = "handle" /\ dp'.d = d
    <3>1. n \in DOMAIN dlv' /\ \A d \in DOMAIN dlv : d \in DOMAIN dlv'
      BY <1>1, <2>1 DEF n
    <3> QED BY <1>3, <1>7, <2>1, <2>2, <2>5, <3>1
  <2>7. ASSUME NEW d \in DOMAIN dlv', NEW o \in DOMAIN dlv', d < o, dlv'[d].m = dlv'[o].m
        PROVE  /\ dlv'[d].v > 0 => dlv'[o].v > 0
               /\ dlv'[o].status \in {"processing", "done"} => dlv'[d].status = "done"
    <3>1. d \in DOMAIN dlv /\ dlv'[d] = dlv[d]
      <4>1. d # n
        BY <1>1, <2>2, <2>7 DEF n
      <4> QED BY <2>1, <2>2, <4>1
    <3>2. CASE o = n
      <4>1. dlv'[d].v > 0 => db[r.m] > 0
        BY <1>3, <2>1, <2>7, <3>1, <3>2
      <4> QED BY <1>7, <2>1, <3>2, <4>1
    <3>3. CASE o \in DOMAIN dlv
      <4>1. dlv'[o] = dlv[o] /\ Follows(d, o)
        BY <2>1, <2>7, <3>1, <3>3 DEF Follows
      <4> QED BY <1>3, <3>1, <3>3, <4>1 DEF Begun
    <3> QED BY <2>2, <3>2, <3>3
  <2>8. Handed'
    BY <2>4, <2>6, <2>7 DEF Handed, Follows, Begun
  <2>9. NotHandedBack
    BY <1>3, <2>1 DEF NotHandedBack, Follows, Begun
  <2> QED BY <2>8, <2>9
<1>8. ASSUME dp.pc = "pick", NEW d \in DOMAIN dlv, dlv[d].status = "pending",
             \A o \in DOMAIN dlv : dlv[o].status = "pending" => Before(d, o),
             dlv' = [dlv EXCEPT ![d].status = "processing"], dp' = [pc |-> "handle", d |-> d]
      PROVE  Handed' /\ NotHandedBack
  <2>1. /\ DOMAIN dlv' = DOMAIN dlv /\ \A o \in DOMAIN dlv : o # d => dlv'[o] = dlv[o]
        /\ dlv'[d].m = dlv[d].m /\ dlv'[d].v = dlv[d].v /\ dlv'[d].status = "processing"
    BY <1>1, <1>8 DEF Revisions
  <2>2. dp'.pc = "handle" /\ dp'.d = d
    BY <1>8
  <2>3. \A o \in DOMAIN dlv : dlv[o].status # "processing"
    BY <1>3, <1>8
  <2>4. \A o \in DOMAIN dlv : dlv'[o].status = "processing" <=> dp'.pc = "handle" /\ dp'.d = o
    BY <2>1, <2>2, <2>3
  <2>5. ASSUME NEW a \in DOMAIN dlv, NEW o \in DOMAIN dlv, Follows(a, o),
               dlv'[o].status \in {"processing", "done"}
        PROVE  dlv'[a].status = "done"
    <3>1. a # o
      BY <1>1, <2>5 DEF Follows
    <3>2. CASE o = d
      <4>1. dlv[a].status # "pending"
        BY <1>8, <2>5, <3>2, EarlierFirst
      <4>2. dlv[a].status = "done"
        BY <1>1, <2>3, <4>1
      <4> QED BY <2>1, <3>1, <3>2, <4>2
    <3>3. CASE o # d
      <4>1. dlv[a].status = "done"
        BY <1>3, <2>1, <2>5, <3>3 DEF Begun
      <4> QED BY <1>8, <2>1, <4>1
    <3> QED BY <3>2, <3>3
  <2>6. \A o \in DOMAIN dlv : dlv[o].status = "done" => dlv'[o] = dlv[o]
    BY <1>8, <2>1
  <2>7. \A o \in DOMAIN dlv : dlv'[o].m = dlv[o].m /\ dlv'[o].v = dlv[o].v
    BY <2>1
  <2> QED BY <1>5, <2>1, <2>2, <2>4, <2>5, <2>6, <2>7
<1>9. ASSUME dp.pc = "handle", dp' = NoDelivery, NEW c \in {"done", "pending"},
             dlv' = [dlv EXCEPT ![dp.d].status = c]
      PROVE  Handed' /\ NotHandedBack
  <2>0. dp.d \in DOMAIN dlv /\ dp'.pc = "idle"
    BY <1>3, <1>9 DEF NoDelivery
  <2>1. /\ DOMAIN dlv' = DOMAIN dlv /\ \A o \in DOMAIN dlv : o # dp.d => dlv'[o] = dlv[o]
        /\ dlv'[dp.d].m = dlv[dp.d].m /\ dlv'[dp.d].v = dlv[dp.d].v /\ dlv'[dp.d].status = c
    BY <1>1, <1>9, <2>0 DEF Revisions
  <2>2. \A o \in DOMAIN dlv : o = dp.d <=> dlv[o].status = "processing"
    BY <1>3, <1>9
  <2>3. \A o \in DOMAIN dlv : dlv'[o].status # "processing"
    BY <1>9, <2>1, <2>2
  <2>4. \A o \in DOMAIN dlv : dlv[o].status = "done" => dlv'[o] = dlv[o]
    BY <2>1, <2>2
  <2>5. ASSUME NEW a \in DOMAIN dlv, NEW o \in DOMAIN dlv, Follows(a, o),
               dlv'[o].status \in {"processing", "done"}
        PROVE  dlv'[a].status = "done"
    <3>1. Begun(o)
      BY <2>1, <2>2, <2>5 DEF Begun
    <3> QED BY <1>3, <2>4, <2>5, <3>1
  <2>6. \A o \in DOMAIN dlv : dlv'[o].m = dlv[o].m /\ dlv'[o].v = dlv[o].v
    BY <2>1
  <2> QED BY <1>5, <2>0, <2>1, <2>3, <2>4, <2>5, <2>6
<1>10. CASE /\ dp' = NoDelivery
            /\ dlv' = [d \in DOMAIN dlv |->
                          IF dlv[d].status = "processing"
                          THEN [dlv[d] EXCEPT !.status = "pending"] ELSE dlv[d]]
  <2>0. dp'.pc = "idle"
    BY <1>10 DEF NoDelivery
  <2>1. \A o \in DOMAIN dlv : /\ dlv[o].status # "processing" => dlv'[o] = dlv[o]
                              /\ dlv[o].status = "processing" => dlv'[o].status = "pending"
                              /\ dlv'[o].m = dlv[o].m /\ dlv'[o].v = dlv[o].v
    BY <1>1, <1>10 DEF Revisions
  <2>2. DOMAIN dlv' = DOMAIN dlv
    BY <1>10
  <2>3. \A o \in DOMAIN dlv : dlv'[o].status # "processing"
    BY <2>1
  <2>4. ASSUME NEW a \in DOMAIN dlv, NEW o \in DOMAIN dlv, Follows(a, o),
               dlv'[o].status \in {"processing", "done"}
        PROVE  dlv'[a].status = "done"
    <3>1. dlv[a].status = "done"
      BY <1>3, <2>1, <2>4 DEF Begun
    <3> QED BY <2>1, <3>1
  <2>5. \A o \in DOMAIN dlv : dlv[o].status = "done" => dlv'[o] = dlv[o]
    BY <2>1
  <2> QED BY <1>5, <2>0, <2>1, <2>2, <2>3, <2>4, <2>5
<1> QED BY <1>6, <1>7, <1>8, <1>9, <1>10, DeliverySteps

-----------------------------------------------------------------------------
(* The line of events still to be stored is a sequence of events.          *)
LEMMA LineFacts ==
    ASSUME Typed
    PROVE  /\ Waiting \in Seq(Events) /\ Line \in Seq(Events)
           /\ Len(Line) = Len(q) + Len(Waiting) /\ Len(Waiting) \in Nat
           /\ q # <<>> => Line # <<>> /\ Line[1] = q[1] /\ 1 <= Len(Line)
           /\ Names(Line) = Names(q) \cup Names(Waiting)
<1>1. q \in Seq(Events) /\ Waiting \in Seq(Events)
  BY Lens, NoEvent DEF Waiting
<1>2. PICK w \in Seq(Events) : w = Waiting
  BY <1>1
<1>3. /\ q \o w \in Seq(Events) /\ Len(q \o w) = Len(q) + Len(w)
      /\ Names(q \o w) = Names(q) \cup Names(w)
  BY <1>1, FirstsConcat
<1>4. q # <<>> => q \o w # <<>> /\ (q \o w)[1] = q[1]
  BY Behind
<1>5. Len(w) \in Nat /\ Len(q \o w) \in Nat /\ (q \o w # <<>> => 1 <= Len(q \o w))
  BY <1>3, FirstsFacts, LenProperties
<1> QED BY <1>1, <1>2, <1>3, <1>4, <1>5 DEF Line

(* When nothing is missing, neither the stored messages nor those with the *)
(* head of the outbox have a hole.                                         *)
LEMMA GoodDown == ASSUME Typed, Good PROVE Down(Stored) /\ Down(Stored \cup Due)
<1>1. PICK s \in Seq(Events) : s = Line
  BY LineFacts
<1>2. Ordered(Stored, s, 0)
  BY <1>1 DEF Good, Covers
<1>3. Len(s) \in Nat /\ Firsts(s, 0) = {}
  BY FirstsFacts, LenProperties
<1>4. Down(Stored)
  <2>1. Down(Stored \cup Firsts(s, 0))
    BY <1>2, <1>3 DEF Ordered
  <2> QED BY <1>3, <2>1
<1>5. CASE q = <<>>
  BY <1>4, <1>5 DEF Due
<1>6. CASE q # <<>>
  <2>1. s[1] = q[1] /\ 1 <= Len(s)
    BY <1>1, <1>6, LineFacts
  <2>2. Down(Stored \cup Firsts(s, 1))
    BY <1>2, <1>3, <2>1 DEF Ordered
  <2>3. Firsts(s, 1) = {q[1].m}
    BY <2>1 DEF Firsts
  <2> QED BY <1>4, <1>6, <2>2, <2>3 DEF Due
<1> QED BY <1>5, <1>6

(* What is stored was posted.                                              *)
LEMMA StoredSaid ==
    ASSUME Typed, Known
    PROVE  /\ \A m \in Stored : m \in Msgs /\ m <= posted
           /\ \A s \in Seq(Events) : SaidIn(s) => \A m \in Names(s) : m \in Msgs /\ m <= posted
<1>1. \A m \in Stored : m \in Msgs /\ m <= posted
  BY DEF Stored, Known, Said
<1>2. ASSUME NEW s \in Seq(Events), SaidIn(s), NEW m \in Names(s) PROVE m \in Msgs /\ m <= posted
  <2>1. m \in Msgs
    BY FirstsFacts
  <2>2. PICK i \in 1 .. Len(s) : s[i].m = m
    BY DEF Names, Firsts
  <2> QED BY <1>2, <2>1, <2>2 DEF SaidIn, Said
<1> QED BY <1>1, <1>2

-----------------------------------------------------------------------------
(* The recovery row, the channel's state and the recovery task.            *)
LEMMA TaskSteps ==
    ASSUME Typed, Next, Working'
    PROVE  \/ RecoveryStart /\ rc'.pc = "fetch"
           \/ RecoveryFetch /\ Working
           \/ RecoveryAppend /\ Working
           \/ RecoveryRead /\ Working
           \/ Pop /\ Working /\ rc' = [rc EXCEPT !.left = Larger(rc.left - 1, 0)]
           \/ ~Pop /\ ~SkipWithGap /\ ~Ready /\ ~RecoveryOverflow /\ ~RecoveryAppend
              /\ ~RecoveryStart /\ ~RecoveryDone /\ rc' = rc /\ Working
<1> USE DEF disc, wire, box, chan, client, pipe, go, RecoveryRest, DeliverRest, ServeRest,
            DispatchRest
<1>1. /\ rc \in Tasks /\ Outdate(rc) \in Tasks /\ ~Outdate(rc).ok
      /\ NoTask \in Tasks /\ NoTask.pc = "idle"
  BY Task
<1>2. CASE Ready \/ OnReady \/ RecoveryRetry
  <2>1. rc' = Outdate(rc)
    BY <1>2 DEF Ready, OnReady, RecoveryRetry, Schedule
  <2> QED BY <1>1, <2>1 DEF Working
<1>3. CASE RecoveryOverflow \/ RecoveryDone \/ RecoveryFail \/ RecoveryOutdated \/ CollectorCrash
  <2>1. rc' = NoTask
    BY <1>3 DEF RecoveryOverflow, RecoveryDone, RecoveryFail, FailedAfter, RecoveryOutdated,
       CollectorCrash
  <2> QED BY <1>1, <2>1 DEF Working
<1>4. CASE RecoveryStart
  <2>1. rc' = NoTask \/ rc' = [NoTask EXCEPT !.pc = "fetch", !.ok = TRUE]
    BY <1>4 DEF RecoveryStart
  <2> QED BY <1>1, <1>4, <2>1 DEF Working, NoTask
<1>5. CASE RecoveryFetch \/ RecoveryAppend \/ RecoveryRead
  BY <1>5 DEF RecoveryFetch, RecoveryAppend, RecoveryRead, Working
<1>6. CASE Pop
  <2>1. rc' = [rc EXCEPT !.left = Larger(rc.left - 1, 0)]
    BY <1>6 DEF Pop
  <2>2. rc'.pc = rc.pc /\ rc'.ok = rc.ok
    BY <1>1, <2>1 DEF Tasks
  <2> QED BY <1>6, <2>1, <2>2 DEF Working
<1>7. CASE SkipWithGap
  <2>1. rc' = [Outdate(rc) EXCEPT !.left = Larger(@ - 1, 0)]
    BY <1>7 DEF SkipWithGap
  <2>2. ~rc'.ok
    BY <1>1, <2>1 DEF Tasks
  <2> QED BY <2>2 DEF Working
<1>8. CASE Configure
  <2>1. rc' = rc \/ rc' = Outdate(rc)
    BY <1>8 DEF Configure, Schedule
  <2> QED BY <1>1, <1>2, <1>3, <1>4, <1>5, <1>6, <1>7, <1>8, <2>1 DEF Working
<1>9. CASE Post \/ Edit \/ Cut \/ Resume \/ PublishBarrier \/ Connect \/ Status \/ Deliver
           \/ Acked \/ Undelivered \/ Late \/ Serve \/ DispatchCheck \/ DispatchPick \/ Handle
           \/ EndOfStream \/ Disconnect
  <2>1. rc' = rc
    BY <1>9 DEF Post, Edit, Emit, Cut, Resume, PublishBarrier, Connect, Status, Deliver, Acked,
       Undelivered, Late, Resend, Serve, DispatchCheck, DispatchPick, Handle, EndOfStream,
       Disconnect
  <2> QED BY <1>2, <1>3, <1>4, <1>5, <1>6, <1>7, <1>9, <2>1 DEF Working
<1> QED BY <1>2, <1>3, <1>4, <1>5, <1>6, <1>7, <1>8, <1>9, Steps

(* The channel's state, the anchor and the schedule.                       *)
LEMMA ChannelSteps ==
    ASSUME Typed, Next
    PROVE  /\ \/ anchor' = anchor
              \/ anchor' = BeginRecovery(anchor) /\ ~Pop
              \/ RecoveryDone /\ Working /\ rc.pc = "drain" /\ rc.left = 0 /\ rc.full
                 /\ anchor' = Nothing /\ sched' = sched
           /\ sched' => sched \/ anchor' = BeginRecovery(anchor)
           /\ Working' => \/ Working /\ sched' = sched /\ anchor' = anchor
                          \/ Working /\ sched' = sched /\ anchor' = BeginRecovery(anchor)
                          \/ sched /\ ~sched' /\ anchor' = anchor
           /\ st' = "ready" => anchor' = Nothing \/ (st = "ready" /\ anchor' = anchor)
<1> USE DEF disc, wire, box, chan, client, pipe, go, RecoveryRest, DeliverRest, ServeRest,
            DispatchRest
<1>1. /\ rc \in Tasks /\ Outdate(rc) \in Tasks /\ ~Outdate(rc).ok
      /\ NoTask \in Tasks /\ NoTask.pc = "idle"
  BY Task
<1>2. CASE Ready \/ OnReady \/ RecoveryRetry
  <2>1. rc' = Outdate(rc) /\ anchor' = BeginRecovery(anchor) /\ st' = "recovering" /\ ~Pop
    BY <1>2 DEF Ready, OnReady, RecoveryRetry, Schedule, Pop
  <2> QED BY <1>1, <2>1 DEF Working
<1>3. CASE Configure
  <2>1. CASE Schedule
    <3>1. rc' = Outdate(rc) /\ anchor' = BeginRecovery(anchor) /\ st' = "recovering" /\ ~Pop
      BY <1>3, <2>1 DEF Configure, Schedule, Pop
    <3> QED BY <1>1, <3>1 DEF Working
  <2>2. CASE ~Schedule
    <3>1. /\ st' = (IF st = "none" THEN "recovering" ELSE st)
          /\ anchor' = (IF st = "none" THEN BeginRecovery(anchor) ELSE anchor)
          /\ UNCHANGED <<sched, retry, rc>> /\ ~Pop
      BY <1>3, <2>2 DEF Configure, Pop
    <3> QED BY <3>1 DEF Working
  <2> QED BY <2>1, <2>2
<1>4. CASE RecoveryStart
  <2>1. sched /\ sched' = FALSE /\ anchor' = anchor /\ st' # "ready"
    BY <1>4 DEF RecoveryStart, ChannelStatus
  <2> QED BY <2>1
<1>5. CASE RecoveryDone
  <2>1. /\ rc.pc = "drain" /\ rc.ok /\ rc.left = 0 /\ rc' = NoTask /\ sched' = sched
        /\ anchor' = (IF rc.full THEN Nothing ELSE anchor)
        /\ st' = (IF Connected /\ rc.full THEN "ready" ELSE "gap")
    BY <1>5 DEF RecoveryDone, ChannelStatus
  <2> QED BY <1>1, <1>5, <2>1 DEF Working
<1>6. CASE RecoveryOverflow \/ RecoveryFail \/ CollectorCrash
  <2>1. CASE CollectorCrash
    <3>1. rc' = NoTask /\ anchor' = anchor /\ sched' = FALSE /\ st' # "ready"
      BY <2>1 DEF CollectorCrash
    <3> QED BY <1>1, <3>1 DEF Working
  <2>2. CASE RecoveryOverflow \/ RecoveryFail
    <3>1. rc' = NoTask /\ anchor' = anchor /\ sched' = sched /\ st' # "ready"
      BY <2>2 DEF RecoveryOverflow, RecoveryFail, FailedAfter, ChannelStatus
    <3> QED BY <1>1, <3>1 DEF Working
  <2> QED BY <1>6, <2>1, <2>2
<1>7. CASE SkipWithGap
  <2>1. /\ rc' = [Outdate(rc) EXCEPT !.left = Larger(@ - 1, 0)] /\ anchor' = BeginRecovery(anchor)
        /\ sched' = sched /\ st' = "gap"
    BY <1>7 DEF SkipWithGap, ChannelStatus
  <2>2. ~rc'.ok
    BY <1>1, <2>1 DEF Tasks
  <2>3. ~Pop
    BY <1>7 DEF SkipWithGap, Pop
  <2> QED BY <2>1, <2>2, <2>3 DEF Working
<1>8. CASE RecoveryFetch \/ RecoveryAppend \/ RecoveryRead \/ RecoveryOutdated \/ Pop
  <2>1. UNCHANGED <<anchor, sched, st>>
    BY <1>8 DEF RecoveryFetch, RecoveryAppend, RecoveryRead, RecoveryOutdated, Pop
  <2>2. Working' => Working
    <3>1. CASE RecoveryFetch \/ RecoveryAppend \/ RecoveryRead
      BY <3>1 DEF RecoveryFetch, RecoveryAppend, RecoveryRead, Working
    <3>2. CASE RecoveryOutdated
      BY <1>1, <3>2 DEF RecoveryOutdated, Working
    <3>3. CASE Pop
      <4>1. rc' = [rc EXCEPT !.left = Larger(rc.left - 1, 0)]
        BY <3>3 DEF Pop
      <4> QED BY <1>1, <4>1 DEF Working, Tasks
    <3> QED BY <1>8, <3>1, <3>2, <3>3
  <2> QED BY <2>1, <2>2
<1>9. CASE Post \/ Edit \/ Cut \/ Resume \/ PublishBarrier \/ Connect \/ Status \/ Deliver
           \/ Acked \/ Undelivered \/ Late \/ Serve \/ DispatchCheck \/ DispatchPick \/ Handle
           \/ EndOfStream \/ Disconnect
  <2>1. UNCHANGED <<anchor, sched, st, rc>>
    BY <1>9 DEF Post, Edit, Emit, Cut, Resume, PublishBarrier, Connect, Status, Deliver, Acked,
       Undelivered, Late, Resend, Serve, DispatchCheck, DispatchPick, Handle, EndOfStream,
       Disconnect
  <2> QED BY <2>1 DEF Working
<1> QED BY <1>2, <1>3, <1>4, <1>5, <1>6, <1>7, <1>8, <1>9, Steps

(* Every step keeps what is known of the anchor.                           *)
LEMMA AnchoredStep ==
    ASSUME Typed, Known, Heading, Anchored, Caught, Next
    PROVE  Anchored'
<1>1. BeginRecovery(anchor) # Nothing /\ ckpt \in 0 .. posted /\ posted \in 0 .. N /\ N \in Nat
      /\ Nothing = -1
  BY Numbers
<1>2. Stored \subseteq Stored'
  BY StoreGrows
<1>3. 1 .. BeginRecovery(anchor) \subseteq Stored
  <2>1. CASE anchor # Nothing
    BY <2>1 DEF BeginRecovery, Anchored
  <2>2. CASE anchor = Nothing
    <3>1. BeginRecovery(anchor) = ckpt
      BY <2>2 DEF BeginRecovery
    <3>2. Down(Stored)
      BY <2>2, GoodDown DEF Caught
    <3>3. ckpt = 0 \/ ckpt \in Stored
      BY DEF Heading
    <3> QED BY <1>1, <3>1, <3>2, <3>3 DEF Down
  <2> QED BY <2>1, <2>2
<1>4. anchor' # Nothing => 1 .. anchor' \subseteq Stored'
  <2>1. anchor' = anchor \/ anchor' = BeginRecovery(anchor) \/ anchor' = Nothing
    BY ChannelSteps
  <2>2. anchor # Nothing => 1 .. anchor \subseteq Stored
    BY DEF Anchored
  <2> QED BY <1>2, <1>3, <2>1, <2>2
<1>5. sched' => anchor' # Nothing
  <2>1. sched => anchor # Nothing
    BY DEF Anchored
  <2>2. Working => ~sched
    BY DEF Anchored
  <2> QED BY <1>1, <2>1, <2>2, ChannelSteps
<1>6. Working' => ~sched' /\ anchor' # Nothing
  BY <1>1, ChannelSteps DEF Anchored
<1>7. st' = "ready" => anchor' = Nothing
  BY ChannelSteps DEF Anchored
<1> QED BY <1>4, <1>5, <1>6, <1>7 DEF Anchored

-----------------------------------------------------------------------------
(* What waits to be stored, after a step.                                  *)

(* The line only depends on the outbox and the session.                    *)
LEMMA LineSame ==
    ASSUME Typed, Next, UNCHANGED <<posted, gw, missed, q>>, Halted' <=> Halted
    PROVE  Line' = Line /\ posted' = posted /\ (On' => On)
BY DEF Line, Waiting, On

(* A new event is put at the end of the line, or is lost while no session  *)
(* of this process is there to miss it.                                    *)
LEMMA LineEmit ==
    ASSUME Typed, Known, NEW e \in Events, Emit(e)
    PROVE  \/ Line' = Line /\ ~On'
           \/ On /\ Line' = Line \o <<e>>
<1> USE DEF disc, wire, box, chan, client, pipe, go
<1>1. q \in Seq(Events) /\ missed \in Seq(Events) /\ Len(q) \in 0 .. Capacity /\ Capacity \in Nat
  BY Lens, Numbers
<1>2. gw' = gw /\ (missed # <<>> => gw = "cut")
  BY DEF Emit, Known
<1>3. CASE gw = "live" /\ ~Halted
  <2>1. missed = <<>> /\ missed' = <<>> /\ Capture(<<e>>)
    BY <1>2, <1>3 DEF Emit
  <2>2. Line = q \o <<>> /\ Line' = q' \o <<>> /\ On
    BY <1>3, <2>1 DEF Line, Waiting, On
  <2>3. Line = q
    BY <1>1, <2>2, ConcatEmptySeq
  <2>4. <<e>> \in Seq(Events) /\ Len(<<e>>) = 1
    BY OneEvent
  <2>5. q' \in Seq(Events) /\ Len(q') <= Capacity
    BY <2>1, <2>4, CaptureFacts
  <2>6. Line' = q'
    BY <2>2, <2>5, ConcatEmptySeq
  <2>7. CASE q' = q \o <<e>>
    BY <2>2, <2>3, <2>6, <2>7
  <2>8. ASSUME Len(q) + Len(<<e>>) > Capacity, wst' = "buffer_failed", NEW t \in Seq(Events), q' = q \o t
        PROVE  Line' = Line /\ ~On'
    <3>1. Len(q') = Len(q) + Len(t) /\ Len(t) \in Nat
      BY <2>8, Behind, LenProperties
    <3>2. Len(t) = 0
      BY <1>1, <2>4, <2>5, <2>8, <3>1
    <3>3. t = <<>>
      BY <3>2, EmptySeq
    <3> QED BY <1>1, <2>3, <2>6, <2>8, <3>3, ConcatEmptySeq DEF On, Halted
  <2> QED BY <2>1, <2>4, <2>7, <2>8, CaptureFacts
<1>4. CASE ~(gw = "live" /\ ~Halted)
  <2>1. q' = q /\ wst' = wst /\ missed' = IF gw = "cut" THEN Append(missed, e) ELSE missed
    BY <1>4 DEF Emit
  <2>2. CASE gw = "cut" /\ ~Halted
    <3>1. Line = q \o missed /\ Line' = q \o Append(missed, e) /\ On
      BY <2>1, <2>2 DEF Line, Waiting, Halted, On
    <3>2. Append(missed, e) = missed \o <<e>>
      BY <1>1, AppendIsConcat
    <3>3. <<e>> \in Seq(Events)
      BY OneEvent
    <3>4. q \o (missed \o <<e>>) = (q \o missed) \o <<e>>
      BY <1>1, <3>3, ConcatAssociative
    <3> QED BY <3>1, <3>2, <3>4
  <2>3. CASE ~(gw = "cut" /\ ~Halted)
    <3>1. Line' = Line /\ ~On'
      BY <1>2, <1>4, <2>1, <2>3 DEF Line, Waiting, Halted, On
    <3> QED BY <3>1
  <2> QED BY <2>2, <2>3
<1> QED BY <1>3, <1>4

(* Sequences of events.                                                    *)
LEMMA Associate ==
    ASSUME NEW s \in Seq(Events), NEW t \in Seq(Events), NEW u \in Seq(Events)
    PROVE  (s \o t) \o u = s \o (t \o u)
BY ConcatAssociative

LEMMA SplitSeq ==
    ASSUME NEW s \in Seq(Events), NEW k \in 0 .. Len(s)
    PROVE  /\ SubSeq(s, 1, k) \in Seq(Events) /\ SubSeq(s, k + 1, Len(s)) \in Seq(Events)
           /\ SubSeq(s, 1, k) \o SubSeq(s, k + 1, Len(s)) = s
<1>1. Len(s) \in Nat /\ \A i \in 1 .. Len(s) : s[i] \in Events
  BY FirstsFacts, LenProperties
<1>2. PICK a : a = SubSeq(s, 1, k)
  OBVIOUS
<1>3. a \in Seq(Events) /\ Len(a) = k /\ \A i \in 1 .. k : a[i] = s[i]
  <2>1. 1 \in Int /\ k \in Int /\ \A i \in 1 .. k : s[i] \in Events
    BY <1>1
  <2>2. /\ SubSeq(s, 1, k) \in Seq(Events)
        /\ Len(SubSeq(s, 1, k)) = IF 1 <= k THEN k - 1 + 1 ELSE 0
        /\ \A i \in 1 .. k - 1 + 1 : SubSeq(s, 1, k)[i] = s[1 + i - 1]
    BY <2>1, SubSeqProperties
  <2> QED BY <1>1, <1>2, <2>2
<1>4. PICK b : b = SubSeq(s, k + 1, Len(s))
  OBVIOUS
<1>5. b \in Seq(Events) /\ Len(b) = Len(s) - k /\ \A i \in 1 .. Len(s) - k : b[i] = s[k + i]
  <2>1. k + 1 \in Int /\ Len(s) \in Int /\ \A i \in k + 1 .. Len(s) : s[i] \in Events
    BY <1>1
  <2>2. /\ SubSeq(s, k + 1, Len(s)) \in Seq(Events)
        /\ Len(SubSeq(s, k + 1, Len(s))) = IF k + 1 <= Len(s) THEN Len(s) - (k + 1) + 1 ELSE 0
        /\ \A i \in 1 .. Len(s) - (k + 1) + 1 : SubSeq(s, k + 1, Len(s))[i] = s[(k + 1) + i - 1]
    BY <2>1, SubSeqProperties
  <2> QED BY <1>1, <1>4, <2>2
<1>6. /\ a \o b \in Seq(Events) /\ Len(a \o b) = Len(s)
      /\ \A i \in 1 .. Len(a) : (a \o b)[i] = a[i]
      /\ \A i \in Len(a) + 1 .. Len(a) + Len(b) : (a \o b)[i] = b[i - Len(a)]
  BY <1>1, <1>3, <1>5, ConcatProperties
<1>7. ASSUME NEW i \in 1 .. Len(s) PROVE (a \o b)[i] = s[i]
  <2>1. CASE i <= k
    BY <1>1, <1>3, <1>6, <2>1
  <2>2. CASE ~(i <= k)
    <3>1. i - k \in 1 .. Len(s) - k /\ k + (i - k) = i /\ i \in k + 1 .. k + Len(b)
      BY <1>1, <1>5, <2>2
    <3> QED BY <1>3, <1>5, <1>6, <3>1
  <2> QED BY <2>1, <2>2
<1>8. a \o b = s
  BY <1>6, <1>7, SeqEqual
<1> QED BY <1>2, <1>3, <1>4, <1>5, <1>8

LEMMA TailConcat ==
    ASSUME NEW s \in Seq(Events), NEW t \in Seq(Events), s # <<>>
    PROVE  Tail(s \o t) = Tail(s) \o t
<1>1. /\ Len(s) \in Nat \ {0} /\ Len(t) \in Nat /\ s \o t \in Seq(Events)
      /\ Len(s \o t) = Len(s) + Len(t)
      /\ \A i \in 1 .. Len(s) : (s \o t)[i] = s[i]
      /\ \A i \in Len(s) + 1 .. Len(s) + Len(t) : (s \o t)[i] = t[i - Len(s)]
  BY ConcatProperties, FirstsFacts, LenProperties
<1>2. s \o t # <<>>
  BY <1>1, FirstsFacts
<1>3. /\ Tail(s \o t) \in Seq(Events) /\ Len(Tail(s \o t)) = Len(s) + Len(t) - 1
      /\ \A i \in 1 .. Len(s) + Len(t) - 1 : Tail(s \o t)[i] = (s \o t)[i + 1]
  BY <1>1, <1>2, FirstsTail
<1>4. /\ Tail(s) \in Seq(Events) /\ Len(Tail(s)) = Len(s) - 1
      /\ \A i \in 1 .. Len(s) - 1 : Tail(s)[i] = s[i + 1]
  BY <1>1, FirstsTail
<1>5. /\ Tail(s) \o t \in Seq(Events) /\ Len(Tail(s) \o t) = Len(s) - 1 + Len(t)
      /\ \A i \in 1 .. Len(s) - 1 : (Tail(s) \o t)[i] = Tail(s)[i]
      /\ \A i \in Len(s) .. Len(s) - 1 + Len(t) : (Tail(s) \o t)[i] = t[i - (Len(s) - 1)]
  <2>1. PICK r \in Seq(Events) : r = Tail(s)
    BY <1>4
  <2>2. /\ r \o t \in Seq(Events) /\ Len(r \o t) = Len(r) + Len(t)
        /\ \A i \in 1 .. Len(r) : (r \o t)[i] = r[i]
        /\ \A i \in Len(r) + 1 .. Len(r) + Len(t) : (r \o t)[i] = t[i - Len(r)]
    BY ConcatProperties
  <2> QED BY <1>1, <1>4, <2>1, <2>2
<1>6. ASSUME NEW i \in 1 .. Len(s) + Len(t) - 1 PROVE Tail(s \o t)[i] = (Tail(s) \o t)[i]
  <2>1. CASE i <= Len(s) - 1
    BY <1>1, <1>3, <1>4, <1>5, <2>1
  <2>2. CASE ~(i <= Len(s) - 1)
    <3>1. i \in Len(s) .. Len(s) - 1 + Len(t) /\ i + 1 \in Len(s) + 1 .. Len(s) + Len(t)
          /\ i + 1 - Len(s) = i - (Len(s) - 1)
      BY <1>1, <2>2
    <3> QED BY <1>1, <1>3, <1>5, <3>1
  <2> QED BY <2>1, <2>2
<1>7. PICK a \in Seq(Events), b \in Seq(Events) : a = Tail(s \o t) /\ b = Tail(s) \o t
  BY <1>3, <1>5
<1>8. Len(a) = Len(b) /\ \A i \in 1 .. Len(a) : a[i] = b[i]
  BY <1>1, <1>3, <1>5, <1>6, <1>7
<1>9. a = b
  BY <1>8, SeqEqual
<1> QED BY <1>7, <1>9

(* The line after a step that is not one of the exceptions below.          *)
LEMMA LineSteps ==
    ASSUME Typed, Known, Heading, Next, ~Ready, ~SkipWithGap, ~RecoveryAppend, ~RecoveryOverflow
    PROVE  \/ ~Pop /\ Line' = Line /\ posted' = posted /\ (On' => On)
           \/ ~Pop /\ ~On' /\ \E t \in Seq(Events) : Line = Line' \o t
           \/ /\ ~Pop /\ On
              /\ \E e \in Events : /\ Line' = Line \o <<e>> /\ e.m <= posted + 1
                                   /\ 1 .. posted' \subseteq (1 .. posted) \cup {e.m}
           \/ /\ Pop /\ q # <<>> /\ Line' = Tail(Line) /\ posted' = posted /\ (On' => On)
<1> USE DEF disc, wire, box, chan, client, pipe, go, RecoveryRest, DeliverRest, ServeRest,
            DispatchRest
<1>1. Line \in Seq(Events) /\ Line \o <<>> = Line /\ <<>> \in Seq(Events)
  BY LineFacts, ConcatEmptySeq, NoEvent
<1>2. CASE Post
  <2>1. PICK e \in Events : e = Event("create", posted + 1, 0)
    BY <1>2, PostedEvent
  <2>2. e.m = posted + 1 /\ Emit(e) /\ posted' = posted + 1 /\ posted \in Nat
    BY <1>2, <2>1, PostedEvent, Numbers DEF Event
  <2>3. ~Pop
    BY <1>2, <2>2 DEF Post, Pop
  <2>4. 1 .. posted' \subseteq (1 .. posted) \cup {e.m}
    BY <2>2
  <2>5. e.m <= posted + 1
    BY <2>2
  <2>6. \/ Line' = Line /\ ~On'
        \/ On /\ Line' = Line \o <<e>>
    BY <2>2, LineEmit
  <2> QED BY <1>1, <2>3, <2>4, <2>5, <2>6
<1>3. CASE Edit
  <2>1. PICK e \in Events : e = Event("update", Card, 1)
    BY <1>3, EditedEvent
  <2>2. e.m = Card /\ Emit(e) /\ posted' = posted /\ Card <= posted /\ posted \in Nat /\ Card \in Nat
    BY <1>3, <2>1, EditedEvent, Numbers DEF Event
  <2>3. ~Pop
    BY <1>3 DEF Edit, Emit, Pop, PopHead
  <2>4. 1 .. posted' \subseteq (1 .. posted) \cup {e.m} /\ e.m <= posted + 1
    BY <2>2
  <2> QED BY <1>1, <2>2, <2>3, <2>4, LineEmit
<1>4. CASE Resume
  <2>1. q \in Seq(Events) /\ missed \in Seq(Events) /\ gw = "cut" /\ ~Halted /\ gw' = "live"
        /\ missed' = <<>> /\ posted' = posted
    BY <1>4, Lens DEF Resume
  <2>2. Line = q \o missed /\ On
    BY <2>1 DEF Line, Waiting, On
  <2>3. ~Pop
    BY <1>4 DEF Resume, Pop
  <2>4. Line' = q'
    <3>1. q' \in Seq(Events) /\ Line' = q' \o <<>>
      BY <2>1, BoxStep DEF BoxTyped, Line, Waiting
    <3> QED BY <3>1, ConcatEmptySeq
  <2>5. CASE Len(q) + Len(missed) > Capacity
    <3>1. wst' = "buffer_failed" /\ q' = q \o SubSeq(missed, 1, Capacity - Len(q))
      BY <1>4, <2>5 DEF Resume, Capture
    <3>2. Len(q) \in 0 .. Capacity /\ Len(missed) \in Nat /\ Capacity \in Nat
      BY Lens, Numbers
    <3>3. PICK k \in 0 .. Len(missed) : k = Capacity - Len(q)
      BY <2>5, <3>2
    <3>4. PICK a \in Seq(Events), b \in Seq(Events) : a = SubSeq(missed, 1, k) /\ a \o b = missed
      BY <2>1, SplitSeq
    <3>5. (q \o a) \o b = q \o missed
      <4>1. (q \o a) \o b = q \o (a \o b)
        BY <2>1, Associate
      <4> QED BY <3>4, <4>1
    <3>6. Line = Line' \o b
      BY <2>2, <2>4, <3>1, <3>3, <3>4, <3>5
    <3>7. ~On'
      BY <3>1 DEF On, Halted
    <3> QED BY <2>3, <3>4, <3>6, <3>7
  <2>6. CASE ~(Len(q) + Len(missed) > Capacity)
    <3>1. q' = q \o missed
      BY <1>4, <2>6 DEF Resume
    <3> QED BY <2>1, <2>2, <2>3, <2>4, <3>1
  <2> QED BY <2>5, <2>6
<1>5. CASE CollectorCrash
  <2>1. q' = q /\ wst' = "disabled" /\ missed' = <<>> /\ gw' = "off"
    BY <1>5 DEF CollectorCrash
  <2>2. Line' = q \o <<>> /\ ~On'
    BY <2>1 DEF Line, Waiting, Halted, On
  <2>3. Line' = q
    BY <2>2, Lens, ConcatEmptySeq
  <2>4. ~Pop
    BY <2>1, HeadFacts DEF Pop, PopHead, Heading
  <2> QED BY <2>1, <2>2, <2>3, <2>4, LineFacts DEF Line
<1>6. CASE Pop
  <2>1. q # <<>> /\ q' = Tail(q) /\ UNCHANGED <<posted, gw, missed, wst>>
    BY <1>6 DEF Pop, PopHead, Heading
  <2>2. Waiting' = Waiting /\ (On' => On)
    BY <2>1 DEF Waiting, Halted, On
  <2>3. q \in Seq(Events) /\ Waiting \in Seq(Events)
    BY LineFacts, Lens
  <2>4. Tail(q \o Waiting) = Tail(q) \o Waiting
    BY <2>1, <2>3, TailConcat
  <2> QED BY <1>6, <2>1, <2>2, <2>4 DEF Line
<1>7. CASE Cut \/ Configure
  <2>1. UNCHANGED <<posted, q, missed>>
    BY <1>7 DEF Cut, Configure
  <2>2. ~Pop
    BY <2>1, HeadFacts DEF Pop, PopHead, Heading
  <2>3. (Halted' <=> Halted) /\ (On' => On)
    BY <1>7 DEF Cut, Configure, Halted, On
  <2> QED BY <2>1, <2>3, <2>2 DEF Line, Waiting
<1>8. CASE RecoveryFail
  <2>1. q' = q \o <<>> /\ UNCHANGED <<posted, gw, missed>>
    BY <1>8 DEF RecoveryFail, FailedAfter
  <2>2. Halted' <=> Halted
    BY <1>8 DEF RecoveryFail, FailedAfter, Finished, Halted
  <2>3. q' = q
    BY <2>1, Lens, ConcatEmptySeq
  <2>4. ~Pop
    BY <2>3, HeadFacts DEF Pop, PopHead, Heading
  <2> QED BY <2>1, <2>2, <2>3, <2>4, LineSame
<1>9. CASE OnReady \/ RecoveryDone \/ RecoveryOutdated
  <2>1. UNCHANGED <<posted, gw, missed, q>>
    BY <1>9 DEF OnReady, RecoveryDone, RecoveryOutdated
  <2>2. Halted' <=> Halted
    BY <1>9 DEF OnReady, RecoveryDone, RecoveryOutdated, Finished, Halted
  <2>3. ~Pop
    BY <2>1, HeadFacts DEF Pop, PopHead, Heading
  <2> QED BY <2>1, <2>2, <2>3, LineSame
<1>10. CASE PublishBarrier \/ Connect \/ Status \/ RecoveryStart \/ RecoveryFetch \/ RecoveryRead
            \/ RecoveryRetry \/ Deliver \/ Acked \/ Undelivered \/ Late \/ Serve \/ DispatchCheck
            \/ DispatchPick \/ Handle \/ EndOfStream \/ Disconnect
  <2>1. UNCHANGED <<posted, gw, missed, q, wst>>
    BY <1>10 DEF PublishBarrier, Connect, Status, RecoveryStart, RecoveryFetch, RecoveryRead,
       RecoveryRetry, Deliver, Acked, Undelivered, Late, Resend, Serve, DispatchCheck, DispatchPick, Handle,
       EndOfStream, Disconnect
  <2>2. ~Pop
    BY <2>1, HeadFacts DEF Pop, PopHead, Heading
  <2> QED BY <2>1, <2>2, LineSame DEF Halted
<1> QED BY <1>2, <1>3, <1>4, <1>5, <1>6, <1>7, <1>8, <1>9, <1>10, Steps

(* What holds of the line keeps holding, whatever comes next but a new     *)
(* session, a message given up and the history itself.                     *)
LEMMA CoversStep ==
    ASSUME Typed, Known, Heading, Next, ~Ready, ~SkipWithGap, ~RecoveryAppend, ~RecoveryOverflow,
           NEW L \in Nat, NEW X, \A m \in X : m \in Msgs /\ m <= posted, Covers(L, X)
    PROVE  /\ ~Pop => Covers(L, X)'
           /\ Pop => \A K \in Nat : K = Larger(L - 1, 0) => Covers(K, X)'
<1>1. PICK s \in Seq(Events) : s = Line
  BY LineFacts
<1>2. PICK S : S = Stored \cup X
  OBVIOUS
<1>3. PICK U : U = Stored' \cup X
  OBVIOUS
<1>4. Ordered(S, s, L) /\ (On => 1 .. posted \subseteq S \cup Names(s))
  BY <1>1, <1>2 DEF Covers, On
<1>5. ASSUME NEW K \in Nat, NEW t \in Seq(Events), t = Line', Ordered(U, t, K),
             On' => 1 .. posted' \subseteq U \cup Names(t)
      PROVE  Covers(K, X)'
  BY <1>3, <1>5 DEF Covers, On
<1>6. S \subseteq U /\ (U = S \/ (q # <<>> /\ U = S \cup {q[1].m} /\ ~Pop))
  <2>1. CASE Stored' = Stored
    BY <1>2, <1>3, <2>1
  <2>2. CASE Serve /\ sock # <<>> /\ IsEvent(sock[1]) /\ Stored' = Stored \cup {sock[1].m}
    <3>1. 1 \in 1 .. Len(sock)
      BY <2>2, TailFrame DEF Typed, PipeTyped
    <3>2. q # <<>> /\ sock[1].m = q[1].m
      BY <2>2, <3>1 DEF Heading
    <3>3. q' = q
      BY <2>2 DEF Serve, ServeRest, box
    <3>4. ~Pop
      BY <3>3, HeadFacts DEF Pop, PopHead, Heading
    <3> QED BY <1>2, <1>3, <2>2, <3>2, <3>4
  <2> QED BY <2>1, <2>2, StoreGrows
<1>7. Ordered(U, s, L) /\ (On => 1 .. posted \subseteq U \cup Names(s))
  <2>1. CASE U = S
    BY <1>4, <2>1
  <2>2. CASE q # <<>> /\ U = S \cup {q[1].m}
    <3>1. s # <<>> /\ s[1] = q[1]
      BY <1>1, <2>2, LineFacts
    <3>2. Ordered(S \cup {s[1].m}, s, L)
      BY <1>4, <3>1, OrderedStore
    <3> QED BY <1>4, <2>2, <3>1, <3>2
  <2> QED BY <1>6, <2>1, <2>2
<1>8. Line' \in Seq(Events)
  <2>1. q' \in Seq(Events) /\ missed' \in Seq(Events)
    BY BoxStep, DiscordStep DEF BoxTyped, DiscordTyped
  <2>2. Waiting' \in Seq(Events)
    BY <2>1, NoEvent DEF Waiting
  <2> QED BY <2>1, <2>2, ConcatProperties DEF Line
<1>9. CASE ~Pop /\ Line' = Line /\ posted' = posted /\ (On' => On)
  BY <1>1, <1>5, <1>7, <1>9
<1>10. CASE ~Pop /\ ~On' /\ \E t \in Seq(Events) : Line = Line' \o t
  <2>1. PICK t \in Seq(Events), r \in Seq(Events) : r = Line' /\ s = r \o t
    BY <1>1, <1>8, <1>10
  <2>2. Ordered(U, r, L)
    BY <1>7, <2>1, OrderedConcat
  <2> QED BY <1>5, <1>10, <2>1, <2>2
<1>11. ASSUME ~Pop, On, NEW e \in Events, Line' = Line \o <<e>>, e.m <= posted + 1,
              1 .. posted' \subseteq (1 .. posted) \cup {e.m}
       PROVE  Covers(L, X)'
  <2>1. PICK r \in Seq(Events) : r = Line' /\ r = s \o <<e>>
    BY <1>1, <1>8, <1>11
  <2>2. Names(r) = Names(s) \cup {e.m}
    <3>1. PICK t \in Seq(Events) : t = <<e>> /\ Names(t) = {e.m}
      BY OneEvent
    <3>2. r = s \o t /\ Names(s \o t) = Names(s) \cup Names(t)
      BY <2>1, <3>1, FirstsConcat
    <3> QED BY <3>1, <3>2
  <2>3. \A m \in U \cup Names(s) \cup {e.m} : m \in Msgs /\ m <= posted + 1
    <3>1. SaidIn(q) /\ SaidIn(Waiting)
      BY DEF Known, Waiting, SaidIn
    <3>2. q \in Seq(Events) /\ Waiting \in Seq(Events) /\ Names(s) = Names(q) \cup Names(Waiting)
      BY <1>1, LineFacts, Lens
    <3>3. \A m \in Names(s) : m \in Msgs /\ m <= posted
      BY <3>1, <3>2, StoredSaid
    <3>4. \A m \in S : m \in Msgs /\ m <= posted
      BY <1>2, StoredSaid
    <3>5. q # <<>> => q[1].m \in Msgs /\ q[1].m <= posted
      <4>1. ASSUME q # <<>> PROVE 1 \in 1 .. Len(q) /\ q[1].m \in Msgs
        BY <4>1, HeadFacts
      <4> QED BY <4>1 DEF Known, SaidIn, Said
    <3>6. e.m \in Msgs
      BY DEF Events
    <3>7. \A m \in Msgs : m <= posted => m <= posted + 1
      BY Numbers
    <3>8. \A m \in U : m \in Msgs /\ m <= posted
      BY <1>6, <3>4, <3>5
    <3> QED BY <1>11, <3>3, <3>6, <3>7, <3>8
  <2>4. 1 .. posted \subseteq U \cup Names(s)
    BY <1>7, <1>11
  <2>5. Down(U \cup Names(s) \cup {e.m})
    <3>1. ASSUME NEW b \in U \cup Names(s) \cup {e.m}, NEW a \in 1 .. b - 1
          PROVE  a \in U \cup Names(s) \cup {e.m}
      <4>1. b \in Nat /\ b <= posted + 1 /\ posted \in Nat
        BY <2>3, Numbers
      <4>2. a \in 1 .. posted
        BY <4>1
      <4> QED BY <2>4, <4>2
    <3> QED BY <3>1 DEF Down
  <2>6. Ordered(U, r, L)
    BY <1>7, <2>1, <2>5, OrderedAppend
  <2>7. 1 .. posted' \subseteq U \cup Names(r)
    BY <1>11, <2>2, <2>4
  <2> QED BY <1>5, <2>1, <2>6, <2>7
<1>12. CASE Pop /\ q # <<>> /\ Line' = Tail(Line) /\ posted' = posted /\ (On' => On)
  <2>1. s # <<>> /\ s[1] = q[1]
    BY <1>1, <1>12, LineFacts
  <2>2. q[1].m \in U
    BY <1>3, <1>12, StoreGrows DEF Pop, Heading
  <2>3. PICK r \in Seq(Events) : r = Tail(s) /\ r = Line'
    BY <1>1, <1>8, <1>12
  <2>4. /\ Ordered(U, r, Larger(L - 1, 0))
        /\ U \cup Names(r) = U \cup Names(s)
    BY <1>7, <2>1, <2>2, <2>3, OrderedTail
  <2> QED BY <1>5, <1>7, <1>12, <2>3, <2>4
<1> QED BY <1>9, <1>10, <1>11, <1>12, LineSteps

-----------------------------------------------------------------------------
(* What a recovery may conclude.                                           *)
LEMMA OrderedLater ==
    ASSUME NEW S, NEW s \in Seq(Events), NEW K \in Nat, NEW L \in Nat, K <= L, Ordered(S, s, K)
    PROVE  Ordered(S, s, L)
<1>1. Len(s) \in Nat
  BY LenProperties
<1>2. \A i \in L .. Len(s) : i \in K .. Len(s)
  BY <1>1
<1> QED BY <1>2 DEF Ordered

(* When nothing is missing, a step without the exceptions leaves it so.    *)
LEMMA GoodStep ==
    ASSUME Typed, Known, Heading, Next, ~Ready, ~SkipWithGap, ~RecoveryAppend, ~RecoveryOverflow,
           Good
    PROVE  Good'
<1>1. PICK L \in Nat, X \in {{}} : L = 0
  OBVIOUS
<1>2. Covers(L, X) /\ \A m \in X : m \in Msgs /\ m <= posted
  BY <1>1 DEF Good
<1>3. L = Larger(L - 1, 0)
  BY <1>1 DEF Larger
<1>4. Covers(L, X)'
  BY <1>2, <1>3, CoversStep
<1> QED BY <1>1, <1>4 DEF Good

(* The outbox only loses its head, or grows behind.                        *)
LEMMA QueueGrows ==
    ASSUME Typed, Known, Heading, Next
    PROVE  /\ Len(q) \in Nat /\ Len(q') \in Nat
           /\ ~Pop /\ ~SkipWithGap => Len(q) <= Len(q')
           /\ Pop => q # <<>> /\ Len(q') = Len(q) - 1 /\ Len(q) > 0
<1>1. Len(q) \in Nat /\ Len(q') \in Nat
  BY Lens, BoxStep, LenProperties DEF BoxTyped
<1>2. ASSUME NEW t \in Seq(Events), q' = q \o t PROVE Len(q) <= Len(q')
  <2>1. Len(q') = Len(q) + Len(t) /\ Len(t) \in Nat
    BY <1>2, Behind, LenProperties
  <2> QED BY <1>1, <2>1
<1>3. Pop => q # <<>> /\ Len(q') = Len(q) - 1 /\ Len(q) > 0
  <2>1. ASSUME Pop PROVE q # <<>> /\ Len(q') = Len(q) - 1 /\ Len(q) > 0
    <3>1. q # <<>> /\ q' = Tail(q)
      BY <2>1 DEF Pop, PopHead, Heading
    <3>2. Len(Tail(q)) = Len(q) - 1 /\ Len(q) \in Nat \ {0}
      BY <3>1, HeadFacts
    <3> QED BY <3>1, <3>2
  <2> QED BY <2>1
<1> QED BY <1>1, <1>2, <1>3, QueueSteps

(* With the whole history read, nothing that was posted is missing.        *)
LEMMA FetchStep ==
    ASSUME Typed, Known, Anchored, Next, RecoveryFetch, Working, History.full
    PROVE  \A L \in Nat : \A X : X = Names(History.h) => Covers(L, X)'
<1>1. PICK h \in Seq(Events) : h = History.h /\ SaidIn(h)
  BY HistoryFacts
<1>2. PICK s \in Seq(Events) : s = Line
  BY LineFacts
<1>3. PICK S : S = Stored \cup Names(h)
  OBVIOUS
<1>4. UNCHANGED <<posted, gw, missed, q, wst, db>>
  BY DEF RecoveryFetch, RecoveryRest, disc, wire, go
<1>5. Line' = s /\ Stored' = Stored /\ posted' = posted
  BY <1>2, <1>4 DEF Line, Waiting, Halted, Stored
<1>6. 1 .. posted \subseteq S
  <2>1. \A m \in 1 .. posted : m > anchor => m \in Names(h)
    BY <1>1, HistoryFacts
  <2>2. anchor # Nothing /\ 1 .. anchor \subseteq Stored
    BY DEF Anchored
  <2>3. anchor \in Nat /\ posted \in Nat
    BY <2>2, Numbers
  <2> QED BY <1>3, <2>1, <2>2, <2>3
<1>7. \A m \in S : m \in Msgs /\ m <= posted
  BY <1>1, <1>3, StoredSaid
<1>8. \A m \in Names(s) : m \in Msgs /\ m <= posted
  <2>1. SaidIn(q) /\ SaidIn(Waiting)
    BY DEF Known, Waiting, SaidIn
  <2> QED BY <1>2, <2>1, LineFacts, Lens, StoredSaid
<1>9. ASSUME NEW L \in Nat, NEW i \in L .. Len(s) PROVE Down(S \cup Firsts(s, i))
  <2>1. Firsts(s, i) \subseteq Names(s)
    BY FirstsFacts, LenProperties
  <2>2. ASSUME NEW b \in S \cup Firsts(s, i), NEW a \in 1 .. b - 1 PROVE a \in S
    <3>1. b \in Nat /\ b <= posted /\ posted \in Nat
      BY <1>7, <1>8, <2>1, Numbers
    <3>2. a \in 1 .. posted
      BY <3>1
    <3> QED BY <1>6, <3>2
  <2> QED BY <2>2 DEF Down
<1>10. ASSUME NEW L \in Nat, NEW X, X = Names(h) PROVE Covers(L, X)'
  <2>1. Ordered(S, s, L)
    BY <1>9 DEF Ordered
  <2> QED BY <1>3, <1>5, <1>6, <1>10, <2>1 DEF Covers
<1> QED BY <1>1, <1>10

(* The history, and then each card, is put behind the events that were     *)
(* captured, and the watermark stands at its end.                          *)
LEMMA AppendStep ==
    ASSUME Typed, Known, Heading, Next, RecoveryAppend, NEW X, Covers(Len(q), X),
           X \subseteq Names(rc.h), Names(rc.h) \subseteq Stored \cup X
    PROVE  \A L \in Nat : L = Len(q') => Covers(L, {})'
<1>1. PICK a \in Seq(Events), e \in Seq(Events), w \in Seq(Events) :
         a = q /\ e = rc.h /\ w = Waiting
  BY Lens, LineFacts
<1>2. PICK S : S = Stored
  OBVIOUS
<1>3. q' = a \o e /\ UNCHANGED <<posted, gw, missed, wst, db>>
  BY <1>1, AppendFacts DEF RecoveryAppend, RecoveryRest, disc, wire, go
<1>4. Line = a \o w /\ Line' = (a \o e) \o w /\ Stored' = S /\ posted' = posted /\ (On' => On)
  BY <1>1, <1>2, <1>3 DEF Line, Waiting, Halted, Stored, On
<1>5. Ordered(S \cup X, a \o w, Len(a))
      /\ (On => 1 .. posted \subseteq S \cup X \cup Names(a \o w))
  BY <1>1, <1>2, <1>4 DEF Covers, On
<1>6. X \subseteq Names(e) /\ Names(e) \subseteq S \cup X
  BY <1>1, <1>2
<1>7. Ordered(S, (a \o e) \o w, Len(a) + Len(e))
  BY <1>5, <1>6, OrderedInsert, Zenon
<1>8. S \cup Names((a \o e) \o w) = S \cup X \cup Names(a \o w)
  <2>1. PICK b \in Seq(Events) : b = a \o e
    BY ConcatProperties
  <2>2. Names(b) = Names(a) \cup Names(e) /\ Names(b \o w) = Names(b) \cup Names(w)
        /\ Names(a \o w) = Names(a) \cup Names(w)
    BY <2>1, FirstsConcat
  <2> QED BY <1>6, <2>1, <2>2
<1>9. Len(q') = Len(a) + Len(e)
  BY <1>3, ConcatProperties
<1>10. PICK r : r = (a \o e) \o w
  OBVIOUS
<1>11. ASSUME NEW L \in Nat, L = Len(q') PROVE Covers(L, {})'
  <2>1. Ordered(S \cup {}, r, L)
    BY <1>7, <1>9, <1>10, <1>11
  <2>2. On' => 1 .. posted' \subseteq S \cup {} \cup Names(r)
    BY <1>4, <1>5, <1>8, <1>10
  <2> QED BY <1>4, <1>10, <2>1, <2>2 DEF Covers, On
<1> QED BY <1>11

(* What a recovery that drains counts on holds until it is done.           *)
LEMMA LaterStep ==
    ASSUME Typed, Known, Heading, Next, NEW K \in Nat, NEW L \in Nat, NEW X, K <= L, Covers(K, X)'
    PROVE  Covers(L, X)'
<1>1. q' \in Seq(Events) /\ missed' \in Seq(Events)
  BY BoxStep, DiscordStep DEF BoxTyped, DiscordTyped
<1>2. Waiting' \in Seq(Events)
  BY <1>1, NoEvent DEF Waiting
<1>3. PICK s \in Seq(Events) : s = Line'
  BY <1>1, <1>2, ConcatProperties DEF Line
<1>4. PICK S : S = Stored' \cup X
  OBVIOUS
<1>5. Ordered(S, s, K)
  BY <1>3, <1>4 DEF Covers
<1>6. Ordered(S, s, L)
  BY <1>5, OrderedLater
<1> QED BY <1>3, <1>4, <1>6 DEF Covers

(* Every step keeps what a recovery has caught up with.                    *)
LEMMA CaughtStep ==
    ASSUME Typed, Known, Heading, Anchored, Caught, Next
    PROVE  Caught'
<1>1. BeginRecovery(anchor) # Nothing
  BY Numbers
<1>2. /\ rc \in Tasks /\ rc.left \in Nat /\ rc.h \in Seq(Events)
  BY Task DEF Tasks
<1>3. Working => anchor # Nothing
  BY DEF Anchored
<1>4. RecoveryAppend \/ RecoveryOverflow => Working /\ anchor' = anchor
  BY DEF RecoveryAppend, RecoveryOverflow, FailedAfter, Working
<1>5. Ready \/ SkipWithGap => anchor' = BeginRecovery(anchor)
  BY DEF Ready, SkipWithGap
<1>6. anchor' = Nothing => Good'
  <2>1. ASSUME anchor' = Nothing PROVE Good'
    <3>1. ~Ready /\ ~SkipWithGap /\ ~RecoveryAppend /\ ~RecoveryOverflow
      BY <1>1, <1>3, <1>4, <1>5, <2>1
    <3>2. anchor = Nothing \/ (rc.pc = "drain" /\ Working /\ rc.left = 0 /\ rc.full)
      BY <1>1, <2>1, ChannelSteps
    <3>3. Good
      BY <3>2 DEF Caught, Good, Working, Draining
    <3> QED BY <3>1, <3>3, GoodStep
  <2> QED BY <2>1
<1>7. (rc'.pc = "append" /\ rc'.ok /\ rc'.full) => Covers(Len(q), Names(rc.h))'
  <2> SUFFICES ASSUME rc'.pc = "append", rc'.ok, rc'.full PROVE Covers(Len(q), Names(rc.h))'
    OBVIOUS
  <2>1. Working'
    BY DEF Working
  <2>2. PICK L \in Nat, M \in Nat : L = Len(q) /\ M = Len(q')
    BY QueueGrows
  <2>3. CASE RecoveryFetch /\ Working
    <3>1. PICK h \in Seq(Events) : h = History.h
      BY HistoryFacts
    <3>2. rc' = [rc EXCEPT !.pc = "append", !.h = h, !.full = History.full]
      BY <2>3, <3>1 DEF RecoveryFetch
    <3>3. rc'.h = h /\ rc'.full = History.full
      BY <1>2, <3>2 DEF Tasks
    <3>4. PICK X : X = Names(h)
      OBVIOUS
    <3>5. \A K \in Nat : \A Y : Y = Names(History.h) => Covers(K, Y)'
      BY <2>3, <3>3, FetchStep
    <3>6. Covers(M, X)'
      BY <3>1, <3>4, <3>5
    <3> QED BY <2>2, <3>3, <3>4, <3>6
  <2>4. ~RecoveryAppend /\ ~RecoveryRead
    BY AppendFacts, CardFacts
  <2>5. ASSUME ~RecoveryFetch PROVE Covers(Len(q), Names(rc.h))'
    <3>1. /\ rc'.pc = rc.pc /\ rc'.ok = rc.ok /\ rc'.full = rc.full /\ rc'.h = rc.h
          /\ ~SkipWithGap /\ ~Ready /\ ~RecoveryOverflow
      <4>1. CASE Pop /\ rc' = [rc EXCEPT !.left = Larger(rc.left - 1, 0)]
        <5>1. q # <<>> /\ Len(q') = Len(q) - 1 /\ Len(q) \in Nat
          BY <4>1, QueueGrows
        <5>2. ~Ready /\ ~RecoveryOverflow
          <6>1. rc'.ok /\ Outdate(rc).ok = FALSE /\ NoTask.ok = FALSE
            BY Task
          <6> QED BY <6>1 DEF Ready, RecoveryOverflow, FailedAfter
        <5>3. ~SkipWithGap
          BY <4>1 DEF SkipWithGap, Pop
        <5> QED BY <1>2, <4>1, <5>2, <5>3 DEF Tasks
      <4>2. CASE ~Pop /\ ~SkipWithGap /\ ~Ready /\ ~RecoveryOverflow /\ rc' = rc
        BY <4>2
      <4>3. ~(RecoveryStart /\ rc'.pc = "fetch")
        OBVIOUS
      <4> QED BY <2>1, <2>4, <2>5, <4>1, <4>2, <4>3, TaskSteps
    <3>2. PICK X : X = Names(rc.h)
      OBVIOUS
    <3>3. Covers(L, X)
      BY <2>2, <3>1, <3>2 DEF Caught
    <3>4. \A m \in X : m \in Msgs /\ m <= posted
      BY <1>2, <3>2, StoredSaid DEF Known
    <3>5. /\ ~Pop => Covers(L, X)'
          /\ Pop => \A K \in Nat : K = Larger(L - 1, 0) => Covers(K, X)'
      BY <2>4, <3>1, <3>3, <3>4, CoversStep
    <3>6. CASE Pop
      <4>1. M = Larger(L - 1, 0)
        BY <2>2, <3>6, QueueGrows DEF Larger
      <4>2. Covers(M, X)'
        BY <3>5, <3>6, <4>1
      <4> QED BY <2>2, <3>1, <3>2, <4>2
    <3>7. CASE ~Pop
      <4>1. L <= M /\ Covers(L, X)'
        BY <2>2, <3>1, <3>5, <3>7, QueueGrows
      <4>2. Covers(M, X)'
        BY <4>1, LaterStep
      <4> QED BY <2>2, <3>1, <3>2, <4>2
    <3> QED BY <3>6, <3>7
  <2> QED BY <2>1, <2>3, <2>4, <2>5, TaskSteps
<1>8. Draining' => rc'.left <= Len(q') /\ (rc'.full => Covers(rc.left, {})')
  <2> SUFFICES ASSUME Draining'
               PROVE  rc'.left <= Len(q') /\ (rc'.full => Covers(rc.left, {})')
    OBVIOUS
  <2>1. Working'
    BY DEF Working, Draining
  <2>2. PICK E \in {{}} : E = {}
    OBVIOUS
  <2>3. PICK L \in Nat, M \in Nat : L = Len(q) /\ M = Len(q')
    BY QueueGrows
  <2>4. CASE RecoveryAppend
    <3>1. PICK es \in Seq(Events) : es = rc.h
      BY Lens
    <3>2. /\ q' = q \o es /\ rc'.left = Len(q) + Len(es) /\ rc'.full = rc.full
          /\ rc.ok /\ rc.pc \in {"append", "card"}
      BY <2>4, <3>1, AppendFacts
    <3>3. Len(q') = Len(q) + Len(es)
      BY <3>2, Behind
    <3>4. ASSUME rc.full PROVE Covers(M, {})'
      <4>1. CASE rc.pc = "append"
        <5>1. PICK X : X = Names(rc.h)
          OBVIOUS
        <5>2. Covers(Len(q), X)
          BY <3>2, <3>4, <4>1, <5>1 DEF Caught
        <5>3. \A K \in Nat : K = Len(q') => Covers(K, {})'
          BY <2>4, <5>1, <5>2, AppendStep
        <5> QED BY <2>3, <5>3
      <4>2. CASE rc.pc = "card"
        <5>1. rc.left <= Len(q) /\ Covers(rc.left, E)
          BY <2>2, <3>2, <3>4, <4>2 DEF Caught, Draining
        <5>2. PICK s \in Seq(Events) : s = Line
          BY LineFacts
        <5>9. PICK S : S = Stored \cup E
          OBVIOUS
        <5>3. PICK K \in Nat : K = rc.left
          BY <1>2
        <5>4. Ordered(S, s, K) /\ K <= L
          BY <2>3, <5>1, <5>2, <5>3, <5>9 DEF Covers
        <5>5. Ordered(S, s, L)
          BY <5>4, OrderedLater
        <5>6. Covers(Len(q), E)
          BY <2>3, <5>1, <5>2, <5>5, <5>9 DEF Covers
        <5>7. Names(rc.h) \subseteq Stored
          BY <3>1, <4>2, FirstsFacts DEF Known, Names, Firsts, Stored, Events
        <5>8. \A J \in Nat : J = Len(q') => Covers(J, {})'
          BY <2>2, <2>4, <5>6, <5>7, AppendStep
        <5> QED BY <2>3, <5>8
      <4> QED BY <3>2, <4>1, <4>2
    <3> QED BY <2>3, <3>2, <3>3, <3>4
  <2>5. ASSUME ~RecoveryAppend PROVE rc'.left <= Len(q') /\ (rc'.full => Covers(rc.left, {})')
    <3>1. ~(RecoveryStart /\ rc'.pc = "fetch") /\ ~RecoveryFetch
      <4>1. RecoveryFetch => rc'.pc = "append"
        BY <1>2 DEF RecoveryFetch, Tasks
      <4> QED BY <4>1 DEF Draining
    <3>2. PICK K \in Nat : K = rc.left
      BY <1>2
    <3>3. CASE Pop /\ rc' = [rc EXCEPT !.left = Larger(rc.left - 1, 0)]
      <4>1. rc'.pc = rc.pc /\ rc'.ok = rc.ok /\ rc'.full = rc.full /\ rc'.left = Larger(K - 1, 0)
        BY <1>2, <3>2, <3>3 DEF Tasks
      <4>2. ~Ready /\ ~RecoveryOverflow /\ ~SkipWithGap
        <5>1. rc'.ok /\ Outdate(rc).ok = FALSE /\ NoTask.ok = FALSE
          BY Task DEF Draining
        <5> QED BY <3>3, <5>1 DEF Ready, RecoveryOverflow, FailedAfter, SkipWithGap, Pop
      <4>3. K <= Len(q) /\ (rc.full => Covers(K, E))
        BY <2>2, <3>2, <4>1 DEF Caught, Draining
      <4>4. PICK J \in Nat : J = Larger(K - 1, 0)
        BY DEF Larger
      <4>5. J <= Len(q')
        BY <3>3, <4>3, <4>4, QueueGrows DEF Larger
      <4>6. rc.full => Covers(J, E)'
        <5>1. ASSUME Covers(K, E) PROVE Covers(J, E)'
          <6>1. \A m \in E : m \in Msgs /\ m <= posted
            BY <2>2
          <6>2. \A I \in Nat : I = Larger(K - 1, 0) => Covers(I, E)'
            BY <2>5, <3>3, <4>2, <5>1, <6>1, CoversStep
          <6> QED BY <4>4, <6>2
        <5> QED BY <4>3, <5>1
      <4> QED BY <2>2, <4>1, <4>4, <4>5, <4>6
    <3>4. ASSUME ~Pop, ~SkipWithGap, ~Ready, ~RecoveryOverflow, Draining,
                 rc'.left = rc.left, rc'.full = rc.full
          PROVE  rc'.left <= Len(q') /\ (rc'.full => Covers(rc.left, {})')
      <4>1. K <= Len(q) /\ (rc.full => Covers(K, E)) /\ rc'.left = K /\ rc'.full = rc.full
        BY <2>2, <3>2, <3>4 DEF Caught
      <4>2. K <= Len(q')
        BY <3>4, <4>1, QueueGrows
      <4>3. rc.full => Covers(K, E)'
        <5>1. ASSUME Covers(K, E) PROVE Covers(K, E)'
          <6>1. \A m \in E : m \in Msgs /\ m <= posted
            BY <2>2
          <6> QED BY <2>5, <3>4, <5>1, <6>1, CoversStep
        <5> QED BY <4>1, <5>1
      <4> QED BY <2>2, <4>1, <4>2, <4>3
    <3>5. CASE RecoveryRead
      <4>1. rc.pc = "cards" /\ rc.ok /\ UNCHANGED <<gw, q>>
        BY <3>5 DEF RecoveryRead, RecoveryRest, wire
      <4>2. ~Pop /\ ~SkipWithGap
        BY <4>1, HeadFacts DEF Pop, SkipWithGap, PopHead, Heading
      <4>3. ~Ready /\ ~RecoveryOverflow /\ Draining
        BY <4>1 DEF Ready, RecoveryOverflow, Draining
      <4> QED BY <3>4, <3>5, <4>2, <4>3, CardFacts
    <3>6. CASE ~Pop /\ ~SkipWithGap /\ ~Ready /\ ~RecoveryOverflow /\ rc' = rc
      <4>1. Draining
        BY <3>6 DEF Draining
      <4> QED BY <3>4, <3>6, <4>1
    <3> QED BY <2>1, <2>5, <3>1, <3>3, <3>5, <3>6, TaskSteps
  <2> QED BY <2>4, <2>5
<1> QED BY <1>6, <1>7, <1>8 DEF Caught

-----------------------------------------------------------------------------
(* What the backend is told.                                               *)
LEMMA AnnounceNone ==
    ASSUME Typed, barrier => st' \in SourceStates, Send(<<>>), NEW S, NEW T,
           Backed(row, sock, S, T), st' = "ready" => Down(S) /\ Down(S \cup T)
    PROVE  /\ Backed(row, sock', S, T) /\ barrier' = FALSE
           /\ barrier => (LastReady(row, sock') => st' = "ready")
           /\ ~barrier => sock' = sock
<1>1. PICK s \in Seq(Frames) : s = sock
  BY DEF Typed, PipeTyped
<1>2. CASE barrier
  <2>1. PICK c \in SourceStates : c = st'
    BY <1>2
  <2>2. sock' = Append(s, StateFrame(c)) /\ barrier' = FALSE
    BY <1>1, <1>2, <2>1, SendNone
  <2>3. PICK r : r = row
    OBVIOUS
  <2>4. Backed(r, s, S, T) /\ (c = "ready" => Down(S) /\ Down(S \cup T))
    BY <1>1, <2>1, <2>3
  <2>5. /\ Backed(r, Append(s, StateFrame(c)), S, T)
        /\ LastReady(r, Append(s, StateFrame(c))) <=> c = "ready"
    BY <2>4, SendsState
  <2> QED BY <1>2, <2>1, <2>2, <2>3, <2>5
<1>3. CASE ~barrier
  BY <1>3, SendNone
<1> QED BY <1>2, <1>3

LEMMA AnnounceState ==
    ASSUME Typed, st' \in SourceStates, Send(ChannelFrame), NEW S, NEW T,
           Backed(row, sock, S, T), st' = "ready" => Down(S) /\ Down(S \cup T)
    PROVE  Backed(row, sock', S, T) /\ (LastReady(row, sock') => st' = "ready") /\ barrier' = FALSE
<1>1. PICK s \in Seq(Frames) : s = sock
  BY DEF Typed, PipeTyped
<1>2. PICK c \in SourceStates : c = st'
  OBVIOUS
<1>3. PICK r : r = row
  OBVIOUS
<1>4. PICK f \in Frames : f = StateFrame(c)
  BY FrameFacts
<1>5. Backed(r, s, S, T) /\ (c = "ready" => Down(S) /\ Down(S \cup T))
  BY <1>1, <1>2, <1>3
<1>6. ASSUME NEW u \in Seq(Frames), Backed(r, u, S, T)
      PROVE  /\ Append(u, f) \in Seq(Frames) /\ Backed(r, Append(u, f), S, T)
             /\ LastReady(r, Append(u, f)) <=> c = "ready"
  BY <1>4, <1>5, <1>6, SendsState
<1>7. PICK u \in Seq(Frames) : u = Append(s, f) /\ Backed(r, u, S, T) /\ (LastReady(r, u) <=> c = "ready")
  BY <1>5, <1>6
<1>8. Backed(r, Append(u, f), S, T) /\ (LastReady(r, Append(u, f)) <=> c = "ready")
  BY <1>6, <1>7
<1>9. /\ barrier' = FALSE
      /\ sock' = IF barrier THEN Append(u, f) ELSE u
  BY <1>1, <1>2, <1>4, <1>7, SendState
<1> QED BY <1>2, <1>3, <1>7, <1>8, <1>9

LEMMA AnnounceEvent ==
    ASSUME Typed, NEW e \in Events, Send(<<e>>), st' = st, NEW S, NEW T,
           Backed(row, sock, S, T), st = "ready" => Down(S) /\ Down(S \cup T),
           ~barrier /\ LastReady(row, sock) => Down(S \cup T)
    PROVE  /\ Backed(row, sock', S, T) /\ barrier' = FALSE
           /\ barrier => (LastReady(row, sock') => st = "ready")
           /\ ~barrier => (LastReady(row, sock') => LastReady(row, sock))
<1>1. PICK s \in Seq(Frames) : s = sock
  BY DEF Typed, PipeTyped
<1>2. PICK r : r = row
  OBVIOUS
<1>3. e \in Frames
  BY FrameFacts
<1>4. barrier => st \in SourceStates
  BY DEF Typed, PipeTyped, ClientTyped
<1>5. /\ barrier' = FALSE
      /\ sock' = IF barrier THEN Append(Append(s, StateFrame(st)), e) ELSE Append(s, e)
  BY <1>1, <1>3, <1>4, SendOne
<1>6. CASE ~barrier
  <2>1. Backed(r, s, S, T) /\ (LastReady(r, s) => Down(S \cup T))
    BY <1>1, <1>2, <1>6
  <2>2. Backed(r, Append(s, e), S, T) /\ (LastReady(r, Append(s, e)) <=> LastReady(r, s))
    BY <2>1, SendsEvent
  <2> QED BY <1>1, <1>2, <1>5, <1>6, <2>2
<1>7. CASE barrier
  <2>1. PICK c \in SourceStates : c = st
    BY <1>4, <1>7
  <2>2. Backed(r, s, S, T) /\ (c = "ready" => Down(S) /\ Down(S \cup T))
    BY <1>1, <1>2, <2>1
  <2>3. PICK u \in Seq(Frames) : /\ u = Append(s, StateFrame(c)) /\ Backed(r, u, S, T)
                                 /\ LastReady(r, u) <=> c = "ready"
    BY <2>2, SendsState
  <2>4. LastReady(r, u) => Down(S \cup T)
    BY <2>2, <2>3
  <2>5. Backed(r, Append(u, e), S, T) /\ (LastReady(r, Append(u, e)) <=> LastReady(r, u))
    BY <2>3, <2>4, SendsEvent
  <2> QED BY <1>2, <1>5, <1>7, <2>1, <2>3, <2>5
<1> QED BY <1>6, <1>7

(* While an event is in transit the head of the outbox stays.              *)
LEMMA EventsKeepDue ==
    ASSUME Typed, Known, Heading, Next, NEW i \in 1 .. Len(sock'), IsEvent(sock'[i])
    PROVE  Due' = Due
<1>1. ~Pop
  BY SockSteps
<1>2. CASE \E j \in 1 .. Len(sock) : sock'[i] = sock[j]
  <2>1. q # <<>> /\ cache[q[1].m] # Nothing
    BY <1>2 DEF Heading
  <2>2. ~SkipWithGap
    BY <2>1, HeadFacts DEF SkipWithGap, NeedsRead
  <2> QED BY <1>1, <2>1, <2>2, HeadKept DEF Due
<1>3. CASE Deliver
  BY <1>3 DEF Deliver, Due
<1> QED BY <1>2, <1>3, SockSteps

(* A step to "ready" is taken only when nothing is missing.                *)
LEMMA ReadyIsGood ==
    ASSUME Typed, Anchored, Caught, Next, st' = "ready"
    PROVE  Good
<1>1. anchor' = Nothing \/ (st = "ready" /\ anchor' = anchor)
  BY ChannelSteps
<1>2. anchor' = Nothing => anchor = Nothing \/ (rc.pc = "drain" /\ Working /\ rc.left = 0 /\ rc.full)
  BY ChannelSteps, Numbers
<1>3. anchor = Nothing \/ (rc.pc = "drain" /\ rc.ok /\ rc.left = 0 /\ rc.full)
  BY <1>1, <1>2 DEF Anchored, Working
<1> QED BY <1>3 DEF Caught, Good, Draining

(* The steps that send, or may send, a state of the channel.               *)
LEMMA SendSteps ==
    ASSUME Typed, Next
    PROVE  /\ OnReady \/ PublishBarrier =>
                 /\ UNCHANGED <<row, db, link>> /\ (barrier => st' \in SourceStates)
                 /\ (Send(<<>>) /\ Connected) \/ (UNCHANGED <<sock, barrier>> /\ ~Connected)
           /\ Configure =>
                 UNCHANGED <<row, db>> /\ st' \in SourceStates /\ Send(ChannelFrame)
           /\ RecoveryStart \/ RecoveryOverflow \/ RecoveryDone \/ RecoveryFail \/ SkipWithGap =>
                 /\ UNCHANGED <<row, db, link>> /\ st' \in SourceStates
                 /\ (Send(ChannelFrame) /\ Connected) \/ (UNCHANGED <<sock, barrier>> /\ ~Connected)
<1> USE DEF disc, wire, box, chan, client, pipe, go, RecoveryRest, DeliverRest, ServeRest,
            DispatchRest
<1>1. /\ (barrier => st \in SourceStates) /\ st \in {"none"} \cup SourceStates
      /\ {"recovering", "gap", "ready"} \subseteq SourceStates
  BY DEF Typed, PipeTyped, ClientTyped, SourceStates
<1>2. ASSUME OnReady \/ PublishBarrier
      PROVE  /\ UNCHANGED <<row, db, link>> /\ (barrier => st' \in SourceStates)
             /\ (Send(<<>>) /\ Connected) \/ (UNCHANGED <<sock, barrier>> /\ ~Connected)
  BY <1>1, <1>2 DEF OnReady, PublishBarrier
<1>3. ASSUME Configure
      PROVE  UNCHANGED <<row, db>> /\ st' \in SourceStates /\ Send(ChannelFrame)
  BY <1>1, <1>3 DEF Configure, Schedule
<1>4. ASSUME RecoveryStart \/ RecoveryOverflow \/ RecoveryDone \/ RecoveryFail \/ SkipWithGap
      PROVE  /\ UNCHANGED <<row, db, link>> /\ st' \in SourceStates
             /\ (Send(ChannelFrame) /\ Connected) \/ (UNCHANGED <<sock, barrier>> /\ ~Connected)
  <2>1. UNCHANGED <<row, db, link>>
    BY <1>4 DEF RecoveryStart, RecoveryOverflow, RecoveryDone, RecoveryFail, FailedAfter,
       SkipWithGap
  <2>2. /\ st' \in SourceStates
        /\ (Send(ChannelFrame) /\ Connected) \/ (UNCHANGED <<sock, barrier>> /\ ~Connected)
    BY <1>1, <1>4 DEF RecoveryStart, RecoveryOverflow, RecoveryDone, RecoveryFail, FailedAfter,
       SkipWithGap, ChannelStatus
  <2> QED BY <2>1, <2>2
<1> QED BY <1>2, <1>3, <1>4

(* Deliver sends the head, behind the state that a READY still owes.       *)
LEMMA DeliverSends ==
    ASSUME Typed, Known, Deliver
    PROVE  \E e \in Events : Send(<<e>>)
<1>1. q # <<>>
  BY DEF Deliver
<1>2. e0.k \in {"create", "update"} /\ e0.m \in Msgs
  BY <1>1, HeadFacts
<1>3. PICK v \in {0, 1, 2} : v = Hydrated(cache[e0.m], e0)
  BY <1>1, HydratedFacts
<1>4. Event(e0.k, e0.m, v) \in Events
  BY <1>2 DEF Event, Events
<1>5. Send(<<Event(e0.k, e0.m, v)>>)
  BY <1>3 DEF Deliver
<1> QED BY <1>4, <1>5

(* Every step keeps what stands behind a state that says "ready".          *)
LEMMA BackedStep ==
    ASSUME Typed, Known, Heading, Anchored, Caught, Announced, Next
    PROVE  \A T : T = Due => Backed(row, sock, Stored, T)'
<1> USE DEF disc, wire, box, chan, client, pipe, go, RecoveryRest, DeliverRest, ServeRest,
            DispatchRest
<1>1. PICK S : S = Stored
  OBVIOUS
<1>2. PICK r : r = row
  OBVIOUS
<1>3. PICK s \in Seq(Frames) : s = sock
  BY DEF Typed, PipeTyped
<1> SUFFICES ASSUME NEW T, T = Due PROVE Backed(row, sock, Stored, T)'
  OBVIOUS
<1>4. Backed(r, s, S, T)
  BY <1>1, <1>2, <1>3 DEF Announced
<1>5. Good => Down(S) /\ Down(S \cup T)
  BY <1>1, GoodDown
<1>6. st' = "ready" => Down(S) /\ Down(S \cup T)
  BY <1>5, ReadyIsGood
<1>7. ASSUME row' = row, db' = db, Backed(r, sock', S, T) PROVE Backed(row, sock, Stored, T)'
  <2>1. Stored' = S
    BY <1>1, <1>7 DEF Stored
  <2> QED BY <1>2, <1>7, <2>1 DEF Backed
<1>8. CASE OnReady \/ PublishBarrier
  <2>1. Backed(row, sock, S, T)
    BY <1>2, <1>3, <1>4
  <2>2. CASE Send(<<>>)
    BY <1>2, <1>6, <1>7, <1>8, <2>1, <2>2, SendSteps, AnnounceNone
  <2>3. CASE UNCHANGED <<sock, barrier>>
    BY <1>3, <1>4, <1>7, <1>8, <2>3, SendSteps
  <2> QED BY <1>8, <2>2, <2>3, SendSteps
<1>9. CASE Configure \/ RecoveryStart \/ RecoveryOverflow \/ RecoveryDone \/ RecoveryFail \/ SkipWithGap
  <2>1. Backed(row, sock, S, T)
    BY <1>2, <1>3, <1>4
  <2>2. UNCHANGED <<row, db>> /\ st' \in SourceStates /\ (Send(ChannelFrame) \/ UNCHANGED <<sock, barrier>>)
    BY <1>9, SendSteps
  <2>3. CASE Send(ChannelFrame)
    BY <1>2, <1>6, <1>7, <2>1, <2>2, <2>3, AnnounceState
  <2>4. CASE UNCHANGED <<sock, barrier>>
    BY <1>3, <1>4, <1>7, <2>2, <2>4
  <2> QED BY <2>2, <2>3, <2>4
<1>10. CASE Deliver
  <2>1. PICK e \in Events : Send(<<e>>)
    BY <1>10, DeliverSends
  <2>2. st' = st /\ link = "conf" /\ UNCHANGED <<row, db>>
    BY <1>10 DEF Deliver
  <2>3. st = "ready" => Down(S) /\ Down(S \cup T)
    BY <1>6, <2>2
  <2>4. ~barrier /\ LastReady(row, sock) => Down(S \cup T)
    BY <1>5, <2>2 DEF Announced
  <2>5. Backed(row, sock, S, T)
    BY <1>2, <1>3, <1>4
  <2>6. Backed(row, sock', S, T)
    BY <2>1, <2>2, <2>3, <2>4, <2>5, AnnounceEvent
  <2> QED BY <1>2, <1>7, <2>2, <2>6
<1>11. CASE Pop
  <2>1. /\ sock' = [i \in DOMAIN s |-> IF s[i].k = "channel" THEN s[i] ELSE Old]
        /\ UNCHANGED <<row, db>>
    BY <1>3, <1>11 DEF Pop
  <2>2. PICK u \in Seq(Frames) : u = sock'
    BY PipeStep DEF PipeTyped
  <2>3. Len(u) = Len(s) /\ DOMAIN s = 1 .. Len(s)
    BY <2>1, <2>2
  <2>4. \A i \in 1 .. Len(s) : /\ ~IsEvent(u[i]) /\ (IsState(u[i]) <=> IsState(s[i]))
                               /\ IsState(s[i]) => u[i] = s[i]
    <3>1. \A i \in 1 .. Len(s) : u[i] = (IF s[i].k = "channel" THEN s[i] ELSE Old)
      BY <2>1, <2>2, <2>3
    <3> QED BY <3>1, FrameFacts DEF IsEvent, IsState
  <2>5. Backed(r, u, S, T)
    BY <1>4, <2>3, <2>4, NoEvents
  <2> QED BY <1>7, <2>1, <2>2, <2>5
<1>12. CASE Serve
  <2>1. s # <<>> /\ sock' = Tail(s) /\ s[1] \in Frames /\ Head(s) = s[1] /\ 1 \in 1 .. Len(s)
    BY <1>3, <1>12, TailFrame DEF Serve
  <2>2. CASE IsState(s[1])
    <3>1. row' = s[1].s /\ db' = db
      BY <1>3, <1>12, <2>1, <2>2, FrameFacts DEF Serve, IsState, IsEvent
    <3>2. Backed(s[1].s, Tail(s), S, T)
      BY <1>4, <2>1, <2>2, ReadsState
    <3>3. Stored' = S
      BY <1>1, <3>1 DEF Stored
    <3> QED BY <2>1, <3>1, <3>2, <3>3 DEF Backed
  <2>3. CASE ~IsState(s[1])
    <3>1. row' = row \/ (row = "none" /\ row' = "unknown")
      BY <1>3, <1>12, <2>1, <2>3 DEF Serve, IsState
    <3>2. PICK w : w = row'
      OBVIOUS
    <3>3. PICK U : U = Stored'
      OBVIOUS
    <3>4. w = "ready" => r = "ready"
      BY <1>2, <3>1, <3>2
    <3>5. U = S \/ (U = S \cup T /\ IsEvent(s[1]))
      <4>1. IsEvent(s[1]) => T = {s[1].m}
        BY <1>3, <2>1 DEF Heading, Due
      <4> QED BY <1>1, <1>3, <3>3, <4>1, StoreGrows
    <3>6. Backed(w, Tail(s), U, T)
      BY <1>4, <2>1, <2>3, <3>4, <3>5, ReadsOther
    <3> QED BY <2>1, <3>2, <3>3, <3>6 DEF Backed
  <2> QED BY <2>2, <2>3
<1>13. CASE Disconnect
  <2>1. sock' = <<>> /\ UNCHANGED <<row, db>>
    BY <1>13 DEF Disconnect
  <2>2. r = "ready" => Down(S)
    <3>1. 0 \in 0 .. Len(s)
      BY LenProperties
    <3> QED BY <1>4, <3>1 DEF Backed, ReadyAt
  <2>3. Backed(r, <<>>, S, T)
    BY <2>2, NothingSent
  <2> QED BY <1>7, <2>1, <2>3
<1>14. CASE Post \/ Edit \/ Ready \/ Resume \/ Connect \/ Status \/ RecoveryFetch \/ RecoveryAppend
            \/ RecoveryRead \/ RecoveryOutdated \/ RecoveryRetry \/ Acked \/ Undelivered \/ Late \/ DispatchCheck
            \/ DispatchPick \/ Handle \/ EndOfStream \/ Cut \/ CollectorCrash
  <2>1. UNCHANGED <<row, db, sock>>
    BY <1>14 DEF Post, Edit, Emit, Ready, Resume, Connect, Status, RecoveryFetch, RecoveryAppend,
       RecoveryRead, RecoveryOutdated, RecoveryRetry, Acked, Undelivered, Late, Resend, DispatchCheck,
       DispatchPick, Handle, EndOfStream, Cut, CollectorCrash
  <2> QED BY <1>3, <1>4, <1>7, <2>1
<1> QED BY <1>8, <1>9, <1>10, <1>11, <1>12, <1>13, <1>14, Steps

(* Every step keeps what the backend was told.                             *)
LEMMA AnnouncedStep ==
    ASSUME Typed, Known, Heading, Anchored, Caught, Announced, Next
    PROVE  Announced'
<1> USE DEF disc, wire, box, chan, client, pipe, go, RecoveryRest, DeliverRest, ServeRest,
            DispatchRest
<1>1. Backed(row, sock, Stored, Due)'
  <2>1. PICK T : T = Due
    OBVIOUS
  <2>2. Backed(row, sock, Stored, T)'
    BY <2>1, BackedStep
  <2>3. PICK s \in Seq(Frames) : s = sock'
    BY PipeStep DEF PipeTyped
  <2>4. PICK r : r = row'
    OBVIOUS
  <2>5. PICK S : S = Stored'
    OBVIOUS
  <2>6. PICK V : V = Due'
    OBVIOUS
  <2>7. Backed(r, s, S, T)
    BY <2>2, <2>3, <2>4, <2>5 DEF Backed
  <2>8. Backed(r, s, S, V)
    <3>1. CASE \E i \in 1 .. Len(sock') : IsEvent(sock'[i])
      <4>1. V = T
        BY <2>1, <2>6, <3>1, EventsKeepDue
      <4> QED BY <2>7, <4>1
    <3>2. CASE ~\E i \in 1 .. Len(sock') : IsEvent(sock'[i])
      <4>1. \A i \in 1 .. Len(s) : ~IsEvent(s[i])
        BY <2>3, <3>2
      <4> QED BY <2>7, <4>1, NoEvents
    <3> QED BY <3>1, <3>2
  <2> QED BY <2>3, <2>4, <2>5, <2>6, <2>8 DEF Backed
<1>2. Anchored' /\ Caught'
  BY AnchoredStep, CaughtStep
<1>3. ASSUME st' = "ready" PROVE Good' /\ ~Working'
  BY <1>2, <1>3 DEF Anchored, Caught
<1> SUFFICES ASSUME link' = "conf", ~barrier', LastReady(row', sock') PROVE Good' /\ ~Working'
  BY <1>1 DEF Announced
<1>4. ASSUME LastReady(row, sock), link = "conf", ~barrier, ~Ready, ~SkipWithGap, ~RecoveryStart
      PROVE  Good' /\ ~Working'
  <2>1. Good /\ ~Working
    BY <1>4 DEF Announced
  <2>2. ~RecoveryAppend /\ ~RecoveryOverflow
    BY <2>1 DEF RecoveryAppend, RecoveryOverflow, Working
  <2>3. ~Working'
    BY <1>4, <2>1, TaskSteps
  <2> QED BY <1>4, <2>1, <2>2, <2>3, GoodStep
<1>5. PICK S : S = Stored
  OBVIOUS
<1>6. PICK T : T = Due
  OBVIOUS
<1>7. Backed(row, sock, S, T) /\ (Good => Down(S) /\ Down(S \cup T))
  BY <1>5, <1>6, GoodDown DEF Announced
<1>8. st' = "ready" => Down(S) /\ Down(S \cup T)
  BY <1>7, ReadyIsGood
<1>9. Connected <=> link \in {"up", "conf"}
  BY DEF Connected
<1>10. CASE OnReady \/ PublishBarrier
  <2>1. Connected /\ link = "conf"
    BY <1>9, <1>10, SendSteps
  <2>2. Send(<<>>) /\ (barrier => st' \in SourceStates) /\ row' = row
    BY <1>10, <2>1, SendSteps
  <2>3. /\ barrier => (LastReady(row, sock') => st' = "ready")
        /\ ~barrier => sock' = sock
    BY <1>7, <1>8, <2>2, AnnounceNone
  <2>4. ~Ready /\ ~SkipWithGap /\ ~RecoveryStart
    <3>1. UNCHANGED <<rc, sched>> \/ rc' = Outdate(rc)
      BY <1>10 DEF OnReady, PublishBarrier
    <3>2. CASE OnReady
      BY <3>2 DEF OnReady, Ready, SkipWithGap, RecoveryStart, PopHead
    <3>3. CASE PublishBarrier
      BY <3>3 DEF PublishBarrier, Ready, SkipWithGap, RecoveryStart, PopHead
    <3> QED BY <1>10, <3>2, <3>3
  <2> QED BY <1>3, <1>4, <2>1, <2>2, <2>3, <2>4
<1>11. CASE Configure \/ RecoveryStart \/ RecoveryOverflow \/ RecoveryDone \/ RecoveryFail \/ SkipWithGap
  <2>1. st' \in SourceStates /\ Send(ChannelFrame) /\ row' = row
    <3>1. CASE Configure
      BY <3>1, SendSteps
    <3>2. CASE ~Configure
      <4>1. Connected
        BY <1>9, <1>11, <3>2, SendSteps
      <4> QED BY <1>11, <3>2, <4>1, SendSteps
    <3> QED BY <3>1, <3>2
  <2>2. LastReady(row, sock') => st' = "ready"
    BY <1>7, <1>8, <2>1, AnnounceState
  <2> QED BY <1>3, <2>1, <2>2
<1>12. CASE ~(OnReady \/ PublishBarrier \/ Configure \/ RecoveryStart \/ RecoveryOverflow
              \/ RecoveryDone \/ RecoveryFail \/ SkipWithGap \/ Deliver \/ Pop \/ Serve)
  <2>1. CASE Ready \/ Connect \/ EndOfStream \/ CollectorCrash \/ Disconnect
    <3>1. link' # "conf" \/ barrier'
      BY <2>1 DEF Ready, Connect, EndOfStream, CollectorCrash, Disconnect
    <3> QED BY <3>1
  <2>2. CASE ~(Ready \/ Connect \/ EndOfStream \/ CollectorCrash \/ Disconnect)
    <3>1. UNCHANGED <<row, sock, link, barrier>>
      BY <1>12, <2>2, Steps DEF Post, Edit, Emit, Resume, Status, RecoveryFetch, RecoveryAppend,
         RecoveryRead, RecoveryOutdated, RecoveryRetry, Acked, Undelivered, Late, Resend, DispatchCheck,
         DispatchPick, Handle, Cut
    <3> QED BY <1>4, <1>12, <2>2, <3>1
  <2> QED BY <2>1, <2>2
<1>13. CASE Deliver
  <2>1. q # <<>> /\ link = "conf" /\ st' = st /\ UNCHANGED <<row, q>>
    BY <1>13 DEF Deliver
  <2>2. PICK e \in Events : Send(<<e>>)
    BY <1>13, DeliverSends
  <2>3. st = "ready" => Down(S) /\ Down(S \cup T)
    BY <1>8, <2>1
  <2>4. ~barrier /\ LastReady(row, sock) => Down(S \cup T)
    BY <1>7, <2>1 DEF Announced
  <2>5. /\ barrier => (LastReady(row, sock') => st = "ready")
        /\ ~barrier => (LastReady(row, sock') => LastReady(row, sock))
    BY <1>7, <2>1, <2>2, <2>3, <2>4, AnnounceEvent
  <2>6. ~Ready /\ ~SkipWithGap /\ ~RecoveryStart
    BY <1>13 DEF Deliver, Ready, SkipWithGap, RecoveryStart, PopHead
  <2> QED BY <1>3, <1>4, <2>1, <2>5, <2>6
<1>14. CASE Pop
  <2>1. /\ sock' = [i \in DOMAIN sock |-> IF sock[i].k = "channel" THEN sock[i] ELSE Old]
        /\ UNCHANGED <<row, link, barrier, st>> /\ dl = "acked" /\ dl' = "idle"
    BY <1>14 DEF Pop, PopHead
  <2>2. PICK s \in Seq(Frames), u \in Seq(Frames) : s = sock /\ u = sock'
    BY PipeStep DEF PipeTyped, Typed
  <2>3. Len(u) = Len(s) /\ DOMAIN s = 1 .. Len(s)
    BY <2>1, <2>2
  <2>4. \A i \in 1 .. Len(s) : /\ ~IsEvent(u[i]) /\ (IsState(u[i]) <=> IsState(s[i]))
                               /\ IsState(s[i]) => u[i] = s[i]
    <3>1. \A i \in 1 .. Len(s) : u[i] = (IF s[i].k = "channel" THEN s[i] ELSE Old)
      BY <2>1, <2>2, <2>3
    <3> QED BY <3>1, FrameFacts DEF IsEvent, IsState
  <2>5. PICK r : r = row
    OBVIOUS
  <2>6. LastReady(r, u) => LastReady(r, s)
    <3>1. Backed(r, s, S, T)
      BY <1>7, <2>2, <2>5
    <3> QED BY <2>3, <2>4, <3>1, NoEvents
  <2>7. ~Ready /\ ~SkipWithGap /\ ~RecoveryStart
    BY <1>14 DEF Pop, Ready, SkipWithGap, RecoveryStart
  <2> QED BY <1>4, <2>1, <2>2, <2>5, <2>6, <2>7
<1>15. CASE Serve
  <2>1. PICK s \in Seq(Frames) : s = sock
    BY DEF Typed, PipeTyped
  <2>2. s # <<>> /\ sock' = Tail(s) /\ s[1] \in Frames /\ Head(s) = s[1]
        /\ UNCHANGED <<link, barrier>>
    BY <1>15, <2>1, TailFrame DEF Serve
  <2>3. PICK r : r = row
    OBVIOUS
  <2>4. Backed(r, s, S, T)
    BY <1>7, <2>1, <2>3
  <2>5. LastReady(r, s)
    <3>1. CASE IsState(s[1])
      <4>1. row' = s[1].s
        BY <1>15, <2>1, <2>2, <3>1, FrameFacts DEF Serve, IsState, IsEvent
      <4>2. LastReady(s[1].s, Tail(s)) => LastReady(r, s)
        BY <2>2, <2>4, <3>1, ReadsState
      <4> QED BY <2>2, <4>1, <4>2
    <3>2. CASE ~IsState(s[1])
      <4>1. row' = row \/ (row = "none" /\ row' = "unknown")
        BY <1>15, <2>1, <2>2, <3>2 DEF Serve, IsState
      <4>2. PICK w : w = row'
        OBVIOUS
      <4>3. w = "ready" => r = "ready"
        BY <2>3, <4>1, <4>2
      <4>4. PICK U : U = S
        OBVIOUS
      <4>5. LastReady(w, Tail(s)) => LastReady(r, s)
        BY <2>2, <2>4, <3>2, <4>3, <4>4, ReadsOther
      <4> QED BY <2>2, <4>2, <4>5
    <3> QED BY <3>1, <3>2
  <2>6. ~Ready /\ ~SkipWithGap /\ ~RecoveryStart
    <3>1. UNCHANGED <<q, sched, barrier>>
      BY <1>15 DEF Serve
    <3> QED BY <3>1, HeadFacts DEF Ready, SkipWithGap, PopHead, RecoveryStart
  <2> QED BY <1>4, <2>1, <2>2, <2>3, <2>5, <2>6
<1> QED BY <1>10, <1>11, <1>12, <1>13, <1>14, <1>15

-----------------------------------------------------------------------------
(* The invariant of the message source is inductive.                       *)

LEMMA SourceInit == MessageSourceAssumption /\ Init => SourceInv
<1> SUFFICES ASSUME MessageSourceAssumption, Init PROVE SourceInv
  OBVIOUS
<1>1. <<>> \in Seq(Events) /\ <<>> \in Seq(Frames) /\ Len(<<>>) = 0 /\ Names(<<>>) = {}
  BY NoEvent
<1>2. NoTask \in Tasks /\ NoTask.pc = "idle" /\ NoTask.h = <<>> /\ NoTask.todo = {}
  BY <1>1 DEF NoTask, Tasks
<1>3. posted = 0 /\ anchor = Nothing /\ q = <<>> /\ sock = <<>> /\ missed = <<>> /\ ckpt = 0
      /\ rc = NoTask /\ row = "none" /\ gw = "off" /\ cards = {} /\ edited = 0
  BY DEF Init
<1>4. Typed
  <2>1. DiscordTyped
    BY <1>1 DEF Init, DiscordTyped, MessageSourceAssumption
  <2>2. BoxTyped
    BY <1>1 DEF Init, BoxTyped, Versions, MessageSourceAssumption
  <2>3. ClientTyped
    BY <1>2 DEF Init, ClientTyped, WorkerStates
  <2>4. PipeTyped
    BY <1>1 DEF Init, PipeTyped
  <2>5. BackendTyped
    <3>1. <<>> \in Seq(Revisions) /\ NoDelivery \in Jobs
      BY DEF NoDelivery, Jobs
    <3> QED BY <3>1 DEF Init, BackendTyped, Versions
  <2> QED BY <2>1, <2>2, <2>3, <2>4, <2>5 DEF Typed
<1>5. Stored = {}
  BY DEF Stored, Init
<1>6. Known
  BY <1>1, <1>2, <1>3 DEF Known, SaidIn, Init
<1>7. Stamped /\ Handed
  <2>1. dlv = <<>> /\ dp.pc = "idle" /\ DOMAIN dlv = {}
    BY DEF Init, NoDelivery
  <2>2. Handed
    BY <2>1 DEF Handed
  <2>3. Stamped
    BY <1>1, <1>3 DEF Stamped, Init, Nothing
  <2> QED BY <2>2, <2>3
<1>8. Heading
  BY <1>1 DEF Heading, Init
<1>9. Good
  <2>1. Line = <<>>
    BY <1>3 DEF Line, Waiting, Init
  <2>2. \A i \in 0 .. 0 : Firsts(<<>>, i) = {}
    BY DEF Firsts
  <2>3. Ordered({} \cup {}, <<>>, 0)
    BY <1>1, <2>2 DEF Ordered, Down
  <2> QED BY <1>3, <1>5, <2>1, <2>3 DEF Good, Covers
<1>10. Anchored
  BY <1>2, <1>3 DEF Anchored, Working, Init
<1>11. Caught
  BY <1>2, <1>3, <1>9 DEF Caught, Draining
<1>12. Announced
  <2>1. \A j \in 0 .. Len(sock) : ~ReadyAt(row, sock, j)
    BY <1>1, <1>3 DEF ReadyAt
  <2>2. ~LastReady(row, sock)
    BY <2>1 DEF LastReady, InForce
  <2>3. Backed(row, sock, Stored, Due)
    BY <1>1, <1>3, <2>1 DEF Backed
  <2> QED BY <2>2, <2>3 DEF Announced
<1> QED BY <1>4, <1>6, <1>7, <1>8, <1>10, <1>11, <1>12 DEF SourceInv

(* Nothing of it depends on anything but the variables of the source.      *)
LEMMA SourceStands ==
    ASSUME SourceInv, UNCHANGED vars
    PROVE  SourceInv' /\ NotHandedBack
<1>1. /\ UNCHANGED <<posted, edited, gw, missed, q, ckpt, anchor, cache, st, wst, isReady, onReady, barrier, sched>>
      /\ UNCHANGED <<retry, rc, cards, dl, link, ask, sock, ack, seen, row, db, dlv, dp, gst, faults>>
  BY DEF vars
<1>2. Typed'
  BY <1>1 DEF SourceInv, Typed, DiscordTyped, BoxTyped, ClientTyped, PipeTyped, BackendTyped
<1>3. Known' /\ Stamped' /\ Handed'
  BY <1>1 DEF SourceInv, Known, SaidIn, Said, Stamped, Handed, Follows, Begun
<1>4. /\ Stored' = Stored /\ Due' = Due /\ Line' = Line /\ Halted' = Halted
      /\ Working' = Working /\ Draining' = Draining
  BY <1>1 DEF Stored, Due, Line, Waiting, Halted, Working, Draining
<1>5. Heading' /\ Anchored'
  BY <1>1, <1>4 DEF SourceInv, Heading, Anchored
<1>6. Good' = Good
  BY <1>1, <1>4 DEF Good, Covers
<1>7. Caught'
  BY <1>1, <1>4, <1>6 DEF SourceInv, Caught, Covers
<1>8. Announced'
  BY <1>1, <1>4, <1>6 DEF SourceInv, Announced
<1>9. NotHandedBack
  BY <1>1 DEF NotHandedBack
<1> QED BY <1>2, <1>3, <1>5, <1>7, <1>8, <1>9 DEF SourceInv

(* Every step keeps the invariant, and hands no earlier revision back.     *)
LEMMA SourceInductive == SourceInv /\ [Next]_vars => SourceInv' /\ NotHandedBack
<1>1. ASSUME SourceInv, Next PROVE SourceInv' /\ NotHandedBack
  BY <1>1, TypedStep, KnownStep, StampedStep, HandedStep, HeadingStep, AnchoredStep, CaughtStep, AnnouncedStep
     DEF SourceInv
<1> QED BY <1>1, SourceStands

(* What the invariant is for.                                              *)
LEMMA SourceSafe == SourceInv => TypeOK /\ ReadyIsGapless
<1> SUFFICES ASSUME SourceInv PROVE TypeOK /\ ReadyIsGapless
  OBVIOUS
<1>1. TypeOK
  <2>1. \A d \in DOMAIN dlv : dlv[d].m \in Msgs /\ db[dlv[d].m] # Nothing
    BY DeliveryFacts DEF SourceInv, Handed
  <2> QED BY <2>1 DEF SourceInv, Typed, DiscordTyped, BoxTyped, BackendTyped, TypeOK, SourceStates
<1>2. ReadyIsGapless
  <2> SUFFICES ASSUME row = "ready", NEW a \in Msgs, NEW b \in Msgs, a < b, db[b] # Nothing
               PROVE  db[a] # Nothing
    BY DEF ReadyIsGapless
  <2>1. Len(sock) \in Nat
    BY LenProperties DEF SourceInv, Typed, PipeTyped
  <2>2. Down(Stored)
    BY <2>1 DEF SourceInv, Announced, Backed, ReadyAt
  <2>3. b \in Stored /\ a \in 1 .. b - 1
    BY DEF Stored, Msgs, SourceInv, Typed, MessageSourceAssumption
  <2> QED BY <2>2, <2>3 DEF Down, Stored
<1> QED BY <1>1, <1>2

-----------------------------------------------------------------------------
(* The source, from the messages of the channel to the deliveries of the   *)
(* backend: the invariant holds always, through lost sessions, fetches     *)
(* that fail, late answers and crashes of both processes.                  *)
THEOREM Invariance == MessageSourceAssumption /\ Spec => []SourceInv
BY SourceInit, SourceInductive, PTL DEF Spec

(* While the backend's row calls the channel ready, no message is missing  *)
(* below one that it has stored.                                           *)
THEOREM ReadyGapless == MessageSourceAssumption /\ Spec => []ReadyIsGapless
BY SourceSafe, Invariance, PTL

(* Once the trader has handled a revision of a message, an earlier one is  *)
(* not handed over any more, whatever their source times, however the      *)
(* texts came to be stored and whichever of the two processes restarted.   *)
THEOREM RevisionsOrdered == MessageSourceAssumption /\ Spec => RevisionsInOrder
<1>1. SourceInv /\ [Next]_vars => [NotHandedBack]_vars
  BY SourceInductive
<1> QED BY <1>1, Invariance, PTL DEF Spec, RevisionsInOrder
=============================================================================
