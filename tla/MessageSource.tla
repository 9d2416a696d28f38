--------------------------- MODULE MessageSource ---------------------------
(***************************************************************************)
(* How a Discord message reaches a trader: the Gateway session, the        *)
(* collector process (collector/worker.py, collector/core.py) with its     *)
(* durable outbox, the local socket, and the backend (discord/source.go,   *)
(* store/discord_ingest.go) with its message table, the channel's state    *)
(* row and the delivery queue of one trader.                               *)
(*                                                                         *)
(* One channel with one subscribed trader.  Messages 1 .. N are posted in  *)
(* order; the message Card may be edited once.  A session that is cut may  *)
(* be resumed, and then replays what it missed, or replaced, and then what *)
(* it missed is only in the channel's history.                             *)
(***************************************************************************)
EXTENDS Integers, Sequences, FiniteSets, SequencesExt, FiniteSetsExt

CONSTANTS N,          \* messages posted after the trader subscribed
          Card,       \* the message that may be edited
          Page,       \* messages one history read returns
          Capacity,   \* events the outbox holds
          Buffer,     \* frames in transit beyond which nothing more is sent (a bound)
          MaxFaults   \* cut sessions, crashes and failed calls, together

MessageSourceAssumption ==
    /\ N \in Nat /\ Card \in 1 .. N /\ MaxFaults \in Nat
    /\ Page \in Nat \ {0} /\ Capacity \in Nat \ {0} /\ Buffer \in Nat \ {0}

Msgs == 1 .. N
Nothing == 0 - 1

(* What is known of a message: its text, and the stamp of an edit.  0: the  *)
(* posted text, no stamp; 1: the edited text, stamped; 2: the posted text   *)
(* under the stamp of the edit.                                             *)
Text(v) == v % 2

VARIABLES
    posted,   \* the messages Discord has: 1 .. posted
    edited,   \* what was posted when Card was edited, 0: not edited
    gw,       \* the Gateway session: "off", "starting", "live", "cut"
    missed,   \* events of a cut session, replayed if it is resumed
    q,        \* outbox (durable): events in order of capture
    ckpt,     \* last delivered CREATE (durable)
    anchor,   \* where an unfinished recovery starts (durable), or Nothing
    cache,    \* the collector's copy of each message (durable), or Nothing
    st,       \* the collector's channel state, "none" after a restart
    wst,      \* the worker's state
    isReady,  \* on_ready was called on this client
    onReady,  \* an on_ready callback is due
    barrier,  \* channel states must be published before the next event
    sched,    \* recovery_pending
    retry,    \* a recovery retry is sleeping
    rc,       \* the recovery task
    cards,    \* active cards of the last configuration
    dl,       \* the deliver loop: "idle", "wait", "acked"
    link,     \* the socket: "down", "eof", "up", "conf" (configured)
    ask,      \* the backend owes a configure request
    sock,     \* frames in transit to the backend
    ack,      \* the answer in transit to the collector
    seen,     \* the event at the head of q is in discord_inbound
    row,      \* discord_source_states.state
    db,       \* the backend's copy of each message, or Nothing
    dlv,      \* the trader's deliveries, one per revision, in the order of their ids
    dp,       \* the dispatcher
    gst,      \* the backend's copy of the worker's state says "connected"
    faults    \* faults so far

disc == <<posted, edited>>
wire == <<gw, missed>>
box == <<q, ckpt, anchor, cache>>
chan == <<st, sched, retry>>
client == <<wst, isReady, onReady, cards>>
pipe == <<link, ask, sock, ack, barrier>>
go == <<row, db, dlv, gst, dp>>
vars == <<posted, edited, gw, missed, q, ckpt, anchor, cache, st, wst, isReady,
          onReady, barrier, sched, retry, rc, cards, dl, link, ask, sock, ack,
          seen, row, db, dlv, dp, gst, faults>>

NoTask == [pc |-> "idle", ok |-> FALSE, h |-> <<>>, full |-> FALSE, todo |-> {}, left |-> 0]
NoDelivery == [pc |-> "idle", d |-> 0]
Event(k, m, v) == [k |-> k, m |-> m, v |-> v]
Version(m) == IF m = Card /\ edited > 0 THEN 1 ELSE 0
Larger(a, b) == IF a > b THEN a ELSE b

Init ==
    /\ posted = 0 /\ edited = 0 /\ gw = "off" /\ missed = <<>>
    /\ q = <<>> /\ ckpt = 0 /\ anchor = Nothing /\ cache = [m \in Msgs |-> Nothing]
    /\ st = "none" /\ wst = "disabled" /\ isReady = FALSE /\ onReady = FALSE
    /\ barrier = FALSE /\ sched = FALSE /\ retry = FALSE /\ rc = NoTask /\ cards = {}
    /\ dl = "idle" /\ link = "down" /\ ask = FALSE /\ sock = <<>> /\ ack = "none"
    /\ seen = FALSE /\ row = "none" /\ db = [m \in Msgs |-> Nothing]
    /\ dlv = <<>> /\ dp = NoDelivery /\ gst = FALSE
    /\ faults = 0

Fault == faults < MaxFaults /\ faults' = faults + 1
Connected == link \in {"up", "conf"}
Halted == wst = "buffer_failed"

(* ------------------------------------------------------------------ *)
(* Discord and the Gateway session.                                     *)
(* ------------------------------------------------------------------ *)

(* Mutant: the size of the outbox is not looked at. *)
Capture_Unbounded(es) == q' = q \o es /\ wst' = wst
\* Worker.capture of a message: appended to the outbox before any callback
\* runs; an outbox that is full stops the collector for good.
Capture(es) ==
    IF Len(q) + Len(es) > Capacity
    THEN /\ q' = q \o SubSeq(es, 1, Capacity - Len(q))
         /\ wst' = "buffer_failed"
    ELSE q' = q \o es /\ wst' = wst

Emit(e) ==
    /\ IF gw = "live" /\ ~Halted THEN Capture(<<e>>) ELSE UNCHANGED <<q, wst>>
    /\ missed' = IF gw = "cut" THEN Append(missed, e) ELSE missed
    /\ UNCHANGED <<gw, ckpt, anchor, cache, chan, isReady, onReady, cards, rc, dl,
                   pipe, seen, go>>

Post == /\ posted < N /\ posted' = posted + 1 /\ UNCHANGED <<edited, faults>>
        /\ Emit(Event("create", posted + 1, 0))

Edit == /\ edited = 0 /\ Card <= posted /\ edited' = posted
        /\ UNCHANGED <<posted, faults>>
        /\ Emit(Event("update", Card, 1))

Cut == /\ gw = "live" /\ Fault /\ gw' = "cut"
       /\ wst' = IF Halted THEN wst ELSE "reconnecting"
       /\ UNCHANGED <<disc, missed, box, chan, isReady, onReady, cards, rc, dl, pipe,
                      seen, go>>

\* The session is resumed: the missed events are captured first, then
\* on_resumed asks for a configuration if a recovery is unfinished.
Resume ==
    /\ gw = "cut" /\ ~Halted /\ gw' = "live" /\ missed' = <<>>
    /\ IF Len(q) + Len(missed) > Capacity
       THEN Capture(missed) /\ ask' = ask
       ELSE /\ q' = q \o missed
            /\ wst' = IF anchor # Nothing THEN "recovering" ELSE "connected"
            /\ ask' = (ask \/ (anchor # Nothing /\ Connected))
    /\ UNCHANGED <<disc, ckpt, anchor, cache, chan, isReady, onReady, cards, rc, dl,
                   link, sock, ack, barrier, seen, go, faults>>

(* Mutant: a recovery starts from the last message delivered. *)
BeginRecovery_Latest(a) == ckpt
\* Outbox.begin_recovery: an unfinished recovery keeps its older start.
BeginRecovery(a) == IF a # Nothing THEN a ELSE ckpt

\* A new generation of the channel: no recovery in flight may report ready.
Outdate(task) == [task EXCEPT !.ok = FALSE]

\* READY: the session is new and what the old one missed is not replayed.
Ready ==
    /\ gw \in {"starting", "cut"} /\ ~Halted /\ gw' = "live" /\ missed' = <<>>
    /\ anchor' = BeginRecovery(anchor) /\ st' = "recovering" /\ retry' = FALSE
    /\ rc' = Outdate(rc) /\ wst' = "recovering" /\ barrier' = TRUE /\ onReady' = TRUE
    /\ UNCHANGED <<disc, q, ckpt, cache, sched, isReady, cards, dl, link, ask, sock,
                   ack, seen, go, faults>>

(* ------------------------------------------------------------------ *)
(* Frames of the collector.  The states of the channels go out before   *)
(* anything else that follows a READY.                                   *)
(* ------------------------------------------------------------------ *)

(* Mutant: a READY is not published before the next event. *)
Send_NoBarrier(frames) == Len(sock) < Buffer /\ sock' = sock \o frames /\ barrier' = FALSE
Send(frames) ==
    /\ Len(sock) < Buffer
    /\ sock' = sock \o (IF barrier THEN <<[k |-> "channel", s |-> st']>> ELSE <<>>)
                    \o frames
    /\ barrier' = FALSE
ChannelFrame == <<[k |-> "channel", s |-> st']>>

\* channel_status: kept, and published if the backend is there.
ChannelStatus(s) ==
    /\ st' = s
    /\ IF Connected THEN Send(ChannelFrame) ELSE UNCHANGED <<sock, barrier>>

OnReady ==
    /\ onReady /\ ~Halted /\ onReady' = FALSE /\ isReady' = TRUE /\ wst' = "recovering"
    /\ anchor' = BeginRecovery(anchor) /\ st' = "recovering" /\ retry' = FALSE
    /\ rc' = Outdate(rc)
    /\ IF Connected THEN Send(<<>>) /\ ask' = TRUE ELSE UNCHANGED <<sock, barrier, ask>>
    /\ UNCHANGED <<disc, wire, q, ckpt, cache, sched, cards, dl, link, ack, seen, go,
                   faults>>

PublishBarrier ==
    /\ barrier /\ Connected /\ st' = st /\ Send(<<>>)
    /\ UNCHANGED <<disc, wire, box, client, sched, retry, rc, dl, link, ask, ack, seen, go,
                   faults>>

(* ------------------------------------------------------------------ *)
(* Connection and configuration.                                        *)
(* ------------------------------------------------------------------ *)

Connect ==
    /\ link = "down" /\ link' = "up" /\ ask' = TRUE   \* hello: ReloadConfig
    /\ UNCHANGED <<disc, wire, box, chan, client, rc, dl, sock, ack, barrier, seen, go,
                   faults>>

\* schedule_recovery, joined to what the caller decided for st.
Schedule ==
    /\ anchor' = BeginRecovery(anchor) /\ st' = "recovering" /\ sched' = TRUE
    /\ retry' = FALSE /\ rc' = Outdate(rc)

Configure ==
    /\ ask /\ Connected /\ ask' = FALSE /\ link' = "conf"
    /\ cards' = {m \in {Card} : \E d \in DOMAIN dlv : dlv[d].m = m /\ dlv[d].status = "done"}
    /\ IF gw # "off" /\ (st # "ready" \/ wst = "recovering") /\ isReady /\ ~Halted
       THEN Schedule
       ELSE /\ st' = IF st = "none" THEN "recovering" ELSE st
            /\ anchor' = IF st = "none" THEN BeginRecovery(anchor) ELSE anchor
            /\ UNCHANGED <<sched, retry, rc>>
    /\ gw' = IF gw = "off" /\ ~Halted THEN "starting" ELSE gw
    /\ wst' = IF gw = "off" /\ ~Halted THEN "connecting" ELSE wst
    /\ Send(ChannelFrame)
    /\ UNCHANGED <<disc, missed, q, ckpt, cache, isReady, onReady, dl, ack, seen, go, faults>>

\* status_loop: every five seconds, on the same stream.
Status ==
    /\ Connected /\ gst # (wst = "connected") /\ gst' = (wst = "connected")
    /\ UNCHANGED <<disc, wire, box, chan, client, rc, dl, pipe, seen, row, db, dlv, dp,
                   faults>>

(* ------------------------------------------------------------------ *)
(* Recovery of the channel's history.                                   *)
(* ------------------------------------------------------------------ *)

\* recover() ends: unless the session is away the worker is connected again.
Finished == IF wst \in {"reconnecting", "disabled", "buffer_failed"} THEN wst
            ELSE "connected"

RecoveryRest == <<disc, wire, ckpt, cache, isReady, onReady, cards, dl, link, ask, ack,
                  seen, go>>

RecoveryStart ==
    /\ sched /\ rc.pc = "idle" /\ sched' = FALSE /\ faults' = faults
    /\ IF Connected
       THEN /\ rc' = [NoTask EXCEPT !.pc = "fetch", !.ok = TRUE]
            /\ ChannelStatus("recovering")
            /\ retry' = retry
       ELSE /\ rc' = NoTask /\ retry' = TRUE /\ st' = "gap"
            /\ UNCHANGED <<sock, barrier>>
    /\ UNCHANGED <<RecoveryRest, q, anchor, wst>>

\* The newest messages after the anchor, at most Page of them.
History ==
    LET after == {m \in 1 .. posted : m > anchor}
        kept == {m \in after : m > posted - Page}
    IN [h |-> [i \in 1 .. Cardinality(kept) |->
                   Event("create", i + posted - Cardinality(kept),
                         Version(i + posted - Cardinality(kept)))],
        full |-> kept = after]

RecoveryFetch ==
    /\ rc.pc = "fetch" /\ rc.ok /\ gw # "off"
    /\ rc' = [rc EXCEPT !.pc = "append", !.h = History.h, !.full = History.full]
    /\ UNCHANGED <<RecoveryRest, q, anchor, wst, chan, sock, barrier, faults>>

\* The watermark is taken with the last append: no call is awaited between them.
Appended(todo) ==
    [rc EXCEPT !.pc = IF todo = {} THEN "drain" ELSE "cards", !.h = <<>>, !.todo = todo,
               !.left = Len(q) + Len(rc.h)]

\* The history and, after it, each active card go behind what was captured.
RecoveryAppend ==
    /\ rc.pc \in {"append", "card"} /\ rc.ok /\ Len(q) + Len(rc.h) <= Capacity
    /\ q' = q \o rc.h
    /\ rc' = Appended(IF rc.pc = "append" THEN cards ELSE rc.todo)
    /\ UNCHANGED <<RecoveryRest, anchor, wst, chan, sock, barrier, faults>>

\* get_message: the active cards are read one by one, and what Discord answers
\* is appended in a later step.
RecoveryRead ==
    /\ rc.pc = "cards" /\ rc.ok
    /\ \E m \in rc.todo :
         rc' = [rc EXCEPT !.pc = "card", !.todo = @ \ {m},
                          !.h = <<Event("update", m, Version(m))>>]
    /\ UNCHANGED <<RecoveryRest, q, anchor, wst, chan, sock, barrier, faults>>

\* Ready only when everything up to the watermark was acknowledged.
RecoveryDone ==
    /\ rc.pc = "drain" /\ rc.ok /\ rc.left = 0
    /\ anchor' = IF rc.full THEN Nothing ELSE anchor
    /\ rc' = NoTask
    /\ IF Connected
       THEN /\ ChannelStatus(IF rc.full THEN "ready" ELSE "gap")
            /\ retry' = FALSE /\ wst' = Finished
       ELSE /\ st' = "gap" /\ retry' = TRUE /\ UNCHANGED <<sock, barrier, wst>>
    /\ UNCHANGED <<RecoveryRest, q, sched, faults>>

\* The recovery fails before it drains: what it appended stays in the outbox,
\* and so does the recovery row.
FailedAfter(es, retried) ==
    /\ q' = q \o es /\ rc' = NoTask /\ retry' = retried /\ ChannelStatus("gap")
    /\ wst' = IF Connected THEN Finished ELSE wst
    /\ UNCHANGED <<RecoveryRest, anchor, sched>>

RecoveryOverflow ==
    /\ rc.pc \in {"append", "card"} /\ rc.ok /\ Len(q) + Len(rc.h) > Capacity
    /\ FailedAfter(SubSeq(rc.h, 1, Capacity - Len(q)), TRUE) /\ faults' = faults

\* A read fails, and is retried, or is refused, and is not.
RecoveryFail ==
    /\ rc.pc \in {"fetch", "cards"} /\ rc.ok /\ Fault
    /\ \E retried \in BOOLEAN : FailedAfter(<<>>, retried)

\* The channel has a newer generation: the task leaves without a word.
RecoveryOutdated ==
    /\ rc.pc # "idle" /\ ~rc.ok /\ rc' = NoTask /\ wst' = Finished
    /\ UNCHANGED <<RecoveryRest, q, anchor, chan, sock, barrier, faults>>

\* At least 30 seconds later: by then a backend that is connected has read and
\* acknowledged what was sent.
RecoveryRetry ==
    /\ retry /\ st = "gap" /\ ~Halted /\ Schedule /\ (Connected => sock = <<>> /\ q = <<>>)
    /\ UNCHANGED <<RecoveryRest, q, wst, sock, barrier, faults>>

(* ------------------------------------------------------------------ *)
(* Delivery of the outbox.                                              *)
(* ------------------------------------------------------------------ *)

DeliverRest == <<disc, wire, client, link, go>>
e0 == Head(q)

\* A patch of a message that is not cached is completed by a read, which may fail.
NeedsRead == e0.k = "update" /\ cache[e0.m] = Nothing

\* hydrate and merge_message: a CREATE does not touch an edited copy; an update
\* without a stamp brings its text and leaves the stamp.
Hydrated(copy, e) ==
    IF copy > 0 /\ e.k = "create" THEN copy
    ELSE IF copy > 0 /\ e.v = 0 THEN 2 ELSE e.v

Deliver ==
    LET v == Hydrated(cache[e0.m], e0) IN
    /\ dl = "idle" /\ q # <<>> /\ link = "conf"
    /\ cache' = [cache EXCEPT ![e0.m] = v]
    /\ st' = st /\ Send(<<Event(e0.k, e0.m, v)>>)
    /\ dl' = "wait" /\ ack' = "none"
    /\ UNCHANGED <<DeliverRest, q, ckpt, anchor, sched, retry, rc, ask, seen, faults>>

\* The head leaves the outbox; copies of it still in transit are known to the
\* backend by their event_id and change nothing, and nobody waits for the answer.
Old == [k |-> "old"]
IsEvent(f) == f.k \notin {"channel", "old"}
PopHead ==
    /\ q' = Tail(q) /\ dl' = "idle" /\ seen' = FALSE /\ ack' = "none"

Acked ==
    /\ dl = "wait" /\ ack = "ok" /\ dl' = "acked"
    /\ ckpt' = IF e0.k = "create" THEN Larger(ckpt, e0.m) ELSE ckpt
    /\ UNCHANGED <<DeliverRest, q, anchor, cache, chan, rc, ask, sock, ack, barrier, seen,
                   faults>>

Pop ==
    /\ dl = "acked" /\ PopHead
    /\ sock' = [i \in DOMAIN sock |-> IF sock[i].k = "channel" THEN sock[i] ELSE Old]
    /\ rc' = [rc EXCEPT !.left = Larger(@ - 1, 0)]
    /\ UNCHANGED <<DeliverRest, ckpt, anchor, cache, chan, ask, barrier, faults>>

\* The head is sent again: its answer can no longer come, or is an error.
\* Late: the answer takes more than 30 seconds.
Resend ==
    /\ dl = "wait" /\ dl' = "idle" /\ ack' = "none"
    /\ UNCHANGED <<DeliverRest, box, chan, rc, ask, sock, barrier, seen>>
InTransit == link = "conf" /\ \E i \in 1 .. Len(sock) : IsEvent(sock[i])
Undelivered == ack # "ok" /\ ~InTransit /\ faults' = faults /\ Resend
Late == (ack = "ok" \/ InTransit) /\ Fault /\ Resend

\* hydrate gives up on the head: the receipt is dropped behind a durable gap.
SkipWithGap ==
    /\ dl = "idle" /\ q # <<>> /\ link = "conf" /\ NeedsRead /\ Fault
    /\ anchor' = BeginRecovery(anchor) /\ retry' = FALSE
    /\ ChannelStatus("gap") /\ PopHead
    /\ rc' = [Outdate(rc) EXCEPT !.left = Larger(@ - 1, 0)]
    /\ UNCHANGED <<DeliverRest, ckpt, cache, sched, ask>>

(* ------------------------------------------------------------------ *)
(* The backend.                                                         *)
(* ------------------------------------------------------------------ *)

ServeRest == <<disc, wire, box, chan, client, rc, dl, link, ask, barrier, gst, dp>>

\* Ingest and CommitInbound: a CREATE does not touch an edited message, and a text
\* that is the stored one makes no revision.  Any other is a new revision with its
\* delivery: its stamp is not older than the stored one.
Ingest(k, m, v) ==
    IF \/ db[m] = Nothing
       \/ Text(v) # Text(db[m]) /\ ~(k = "create" /\ db[m] > 0)
    THEN /\ db' = [db EXCEPT ![m] = v]
         /\ dlv' = Append(dlv, [m |-> m, v |-> v, status |-> "pending"])
    ELSE UNCHANGED <<db, dlv>>

\* A stale copy changes nothing; an event is stored with its answer, or fails.
Serve ==
    /\ link # "down" /\ sock # <<>> /\ sock' = Tail(sock)
    /\ LET f == Head(sock) IN
       \/ f.k = "channel" /\ row' = f.s /\ UNCHANGED <<db, dlv, ack, seen, faults>>
       \/ f.k = "old" /\ UNCHANGED <<db, dlv, row, ack, seen, faults>>
       \/ /\ IsEvent(f) /\ seen' = TRUE /\ faults' = faults
          /\ ack' = IF dl = "wait" THEN "ok" ELSE ack
          /\ IF seen THEN UNCHANGED <<db, dlv, row>>
                     ELSE /\ Ingest(f.k, f.m, f.v)
                          /\ row' = IF row = "none" THEN "unknown" ELSE row
       \/ /\ IsEvent(f) /\ Fault /\ ack' = IF dl = "wait" THEN "err" ELSE ack
          /\ UNCHANGED <<db, dlv, row, seen>>
    /\ UNCHANGED ServeRest

\* NextDelivery: by source time, which is that of the edit once there was one, and
\* by id.
Time(d) == IF dlv[d].v > 0 THEN 2 * edited + 1 ELSE 2 * dlv[d].m
(* Mutant: deliveries of the same source time are taken in any order. *)
Before_TimeOnly(d, o) == Time(d) <= Time(o)
Before(d, o) == Time(d) < Time(o) \/ (Time(d) = Time(o) /\ d <= o)
Pending == {d \in DOMAIN dlv : dlv[d].status = "pending"}
DispatchRest == <<disc, wire, box, chan, client, rc, dl, pipe, seen, row, db, gst>>

\* dispatch: the channel's state and the next delivery are two reads.
DispatchCheck ==
    /\ dp.pc = "idle" /\ gst /\ row \notin {"none", "recovering"} /\ Pending # {}
    /\ dp' = [dp EXCEPT !.pc = "pick"]
    /\ UNCHANGED <<DispatchRest, dlv, faults>>

DispatchPick ==
    /\ dp.pc = "pick"
    /\ \E d \in Pending :
         /\ \A o \in Pending : Before(d, o)
         /\ dlv' = [dlv EXCEPT ![d].status = "processing"]
         /\ dp' = [pc |-> "handle", d |-> d]
    /\ UNCHANGED <<DispatchRest, faults>>

\* The handler returns, with an error or not, and the outcome is stored.
Handle ==
    /\ dp.pc = "handle" /\ dp' = NoDelivery
    /\ \/ dlv' = [dlv EXCEPT ![dp.d].status = "done"] /\ faults' = faults
       \/ dlv' = [dlv EXCEPT ![dp.d].status = "pending"] /\ Fault
    /\ UNCHANGED DispatchRest

(* ------------------------------------------------------------------ *)
(* Crashes.                                                             *)
(* ------------------------------------------------------------------ *)

\* The collector restarts; what it had written to the socket is still read.
CollectorCrash ==
    /\ Fault /\ gw' = "off" /\ missed' = <<>> /\ st' = "none" /\ wst' = "disabled"
    /\ isReady' = FALSE /\ onReady' = FALSE /\ barrier' = FALSE /\ sched' = FALSE
    /\ retry' = FALSE /\ rc' = NoTask /\ cards' = {} /\ dl' = "idle" /\ ask' = FALSE
    /\ ack' = "none" /\ link' = IF link = "down" THEN "down" ELSE "eof"
    /\ UNCHANGED <<disc, box, sock, seen, go>>

\* The backend has read the last frame of a closed connection.
EndOfStream ==
    /\ link = "eof" /\ sock = <<>> /\ link' = "down" /\ gst' = FALSE
    /\ UNCHANGED <<disc, wire, box, chan, client, rc, dl, ask, sock, ack, barrier, seen,
                   row, db, dlv, dp, faults>>

\* The backend restarts, or its connection breaks: frames in transit are lost.
Disconnect ==
    /\ link # "down" /\ Fault /\ link' = "down" /\ sock' = <<>> /\ ack' = "none"
    /\ ask' = FALSE /\ gst' = FALSE
    /\ \/ UNCHANGED <<dlv, dp>>
       \/ /\ dp' = NoDelivery
          /\ dlv' = [d \in DOMAIN dlv |->
                        IF dlv[d].status = "processing" THEN [dlv[d] EXCEPT !.status = "pending"]
                        ELSE dlv[d]]
    /\ UNCHANGED <<disc, wire, box, chan, client, rc, dl, barrier, seen, row, db>>

GatewaySession == Ready \/ Resume
Recovery == \/ RecoveryStart \/ RecoveryFetch \/ RecoveryAppend \/ RecoveryRead
            \/ RecoveryOverflow \/ RecoveryDone \/ RecoveryOutdated
DeliverLoop == Deliver \/ Acked \/ Pop \/ Undelivered
Dispatch == DispatchCheck \/ DispatchPick \/ Handle
Faults == Cut \/ RecoveryFail \/ Late \/ SkipWithGap \/ CollectorCrash \/ Disconnect

Next == \/ Post \/ Edit \/ GatewaySession \/ OnReady \/ PublishBarrier \/ Connect
        \/ Configure \/ Status \/ Recovery \/ RecoveryRetry \/ DeliverLoop \/ Serve
        \/ Dispatch \/ EndOfStream \/ Faults

Spec == Init /\ [][Next]_vars

\* Every task of the two processes runs; Discord, and faults, owe nothing.
FairSpec ==
    /\ Spec
    /\ WF_vars(GatewaySession) /\ WF_vars(OnReady) /\ WF_vars(PublishBarrier)
    /\ WF_vars(Connect) /\ WF_vars(Configure) /\ WF_vars(Status)
    /\ WF_vars(Recovery) /\ WF_vars(RecoveryRetry) /\ WF_vars(DeliverLoop)
    /\ WF_vars(Serve) /\ WF_vars(Dispatch) /\ WF_vars(EndOfStream)

(* ------------------------------------------------------------------ *)
(* Properties.                                                          *)
(* ------------------------------------------------------------------ *)

\* The outbox keeps its limit, what is anchored was delivered, and a delivery
\* exists only of a message the backend has stored; the row never shows the
\* state of a process that has no channels.
TypeOK ==
    /\ posted \in 0 .. N /\ edited \in 0 .. N /\ Len(q) <= Capacity
    /\ ckpt \in 0 .. posted /\ anchor \in {Nothing} \cup 0 .. ckpt
    /\ row \in {"none", "unknown", "recovering", "ready", "gap"}
    /\ \A d \in DOMAIN dlv : dlv[d].m \in Msgs /\ db[dlv[d].m] # Nothing

\* The source is never called ready over a hole: while the backend's row of the
\* channel says "ready", which is what CheckExecution asks before new risk
\* (discord/source.go:678-719), every message posted before one it has stored
\* is stored too -- across lost sessions, crashes of both processes, and
\* recoveries overtaken by a newer session.
ReadyIsGapless ==
    row = "ready" =>
        \A a, b \in Msgs : a < b /\ db[b] # Nothing => db[a] # Nothing

\* The revisions of a message are handed over in their order, whatever the source
\* times and however often a handler failed or a process restarted: once a later
\* revision was handled, an earlier one is not handed over any more
\* (store/discord_ingest.go NextDelivery).
NotHandedBack ==
    \A d, o \in DOMAIN dlv :
        d < o /\ dlv[d].m = dlv[o].m /\ dlv[o].status = "done" => dlv'[d] = dlv[d]
RevisionsInOrder == [][NotHandedBack]_vars

\* What the code does not keep: a text that was edited away makes no new revision.
NeverRolledBack ==
    \A d, o \in DOMAIN dlv : d < o /\ dlv[d].m = dlv[o].m => dlv[d].v <= dlv[o].v /\ dlv[o].v < 2

\* Nothing is lost in silence: in the end every message posted is stored and
\* handled, or the collector says that its buffer failed or that the channel
\* has a gap.
Handled(m) == /\ db[m] # Nothing
              /\ \A d \in DOMAIN dlv : dlv[d].m = m => dlv[d].status = "done"
NothingOutstanding == Halted \/ st = "gap" \/ \A m \in 1 .. posted : Handled(m)
NothingLost == <>[]NothingOutstanding

=============================================================================
