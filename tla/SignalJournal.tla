--------------------------- MODULE SignalJournal ---------------------------
(***************************************************************************)
(* One Discord message of one trader, from the durable delivery of each of *)
(* its revisions to the action journal (copytrader/engine.go, pipeline.go; *)
(* store/discord_ingest.go, copytrade_ledger.go).                          *)
(*                                                                         *)
(* Two threads handle revisions under messageMu, one at a time: the route  *)
(* dispatcher takes pending deliveries, the retry loop takes signals that  *)
(* wait.  The gates and the execution of the instructions run under the    *)
(* execution lock, which the reconcile loop also takes to settle journaled *)
(* actions; reading the message and asking the model do not.  The process  *)
(* may crash or be stopped between any two writes, and a write of the      *)
(* journal may fail.                                                       *)
(*                                                                         *)
(* What an action does at the venue is abstract here (ManagedEntry and     *)
(* ManagedExit model it): an action is sent or not, and recovery ends it.  *)
(***************************************************************************)
EXTENDS Naturals, Sequences, FiniteSets

CONSTANTS
    Instructions,   \* what the text of a revision may ask for
    Entry,          \* those that open or add; the others reduce or close
    Text,           \* the instructions of each revision, in order
    Known,          \* revisions in a format that needs no model
    Chroma,         \* the channel carries structured notifications
    MaxStops,       \* bound on crashes and stops
    MaxFaults       \* bound on failed writes

Revs == DOMAIN Text
Post == 0           \* the time of the original post; r is the time of edit r

SignalAssumption ==
    /\ Entry \subseteq Instructions
    /\ Text \in Seq(Seq(Instructions))
    /\ Known \subseteq DOMAIN Text
    /\ {MaxStops, MaxFaults} \subseteq Nat /\ Chroma \in BOOLEAN

VARIABLES
    run,        \* the engine: up, stopping or down
    delivery,   \* status of the delivery of each revision
    signal,     \* status of the signal row of each revision
    interp,     \* revisions whose interpretation is stored
    tries,      \* model retries of each revision
    action,     \* the journal, by instruction and identity
    hand,       \* what the holder of messageMu is doing
    late,       \* reference times that are past their TTL
    stops,      \* crashes and stops so far
    faults      \* failed writes so far

vars == <<run, delivery, signal, interp, tries, action, hand, late, stops, faults>>

Terminal    == {"executed", "skipped", "failed"}
Waiting     == {"retry_wait", "execution_wait"}
Uncommitted == {"interpreting", "received", "parsed", "executing"}
Unresolved  == {"executing", "uncertain"}

(* The journal identity of an instruction: 0 is the identity every         *)
(* revision computes, r the one that a retry by signal r computes.         *)
Keys     == {0} \union Revs
NoAction == [st |-> "none", rev |-> 0, linked |-> FALSE, sent |-> FALSE]

Free == [at |-> "free", rev |-> 0, by |-> "none", idx |-> 0, key |-> 0,
         waits |-> FALSE, errs |-> FALSE, ran |-> FALSE, ok |-> TRUE]

Init ==
    /\ run = "up"
    /\ delivery = [r \in Revs |-> "none"]
    /\ signal = [r \in Revs |-> "none"]
    /\ interp = {}
    /\ tries = [r \in Revs |-> 0]
    /\ action = [p \in Instructions \X Keys |-> NoAction]
    /\ hand = Free
    /\ late = {}
    /\ stops = 0
    /\ faults = 0

-----------------------------------------------------------------------------
(* Writes. A write of the store may fail; the caller learns of it.         *)

Faulty == faults < MaxFaults /\ faults' = faults + 1

Persisted(r, s) == signal' = [signal EXCEPT ![r] = s] /\ UNCHANGED faults
NotPersisted    == Faulty /\ UNCHANGED signal

Leave(ok) ==
    hand' = [Free EXCEPT !.at = "finish", !.rev = hand.rev, !.by = hand.by, !.ok = ok]

(* The last status of a handling: written, or lost with an error returned. *)
Conclude(s) ==
    \/ Persisted(hand.rev, s) /\ Leave(TRUE)
    \/ NotPersisted /\ Leave(FALSE)

-----------------------------------------------------------------------------
(* The source and the clock.                                               *)

(* A revision is received and queued for the trader.                       *)
Receive(r) ==
    /\ delivery[r] = "none"
    /\ \A q \in 1 .. (r - 1) : delivery[q] # "none"
    /\ delivery' = [delivery EXCEPT ![r] = "pending"]
    /\ UNCHANGED <<run, signal, interp, tries, action, hand, late, stops, faults>>

Expire(t) ==
    /\ t \notin late
    /\ delivery[IF t = Post THEN 1 ELSE t] # "none"
    /\ late' = late \union {t}
    /\ UNCHANGED <<run, delivery, signal, interp, tries, action, hand, stops, faults>>

-----------------------------------------------------------------------------
(* Handling one revision.                                                  *)

(* A text that only reads as an entry is as old as the post.               *)
interpretationRetryWindow(r) ==
    IF Text[r] # <<>> /\ \A i \in DOMAIN Text[r] : Text[r][i] \in Entry THEN Post ELSE r

Work(r, by, at) == hand' = [Free EXCEPT !.at = at, !.rev = r, !.by = by]

(* HandleMessage and processMessage up to the interpretation: a revision   *)
(* with an outcome, or one that waits and is not due, is left alone.       *)
HandleMessage(r, by) ==
    \/ /\ signal[r] \in Terminal \/ (by = "dispatch" /\ signal[r] \in Waiting)
       /\ Work(r, by, "finish")
       /\ UNCHANGED <<signal, faults>>
    \/ /\ \/ signal[r] = "none" /\ {Post, r} \subseteq late
          \/ signal[r] = "retry_wait" /\ interpretationRetryWindow(r) \in late
       /\ Work(r, by, "finish")
       /\ Persisted(r, "skipped")
    \/ /\ signal[r] \notin Terminal \union {"retry_wait"}
       /\ r \in interp
       /\ Work(r, by, "interpreted")
       /\ UNCHANGED <<signal, faults>>
    \/ /\ signal[r] \notin Terminal
       /\ signal[r] = "retry_wait" => interpretationRetryWindow(r) \notin late
       /\ r \notin interp \/ signal[r] = "retry_wait"
       /\ \/ /\ r \notin Known
             /\ Work(r, by, "model")
             /\ Persisted(r, "interpreting")
          \/ /\ r \in Known
             /\ Work(r, by, "interpreted")
             /\ Persisted(r, IF signal[r] = "none" THEN "received" ELSE signal[r])

(* The dispatcher takes the earliest pending delivery.                     *)
Dispatch(r) ==
    /\ run = "up"
    /\ hand = Free
    /\ delivery[r] = "pending"
    /\ \A q \in 1 .. (r - 1) : delivery[q] # "pending"
    /\ delivery' = [delivery EXCEPT ![r] = "processing"]
    /\ HandleMessage(r, "dispatch")
    /\ UNCHANGED <<run, interp, tries, action, late, stops>>

(* Mutant: only failed interpretations are retried.                        *)
DueRetries_ModelOnly == {r \in Revs : signal[r] = "retry_wait"}

(* The retry loop takes a signal whose wait is due.                        *)
DueRetries == {r \in Revs : signal[r] \in Waiting}

Retry(r) ==
    /\ run = "up"
    /\ hand = Free
    /\ r \in DueRetries
    /\ HandleMessage(r, "retry")
    /\ UNCHANGED <<run, delivery, interp, tries, action, late, stops>>

ModelAnswers ==
    /\ hand.at = "model"
    /\ run = "up"
    /\ hand' = [hand EXCEPT !.at = "interpreted"]
    /\ UNCHANGED <<run, delivery, signal, interp, tries, action, late, stops, faults>>

(* deferInterpretationRetry. Its write is not checked.                     *)
DeferRetry ==
    /\ hand.at = "model"
    /\ run = "up"
    /\ tries[hand.rev] < 2
    /\ \A k \in Instructions, x \in Keys : action[<<k, x>>].st = "none"
    /\ interpretationRetryWindow(hand.rev) \notin late
    /\ \/ /\ tries' = [tries EXCEPT ![hand.rev] = @ + 1]
          /\ Persisted(hand.rev, "retry_wait")
       \/ NotPersisted /\ UNCHANGED tries
    /\ Leave(TRUE)
    /\ UNCHANGED <<run, delivery, interp, action, late, stops>>

ModelFails ==
    /\ hand.at = "model"
    /\ run = "up"
    /\ Conclude("failed")
    /\ UNCHANGED <<run, delivery, interp, tries, action, late, stops>>

(* A stopping engine drops the answer, and later the lock.                 *)
Interrupted ==
    /\ hand.at \in {"model", "lock"}
    /\ run = "stopping"
    /\ Leave(FALSE)
    /\ UNCHANGED <<run, delivery, signal, interp, tries, action, late, stops, faults>>

StoreInterpretation ==
    /\ hand.at = "interpreted"
    /\ \/ /\ Persisted(hand.rev, "parsed")
          /\ interp' = interp \union {hand.rev}
          /\ hand' = [hand EXCEPT !.at = "lock"]
       \/ NotPersisted /\ Leave(FALSE) /\ UNCHANGED interp
    /\ UNCHANGED <<run, delivery, tries, action, late, stops>>

(* The execution lock is taken and the stop flag read once more.           *)
BeginExecution ==
    /\ hand.at = "lock"
    /\ run = "up"
    /\ \/ /\ \/ Text[hand.rev] # <<>> /\ Persisted(hand.rev, "executing")
             \/ Text[hand.rev] = <<>> /\ UNCHANGED <<signal, faults>>
          /\ hand' = [hand EXCEPT !.at = "loop", !.idx = 1]
       \/ Text[hand.rev] # <<>> /\ NotPersisted /\ Leave(FALSE)
    /\ UNCHANGED <<run, delivery, interp, tries, action, late, stops>>

-----------------------------------------------------------------------------
(* processInstruction, under the execution lock.                           *)

Executing == hand.at \in {"loop", "route"}

Instruction == Text[hand.rev][hand.idx]
Here        == <<Instruction, hand.key>>

AtInstruction == hand.at = "loop" /\ hand.idx <= Len(Text[hand.rev])

(* How the instruction counts for the outcome of its revision.             *)
Counted(result) ==
    [hand EXCEPT !.at = "loop", !.idx = @ + 1, !.key = 0,
                 !.waits = @ \/ result = "wait",
                 !.errs  = @ \/ result = "error",
                 !.ran   = @ \/ result = "ran"]

Expired == (IF Instruction \in Entry THEN Post ELSE hand.rev) \in late

(* The TTL gate comes first, for an action that is already journaled too.  *)
Lapse ==
    /\ AtInstruction
    /\ Expired
    /\ hand' = Counted("skip")
    /\ UNCHANGED <<run, delivery, signal, interp, tries, action, late, stops, faults>>

(* The gates before the journal: the source, the target, the validation,   *)
(* the price.  Only the source of an entry and a notification whose trade  *)
(* is not settled ask to wait.                                             *)
Gate ==
    /\ AtInstruction
    /\ ~Expired
    /\ \E result \in {"skip", "error", "wait"} :
          /\ result = "wait" => Chroma \/ Instruction \in Entry
          /\ hand' = Counted(result)
    /\ UNCHANGED <<run, delivery, signal, interp, tries, action, late, stops, faults>>

Recorded(k) == {x \in Keys : action[<<k, x>>].st # "none"}

(* Mutant: an action of unknown outcome may be claimed by a later revision. *)
Retryable_Uncertain(a, r) ==
    \/ a.st = "preflight_rejected"
    \/ a.st \in {"rejected", "uncertain"} /\ r > a.rev

(* An action that never passed preflight, or that the venue rejected and   *)
(* the author has edited since, may be claimed again.                      *)
Retryable(a, r) == a.st = "preflight_rejected" \/ (a.st = "rejected" /\ r > a.rev)

(* Mutant: an action of any revision counts as this one's.                 *)
NotClaimed_AnySignal(a) ==
    IF a.st = "done" THEN "ran" ELSE IF a.st \in Unresolved THEN "wait" ELSE "skip"

(* Why an instruction that could not be claimed is not executed.           *)
NotClaimed(a) ==
    IF a.st = "done" /\ a.rev = hand.rev THEN "ran"
    ELSE IF a.st \in Unresolved THEN "wait" ELSE "skip"

(* claimInstruction: the first old action that is not retryable answers;   *)
(* a second retry by one signal meets its own row, and waits for it.       *)
Claim ==
    /\ AtInstruction
    /\ ~Expired
    /\ LET k   == Instruction
           old == Recorded(k)
           key == IF old = {} THEN 0 ELSE hand.rev
           blocking == {x \in old : ~Retryable(action[<<k, x>>], hand.rev)}
       IN  \/ /\ blocking # {}
              /\ \E x \in blocking : hand' = Counted(NotClaimed(action[<<k, x>>]))
              /\ UNCHANGED action
           \/ /\ blocking = {} /\ key \in old
              /\ hand' = Counted("wait")
              /\ UNCHANGED action
           \/ /\ blocking = {} /\ key \notin old
              /\ action' = [action EXCEPT ![<<k, key>>] =
                              [NoAction EXCEPT !.st = "executing", !.rev = hand.rev]]
              /\ hand' = [hand EXCEPT !.at = "route", !.key = key]
    /\ UNCHANGED <<run, delivery, signal, interp, tries, late, stops, faults>>

(* The trade and its orders are created, with the link to the action, in   *)
(* one transaction.                                                        *)
CreateManagedPlan ==
    /\ hand.at = "route"
    /\ Instruction \in Entry /\ ~action[Here].linked
    /\ action' = [action EXCEPT ![Here].linked = TRUE]
    /\ UNCHANGED <<run, delivery, signal, interp, tries, hand, late, stops, faults>>

(* An order of the action reaches the venue.                               *)
Send ==
    /\ hand.at = "route"
    /\ Instruction \in Entry => action[Here].linked
    /\ ~action[Here].sent
    /\ action' = [action EXCEPT ![Here].sent = TRUE]
    /\ UNCHANGED <<run, delivery, signal, interp, tries, hand, late, stops, faults>>

(* How the route may end, what the journal says then, and how it counts.   *)
Routed ==
    LET a       == action[Here]
        entry   == Instruction \in Entry
        pending == IF Chroma /\ ~entry THEN "wait" ELSE "error"
    IN  {<<"done", "ran">> : o \in IF entry => a.sent THEN {0} ELSE {}}
        \union (IF a.sent \/ a.linked THEN {}
                ELSE {<<"preflight_rejected", "skip">>}
                     \union (IF entry THEN {<<"preflight_rejected", "error">>}
                             ELSE {<<"executing", pending>>}))   \* errExitNotSubmitted
        \union (IF entry => a.linked THEN {<<"uncertain", pending>>} ELSE {})
        \union (IF entry /\ a.linked /\ ~a.sent
                THEN {<<"rejected", "error">>,      \* every leg was rejected
                      <<"executing", "wait">>,      \* errEntryDeferred
                      <<"revoked", "skip">>}        \* errEntryRevoked
                ELSE {})

(* The outcome is journaled; a failed write leaves the action executing.   *)
JournalOutcome ==
    /\ hand.at = "route"
    /\ \/ \E o \in Routed :
             /\ action' = [action EXCEPT ![Here].st = o[1]]
             /\ hand' = Counted(o[2])
             /\ UNCHANGED faults
       \/ Faulty /\ hand' = Counted("error") /\ UNCHANGED action
    /\ UNCHANGED <<run, delivery, signal, interp, tries, late, stops>>

(* Mutant: the number of retries grows with every wait.                    *)
CommitOutcome_CountsWaits ==
    /\ hand.at = "loop"
    /\ hand.idx > Len(Text[hand.rev])
    /\ Conclude(IF hand.waits THEN "execution_wait"
                ELSE IF hand.errs THEN "failed"
                ELSE IF hand.ran THEN "executed" ELSE "skipped")
    /\ tries' = IF hand.waits THEN [tries EXCEPT ![hand.rev] = @ + 1] ELSE tries
    /\ UNCHANGED <<run, delivery, interp, action, late, stops>>

(* The end of processMessage.                                              *)
CommitOutcome ==
    /\ hand.at = "loop"
    /\ hand.idx > Len(Text[hand.rev])
    /\ Conclude(IF hand.waits THEN "execution_wait"
                ELSE IF hand.errs THEN "failed"
                ELSE IF hand.ran THEN "executed" ELSE "skipped")
    /\ UNCHANGED <<run, delivery, interp, tries, action, late, stops>>

(* The dispatcher keeps the delivery of a revision without an outcome; the *)
(* retry loop ignores what the handling returned.                          *)
FinishDelivery ==
    /\ hand.at = "finish"
    /\ delivery' = IF hand.by = "retry" THEN delivery
                   ELSE [delivery EXCEPT ![hand.rev] =
                           IF hand.ok /\ signal[hand.rev] \notin Uncommitted
                           THEN "done" ELSE "pending"]
    /\ hand' = Free
    /\ UNCHANGED <<run, signal, interp, tries, action, late, stops, faults>>

-----------------------------------------------------------------------------
(* The reconcile loop settles journaled actions under the execution lock.  *)

Recovering(a) == run = "up" /\ ~Executing /\ a.st \in Unresolved

(* syncRecoveredSignal, after the action k, x; its write may be lost.      *)
Sync(k, x, s) ==
    LET r == action[<<k, x>>].rev IN
    IF /\ signal[r] \in {"executing", "execution_wait"}
       /\ \A j \in Instructions, y \in Keys :
             <<j, y>> # <<k, x>> /\ action[<<j, y>>].rev = r => action[<<j, y>>].st \notin Unresolved
    THEN Persisted(r, s) \/ NotPersisted
    ELSE UNCHANGED <<signal, faults>>

Settles(k, x, st) == action' = [action EXCEPT ![<<k, x>>].st = st]

(* Mutant: an entry whose trade exists is taken for an orphan.             *)
RecoverOrphan_Linked(k, x) ==
    /\ Recovering(action[<<k, x>>])
    /\ k \in Entry
    /\ Settles(k, x, "preflight_rejected")
    /\ UNCHANGED <<run, delivery, signal, interp, tries, hand, late, stops, faults>>

(* recoverOrphanActions: an entry without a trade never passed preflight.  *)
RecoverOrphan(k, x) ==
    /\ Recovering(action[<<k, x>>])
    /\ k \in Entry /\ ~action[<<k, x>>].linked
    /\ Settles(k, x, "preflight_rejected")
    /\ UNCHANGED <<run, delivery, signal, interp, tries, hand, late, stops, faults>>

(* A planned order is submitted, or the exit is executed again.            *)
RecoverSend(k, x) ==
    /\ Recovering(action[<<k, x>>])
    /\ k \in Entry => action[<<k, x>>].linked
    /\ ~action[<<k, x>>].sent
    /\ action' = [action EXCEPT ![<<k, x>>].sent = TRUE]
    /\ UNCHANGED <<run, delivery, signal, interp, tries, hand, late, stops, faults>>

(* recoverPendingActions: the action is seen completed.                    *)
RecoverDone(k, x) ==
    /\ Recovering(action[<<k, x>>])
    /\ k \in Entry => action[<<k, x>>].linked /\ action[<<k, x>>].sent
    /\ Settles(k, x, "done")
    /\ Sync(k, x, "executed")
    /\ UNCHANGED <<run, delivery, interp, tries, hand, late, stops>>

(* settleTerminalEntryAction: the trade ended without a fill.              *)
RecoverEnded(k, x) ==
    /\ Recovering(action[<<k, x>>])
    /\ k \in Entry /\ action[<<k, x>>].linked
    /\ \E st \in {"revoked", "done"} : Settles(k, x, st)
    /\ Sync(k, x, "skipped")
    /\ UNCHANGED <<run, delivery, interp, tries, hand, late, stops>>

(* abandonManagedExit: part of the exit may have been executed.            *)
RecoverAbandon(k, x) ==
    /\ Recovering(action[<<k, x>>])
    /\ k \notin Entry
    /\ Settles(k, x, "rejected")
    /\ UNCHANGED <<run, delivery, signal, interp, tries, hand, late, stops, faults>>

-----------------------------------------------------------------------------
(* Stopping, crashing and starting.                                        *)

Stop ==
    /\ run = "up" /\ stops < MaxStops
    /\ run' = "stopping" /\ stops' = stops + 1
    /\ UNCHANGED <<delivery, signal, interp, tries, action, hand, late, faults>>

Stopped ==
    /\ run = "stopping" /\ hand = Free
    /\ run' = "down"
    /\ UNCHANGED <<delivery, signal, interp, tries, action, hand, late, stops, faults>>

Crash ==
    /\ run # "down" /\ stops < MaxStops
    /\ run' = "down" /\ stops' = stops + 1
    /\ hand' = Free
    /\ UNCHANGED <<delivery, signal, interp, tries, action, late, faults>>

(* Start: InterruptAIRuns, and ResetTraderDeliveries in the dispatcher.    *)
Start ==
    /\ run = "down"
    /\ run' = "up"
    /\ signal' = [r \in Revs |-> IF signal[r] = "interpreting" THEN "retry_wait" ELSE signal[r]]
    /\ delivery' = [r \in Revs |-> IF delivery[r] = "processing" THEN "pending" ELSE delivery[r]]
    /\ UNCHANGED <<interp, tries, action, hand, late, stops, faults>>

-----------------------------------------------------------------------------

Handling ==
    \/ ModelAnswers \/ DeferRetry \/ ModelFails \/ Interrupted
    \/ StoreInterpretation \/ BeginExecution
    \/ Lapse \/ Gate \/ Claim \/ CreateManagedPlan \/ Send \/ JournalOutcome
    \/ CommitOutcome \/ FinishDelivery

Recovery ==
    \E k \in Instructions, x \in Keys :
        \/ RecoverOrphan(k, x) \/ RecoverSend(k, x) \/ RecoverDone(k, x)
        \/ RecoverEnded(k, x) \/ RecoverAbandon(k, x)

Next ==
    \/ \E r \in Revs : Receive(r) \/ Dispatch(r) \/ Retry(r)
    \/ \E t \in {Post} \union Revs : Expire(t)
    \/ Handling
    \/ Recovery
    \/ Stop \/ Stopped \/ Crash \/ Start

Spec == Init /\ [][Next]_vars

(* The handler and both loops keep running: every call of the handler has  *)
(* a timeout, a mutex is not withheld from one loop for ever, and a stopped *)
(* engine is started again.  The clock passes every TTL.                   *)
FairSpec ==
    /\ Spec
    /\ WF_vars(Handling) /\ WF_vars(Stopped) /\ WF_vars(Start)
    /\ \A r \in Revs : SF_vars(Dispatch(r)) /\ SF_vars(Retry(r))
    /\ \A t \in {Post} \union Revs : WF_vars(Expire(t))

-----------------------------------------------------------------------------
(* Properties.                                                             *)

TypeOK ==
    /\ run \in {"up", "stopping", "down"}
    /\ delivery \in [Revs -> {"none", "pending", "processing", "done"}]
    /\ signal \in [Revs -> {"none"} \union Uncommitted \union Waiting \union Terminal]
    /\ interp \subseteq Revs
    /\ tries \in [Revs -> 0 .. 2]
    /\ action \in [Instructions \X Keys ->
                     [st : {"none", "done", "revoked", "preflight_rejected", "rejected"}
                              \union Unresolved,
                      rev : Keys, linked : BOOLEAN, sent : BOOLEAN]]
    /\ hand \in [at : {"free", "model", "interpreted", "lock", "loop", "route", "finish"},
                 rev : Keys, by : {"none", "dispatch", "retry"}, idx : Nat, key : Keys,
                 waits : BOOLEAN, errs : BOOLEAN, ran : BOOLEAN, ok : BOOLEAN]
    /\ late \subseteq {Post} \union Revs
    /\ stops \in 0 .. MaxStops /\ faults \in 0 .. MaxFaults

(* Re-delivery, retries, edits of the message, crashes and lost writes     *)
(* never make two journaled actions reach the venue for one instruction;   *)
(* an exit that recovery abandoned is the only one that may be followed by *)
(* another (claimInstruction).                                             *)
ExecutedOnce ==
    \A k \in Instructions : \A x, y \in Keys :
        action[<<k, x>>].sent /\ action[<<k, y>>].sent /\ x # y
            => "rejected" \in {action[<<k, x>>].st, action[<<k, y>>].st}

(* What the journal calls never submitted was never submitted, whatever    *)
(* was lost between the orders and the journal (recoverOrphanActions,      *)
(* processInstruction): a later revision may claim it again.               *)
RejectedNeverSent ==
    \A k \in Instructions, x \in Keys :
        action[<<k, x>>].st = "preflight_rejected" => ~action[<<k, x>>].sent

(* A signal is reported executed only when an action journaled for that    *)
(* very revision is done, by the handling or by recovery.                  *)
ExecutedIsReal ==
    \A r \in Revs : signal[r] = "executed" =>
        \E k \in Instructions, x \in Keys : action[<<k, x>>].rev = r /\ action[<<k, x>>].st = "done"

(* A consumed delivery whose signal has no outcome and is no longer one    *)
(* that either loop selects.                                               *)
Unattended(r) == delivery[r] = "done" /\ signal[r] \in Uncommitted /\ hand.rev # r

(* Every received revision gets an outcome, through failing models, lost   *)
(* writes, crashes and waiting, unless a retry of it was cut short; that   *)
(* one way out is NeverSwallowed.                                          *)
Received(r)   == delivery[r] # "none"
HasOutcome(r) == signal[r] \in Terminal \/ Unattended(r)
Resolves == \A r \in Revs : Received(r) ~> HasOutcome(r)

(* store/copytrade.go:510: "a crash mid-pipeline must not permanently      *)
(* swallow the revision": on a running engine no revision is unattended    *)
(* while recovery has no action of it to settle either.                    *)
NeverSwallowed ==
    \A r \in Revs : run = "up" /\ Unattended(r) =>
        \E k \in Instructions, x \in Keys :
            action[<<k, x>>].rev = r /\ action[<<k, x>>].st \in Unresolved

(* pipeline.go:84: a revision of the message "cannot reduce again" what an *)
(* earlier one reduced.                                                    *)
ReducedOnce ==
    \A k \in Instructions \ Entry : \A x, y \in Keys :
        action[<<k, x>>].sent /\ action[<<k, y>>].sent => x = y

=============================================================================
