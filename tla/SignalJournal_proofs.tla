------------ MODULE SignalJournal_proofs ------------------------------------
(***************************************************************************)
(* The action journal of one message, whatever is delivered again, edited, *)
(* lost or cut short, for every text, every number of revisions and every  *)
(* bound: a row is only ever claimed when no earlier one of the same       *)
(* instruction may have reached the venue.  The invariant says where the   *)
(* holder of the execution lock is (HandFits), what the rows of one        *)
(* instruction say of each other (JournalFits) and what the outcome of a   *)
(* revision counts on (RanIsReal).                                         *)
(***************************************************************************)
EXTENDS SignalJournal, SequenceTheorems, TLAPS

Statuses == {"none", "done", "revoked", "preflight_rejected", "rejected"} \union Unresolved
ActionType == [st : Statuses, rev : Keys, linked : BOOLEAN, sent : BOOLEAN]
HandType == [at : {"free", "model", "interpreted", "lock", "loop", "route", "finish"},
             rev : Keys, by : {"none", "dispatch", "retry"}, idx : Nat, key : Keys,
             waits : BOOLEAN, errs : BOOLEAN, ran : BOOLEAN, ok : BOOLEAN]

(* An instruction is under way only while its own row says "executing":    *)
(* recovery keeps off the journal until the execution lock is released.    *)
HandFits ==
    /\ hand.at # "free" => hand.rev \in Revs
    /\ hand.at = "loop" => hand.idx > 0
    /\ hand.at = "route" =>
         /\ hand.idx \in 1 .. Len(Text[hand.rev])
         /\ action[Here].st = "executing" /\ action[Here].rev = hand.rev

(* A row that a later revision may not claim again.                        *)
Active(a) == a.st \in {"done", "revoked"} \union Unresolved

(* What the rows of one instruction say of each other, and each of the     *)
(* order it stands for.                                                    *)
RowFits(k, a) ==
    /\ a.sent => a.st # "none"
    /\ a.sent /\ k \in Entry => a.linked
    /\ a.st = "preflight_rejected" => ~ a.sent
    /\ a.st # "none" => a.rev \in Revs

JournalFits ==
    \A k \in Instructions :
        /\ \A x \in Keys : RowFits(k, action[<<k, x>>])
        /\ \A x, y \in Keys : x # y => ~ (Active(action[<<k, x>>]) /\ Active(action[<<k, y>>]))

(* An instruction that counts as executed has a row of this revision.      *)
DoneFor(r) == \E k \in Instructions, x \in Keys : action[<<k, x>>].rev = r /\ action[<<k, x>>].st = "done"
RanIsReal == hand.ran => DoneFor(hand.rev)

SignalStatuses == {"none"} \union Uncommitted \union Waiting \union Terminal

IInv == SignalAssumption /\ TypeOK /\ HandFits /\ JournalFits /\ RanIsReal /\ ExecutedIsReal


-----------------------------------------------------------------------------
LEMMA Basics ==
    ASSUME IInv
    PROVE  /\ Free \in HandType /\ NoAction \in ActionType /\ 0 \in Keys /\ Revs \subseteq Keys
           /\ hand \in HandType /\ hand.rev \in Keys
           /\ action \in [Instructions \X Keys -> ActionType]
           /\ \A k \in Instructions, x \in Keys : action[<<k, x>>] \in ActionType
           /\ NoAction.st = "none" /\ ~ NoAction.sent
           /\ Free.at = "free" /\ ~ Free.ran
<1>1. /\ Free \in HandType /\ NoAction \in ActionType /\ 0 \in Keys /\ Revs \subseteq Keys
      /\ NoAction.st = "none" /\ ~ NoAction.sent /\ Free.at = "free" /\ ~ Free.ran
  BY DEF Free, NoAction, HandType, ActionType, Statuses, Keys
<1>2. hand \in HandType /\ action \in [Instructions \X Keys -> ActionType]
  BY DEF IInv, TypeOK, HandType, ActionType, Statuses
<1>3. hand.rev \in Keys
  BY <1>2 DEF HandType
<1> QED BY <1>1, <1>2, <1>3

LEMMA TextFacts ==
    ASSUME IInv, NEW r \in Revs, NEW i \in 1 .. Len(Text[r])
    PROVE  Text[r][i] \in Instructions
<1>1. Text \in Seq(Seq(Instructions)) /\ r \in 1 .. Len(Text)
  BY LenProperties DEF IInv, SignalAssumption, Revs
<1>2. Text[r] \in Seq(Instructions)
  BY <1>1, ElementOfSeq
<1> QED BY <1>2, ElementOfSeq


(* The ways a handling goes on.                                            *)
HandMove ==
    /\ hand' \in HandType
    /\ hand'.at # "free" => hand'.rev \in Revs
    /\ hand'.at = "loop" => hand'.idx > 0

LEMMA HandStays == IInv /\ hand' = hand => HandMove
BY Basics DEF HandMove, IInv, HandFits

LEMMA Leaves ==
    ASSUME IInv, hand.at # "free", NEW ok \in BOOLEAN, Leave(ok)
    PROVE  HandMove /\ hand'.at = "finish" /\ hand'.rev = hand.rev /\ ~ hand'.ran
<1>1. /\ hand' \in HandType /\ hand'.at = "finish" /\ hand'.rev = hand.rev /\ ~ hand'.ran
  BY Basics DEF Leave, HandType
<1> QED BY <1>1 DEF HandMove, IInv, HandFits

LEMMA Works ==
    ASSUME IInv, NEW r \in Revs, NEW by \in {"dispatch", "retry"},
           NEW at \in {"finish", "interpreted", "model"}, Work(r, by, at)
    PROVE  HandMove /\ hand'.at = at /\ ~ hand'.ran
<1>1. hand' \in HandType /\ hand'.at = at /\ hand'.rev = r /\ ~ hand'.ran
  BY Basics DEF Work, HandType
<1> QED BY <1>1 DEF HandMove

LEMMA Counts ==
    ASSUME IInv, hand.at \in {"loop", "route"},
           NEW result \in {"skip", "error", "wait", "ran"}, hand' = Counted(result)
    PROVE  /\ HandMove /\ hand'.at = "loop" /\ hand'.rev = hand.rev
           /\ hand'.ran => hand.ran \/ result = "ran"
<1>1. hand \in HandType /\ hand.idx \in Nat /\ 0 \in Keys
  BY Basics DEF HandType
<1> DEFINE i == hand.idx + 1
           w == hand.waits \/ result = "wait"
           e == hand.errs \/ result = "error"
           n == hand.ran \/ result = "ran"
<1>2. i \in Nat /\ i > 0
  BY <1>1
<1>3. w \in BOOLEAN /\ e \in BOOLEAN /\ n \in BOOLEAN
  OBVIOUS
<1>4. hand' = [hand EXCEPT !.at = "loop", !.idx = i, !.key = 0, !.waits = w, !.errs = e, !.ran = n]
  BY DEF Counted
<1>5. n => hand.ran \/ result = "ran"
  OBVIOUS
<1> HIDE DEF i, w, e, n
<1>6. /\ hand' \in HandType /\ hand'.at = "loop" /\ hand'.rev = hand.rev /\ hand'.idx = i
      /\ hand'.ran = n
  BY <1>1, <1>2, <1>3, <1>4 DEF HandType
<1> QED BY <1>2, <1>5, <1>6 DEF HandMove, IInv, HandFits

LEMMA HandledStep ==
    ASSUME IInv, NEW r \in Revs, NEW by \in {"dispatch", "retry"}, HandleMessage(r, by)
    PROVE  HandMove /\ hand'.at \in {"finish", "interpreted", "model"} /\ ~ hand'.ran
<1>1. \E at \in {"finish", "interpreted", "model"} : Work(r, by, at)
  BY DEF HandleMessage
<1> QED BY <1>1, Works

(* Every step leaves the handler where its revision is known. *)
LEMMA HandStep == IInv /\ [Next]_vars => HandMove
<1> SUFFICES ASSUME IInv, [Next]_vars PROVE HandMove
  OBVIOUS
<1>1. ASSUME NEW r \in Revs, Receive(r) PROVE HandMove
  <2>1. hand' = hand
    BY <1>1 DEF Receive, vars
  <2> QED BY <2>1, HandStays
<1>2. ASSUME NEW r \in Revs, Dispatch(r) PROVE HandMove
  <2>1. HandleMessage(r, "dispatch")
    BY <1>2 DEF Dispatch
  <2> QED BY <2>1, HandledStep
<1>3. ASSUME NEW r \in Revs, Retry(r) PROVE HandMove
  <2>1. HandleMessage(r, "retry")
    BY <1>3 DEF Retry
  <2> QED BY <2>1, HandledStep
<1>4. ASSUME NEW t \in {Post} \union Revs, Expire(t) PROVE HandMove
  <2>1. hand' = hand
    BY <1>4 DEF Expire, vars
  <2> QED BY <2>1, HandStays
<1>5. CASE ModelAnswers
  <2>1. CASE hand.at = "model" /\ hand' = [hand EXCEPT !.at = "interpreted"]
    <3>1. hand' \in HandType /\ hand'.at = "interpreted" /\ hand'.rev = hand.rev
      BY <2>1, Basics DEF HandType
    <3> QED BY <2>1, <3>1 DEF HandMove, IInv, HandFits
  <2>2. CASE hand.at # "free" /\ \E ok \in BOOLEAN : Leave(ok)
    BY <2>2, Leaves
  <2> QED BY <1>5, <2>1, <2>2 DEF ModelAnswers
<1>6. CASE DeferRetry
  <2>1. hand.at # "free" /\ \E ok \in BOOLEAN : Leave(ok)
    BY <1>6 DEF DeferRetry, Conclude
  <2> QED BY <2>1, Leaves
<1>7. CASE ModelFails
  <2>1. hand.at # "free" /\ \E ok \in BOOLEAN : Leave(ok)
    BY <1>7 DEF ModelFails, Conclude
  <2> QED BY <2>1, Leaves
<1>8. CASE Interrupted
  <2>1. hand.at # "free" /\ \E ok \in BOOLEAN : Leave(ok)
    BY <1>8 DEF Interrupted, Conclude
  <2> QED BY <2>1, Leaves
<1>9. CASE StoreInterpretation
  <2>1. CASE hand.at = "interpreted" /\ hand' = [hand EXCEPT !.at = "lock"]
    <3>1. hand' \in HandType /\ hand'.at = "lock" /\ hand'.rev = hand.rev
      BY <2>1, Basics DEF HandType
    <3> QED BY <2>1, <3>1 DEF HandMove, IInv, HandFits
  <2>2. CASE hand.at # "free" /\ \E ok \in BOOLEAN : Leave(ok)
    BY <2>2, Leaves
  <2> QED BY <1>9, <2>1, <2>2 DEF StoreInterpretation
<1>10. CASE BeginExecution
  <2>1. CASE hand.at = "lock" /\ hand' = [hand EXCEPT !.at = "loop", !.idx = 1]
    <3>1. hand' \in HandType /\ hand'.at = "loop" /\ hand'.rev = hand.rev /\ hand'.idx = 1
      BY <2>1, Basics DEF HandType
    <3> QED BY <2>1, <3>1 DEF HandMove, IInv, HandFits
  <2>2. CASE hand.at # "free" /\ \E ok \in BOOLEAN : Leave(ok)
    BY <2>2, Leaves
  <2> QED BY <1>10, <2>1, <2>2 DEF BeginExecution
<1>11. CASE Lapse
  <2>1. hand.at \in {"loop", "route"} /\ \E result \in {"skip", "error", "wait", "ran"} : hand' = Counted(result)
    BY <1>11 DEF Lapse, AtInstruction
  <2> QED BY <2>1, Counts
<1>12. CASE Gate
  <2>1. hand.at \in {"loop", "route"} /\ \E result \in {"skip", "error", "wait", "ran"} : hand' = Counted(result)
    BY <1>12 DEF Gate, AtInstruction
  <2> QED BY <2>1, Counts
<1>13. CASE Claim
  <2>0. hand.at = "loop"
    BY <1>13 DEF Claim, AtInstruction
  <2>1. CASE \E result \in {"skip", "error", "wait", "ran"} : hand' = Counted(result)
    BY <2>0, <2>1, Counts
  <2>2. CASE \E key \in Keys : hand' = [hand EXCEPT !.at = "route", !.key = key]
    <3>1. hand' \in HandType /\ hand'.at = "route" /\ hand'.rev = hand.rev
      BY <2>2, Basics DEF HandType
    <3> QED BY <2>0, <3>1 DEF HandMove, IInv, HandFits
  <2> DEFINE key == IF Recorded(Instruction) = {} THEN 0 ELSE hand.rev
  <2>3. key \in Keys
    BY Basics
  <2>4. \A a : NotClaimed(a) \in {"skip", "error", "wait", "ran"}
    BY DEF NotClaimed
  <2>5. \/ \E x \in Keys : hand' = Counted(NotClaimed(action[<<Instruction, x>>]))
        \/ hand' = Counted("wait")
        \/ hand' = [hand EXCEPT !.at = "route", !.key = key]
    BY <1>13 DEF Claim, Recorded
  <2> HIDE DEF key
  <2> QED BY <2>1, <2>2, <2>3, <2>4, <2>5
<1>14. CASE CreateManagedPlan
  <2>1. hand' = hand
    BY <1>14 DEF CreateManagedPlan, vars
  <2> QED BY <2>1, HandStays
<1>15. CASE Send
  <2>1. hand' = hand
    BY <1>15 DEF Send, vars
  <2> QED BY <2>1, HandStays
<1>16. CASE JournalOutcome
  <2>1. hand.at \in {"loop", "route"} /\ \E result \in {"skip", "error", "wait", "ran"} : hand' = Counted(result)
    <3>1. \A o \in Routed : o[2] \in {"skip", "error", "wait", "ran"}
      BY DEF Routed
    <3> QED BY <1>16, <3>1 DEF JournalOutcome
  <2> QED BY <2>1, Counts
<1>17. CASE CommitOutcome
  <2>1. hand.at # "free" /\ \E ok \in BOOLEAN : Leave(ok)
    BY <1>17 DEF CommitOutcome, Conclude
  <2> QED BY <2>1, Leaves
<1>18. CASE FinishDelivery
  <2>1. hand' = Free
    BY <1>18 DEF FinishDelivery
  <2> QED BY <2>1, Basics DEF HandMove
<1>19. ASSUME NEW k \in Instructions, NEW x \in Keys, RecoverOrphan(k, x) PROVE HandMove
  <2>1. hand' = hand
    BY <1>19 DEF RecoverOrphan, vars
  <2> QED BY <2>1, HandStays
<1>20. ASSUME NEW k \in Instructions, NEW x \in Keys, RecoverSend(k, x) PROVE HandMove
  <2>1. hand' = hand
    BY <1>20 DEF RecoverSend, vars
  <2> QED BY <2>1, HandStays
<1>21. ASSUME NEW k \in Instructions, NEW x \in Keys, RecoverDone(k, x) PROVE HandMove
  <2>1. hand' = hand
    BY <1>21 DEF RecoverDone, vars
  <2> QED BY <2>1, HandStays
<1>22. ASSUME NEW k \in Instructions, NEW x \in Keys, RecoverEnded(k, x) PROVE HandMove
  <2>1. hand' = hand
    BY <1>22 DEF RecoverEnded, vars
  <2> QED BY <2>1, HandStays
<1>23. ASSUME NEW k \in Instructions, NEW x \in Keys, RecoverAbandon(k, x) PROVE HandMove
  <2>1. hand' = hand
    BY <1>23 DEF RecoverAbandon, vars
  <2> QED BY <2>1, HandStays
<1>24. CASE Stop
  <2>1. hand' = hand
    BY <1>24 DEF Stop, vars
  <2> QED BY <2>1, HandStays
<1>25. CASE Stopped
  <2>1. hand' = hand
    BY <1>25 DEF Stopped, vars
  <2> QED BY <2>1, HandStays
<1>26. CASE Crash
  <2>1. hand' = Free
    BY <1>26 DEF Crash
  <2> QED BY <2>1, Basics DEF HandMove
<1>27. CASE Start
  <2>1. hand' = hand
    BY <1>27 DEF Start, vars
  <2> QED BY <2>1, HandStays
<1>28. CASE UNCHANGED vars
  <2>1. hand' = hand
    BY <1>28 DEF vars, vars
  <2> QED BY <2>1, HandStays
<1> QED BY <1>1, <1>2, <1>3, <1>4, <1>5, <1>6, <1>7, <1>8, <1>9, <1>10, <1>11, <1>12, <1>13,
           <1>14, <1>15, <1>16, <1>17, <1>18, <1>19, <1>20, <1>21, <1>22, <1>23, <1>24, <1>25,
           <1>26, <1>27, <1>28 DEF Next, Handling, Recovery

(* Every step of the journal.                                              *)
ActionMove ==
    /\ action' \in [Instructions \X Keys -> ActionType]
    /\ JournalFits'
    /\ \A k \in Instructions, x \in Keys :
         action[<<k, x>>].st = "done" => /\ action'[<<k, x>>].st = "done"
                                     /\ action'[<<k, x>>].rev = action[<<k, x>>].rev

LEMMA ActionStays == IInv /\ action' = action => ActionMove
BY Basics DEF ActionMove, IInv, JournalFits, RowFits, Active

(* One row changes, and either it was active or no row of its instruction  *)
(* is.                                                                     *)
LEMMA RowChanges ==
    ASSUME IInv, NEW k \in Instructions, NEW x \in Keys, NEW a \in ActionType,
           action' = [action EXCEPT ![<<k, x>>] = a],
           RowFits(k, a), action[<<k, x>>].st # "done",
           (Active(action[<<k, x>>]) \/ ~ Active(a) \/ (\A y \in Keys : ~ Active(action[<<k, y>>])))
    PROVE  ActionMove
<1>1. /\ action' \in [Instructions \X Keys -> ActionType]
      /\ action'[<<k, x>>] = a
      /\ \A j \in Instructions, y \in Keys : <<j, y>> # <<k, x>> => action'[<<j, y>>] = action[<<j, y>>]
  BY Basics
<1>2. \A j \in Instructions, y \in Keys : RowFits(j, action'[<<j, y>>])
  BY <1>1 DEF IInv, JournalFits
<1>3. ASSUME NEW j \in Instructions, NEW y \in Keys, NEW z \in Keys, y # z,
             Active(action'[<<j, y>>]), Active(action'[<<j, z>>])
      PROVE  FALSE
  <2>1. CASE j # k
    BY <1>1, <1>3, <2>1 DEF IInv, JournalFits
  <2>2. CASE j = k /\ y # x /\ z # x
    BY <1>1, <1>3, <2>2 DEF IInv, JournalFits
  <2>3. CASE j = k /\ y = x
    BY <1>1, <1>3, <2>3 DEF IInv, JournalFits
  <2>4. CASE j = k /\ z = x
    BY <1>1, <1>3, <2>4 DEF IInv, JournalFits
  <2> QED BY <2>1, <2>2, <2>3, <2>4
<1>4. JournalFits'
  BY <1>2, <1>3 DEF JournalFits, RowFits, Active
<1> QED BY <1>1, <1>4 DEF ActionMove


(* While an instruction is under way its row is a row of the journal.      *)
LEMMA HereFacts ==
    ASSUME IInv, hand.at = "route"
    PROVE  /\ Instruction \in Instructions /\ hand.key \in Keys
           /\ action[Here] = action[<<Instruction, hand.key>>]
           /\ action[Here] \in ActionType
           /\ action[Here].st = "executing" /\ action[Here].rev = hand.rev
           /\ RowFits(Instruction, action[Here])
<1>1. hand.rev \in Revs /\ hand.idx \in 1 .. Len(Text[hand.rev])
  BY DEF IInv, HandFits
<1>2. Instruction \in Instructions
  BY <1>1, TextFacts DEF Instruction
<1>3. hand.key \in Keys
  BY Basics DEF HandType
<1>4. action[Here] = action[<<Instruction, hand.key>>]
  BY DEF Here
<1> QED BY <1>2, <1>3, <1>4, Basics DEF IInv, HandFits, JournalFits


LEMMA AtText ==
    ASSUME IInv, AtInstruction
    PROVE  Instruction \in Instructions
<1>1. hand.rev \in Revs /\ hand.idx \in Nat /\ hand.idx > 0
  BY Basics DEF IInv, HandFits, AtInstruction, HandType
<1>2. Text[hand.rev] \in Seq(Instructions)
  BY <1>1, ElementOfSeq, LenProperties DEF IInv, SignalAssumption, Revs
<1>3. hand.idx \in 1 .. Len(Text[hand.rev])
  BY <1>1, <1>2, LenProperties DEF AtInstruction
<1> QED BY <1>1, <1>3, TextFacts DEF Instruction

(* What each step writes in the journal. *)
LEMMA ActionStep == IInv /\ [Next]_vars => ActionMove
<1> SUFFICES ASSUME IInv, [Next]_vars PROVE ActionMove
  OBVIOUS
<1>1. ASSUME NEW r \in Revs, Receive(r) PROVE ActionMove
  <2>1. action' = action
    BY <1>1 DEF Receive, vars
  <2> QED BY <2>1, ActionStays
<1>2. ASSUME NEW r \in Revs, Dispatch(r) PROVE ActionMove
  <2>1. action' = action
    BY <1>2 DEF Dispatch, vars
  <2> QED BY <2>1, ActionStays
<1>3. ASSUME NEW r \in Revs, Retry(r) PROVE ActionMove
  <2>1. action' = action
    BY <1>3 DEF Retry, vars
  <2> QED BY <2>1, ActionStays
<1>4. ASSUME NEW t \in {Post} \union Revs, Expire(t) PROVE ActionMove
  <2>1. action' = action
    BY <1>4 DEF Expire, vars
  <2> QED BY <2>1, ActionStays
<1>5. CASE ModelAnswers
  <2>1. action' = action
    BY <1>5 DEF ModelAnswers, vars
  <2> QED BY <2>1, ActionStays
<1>6. CASE DeferRetry
  <2>1. action' = action
    BY <1>6 DEF DeferRetry, vars
  <2> QED BY <2>1, ActionStays
<1>7. CASE ModelFails
  <2>1. action' = action
    BY <1>7 DEF ModelFails, vars
  <2> QED BY <2>1, ActionStays
<1>8. CASE Interrupted
  <2>1. action' = action
    BY <1>8 DEF Interrupted, vars
  <2> QED BY <2>1, ActionStays
<1>9. CASE StoreInterpretation
  <2>1. action' = action
    BY <1>9 DEF StoreInterpretation, vars
  <2> QED BY <2>1, ActionStays
<1>10. CASE BeginExecution
  <2>1. action' = action
    BY <1>10 DEF BeginExecution, vars
  <2> QED BY <2>1, ActionStays
<1>11. CASE Lapse
  <2>1. action' = action
    BY <1>11 DEF Lapse, vars
  <2> QED BY <2>1, ActionStays
<1>12. CASE Gate
  <2>1. action' = action
    BY <1>12 DEF Gate, vars
  <2> QED BY <2>1, ActionStays
<1>13. CASE Claim
  <2> DEFINE k == Instruction
             key == IF Recorded(k) = {} THEN 0 ELSE hand.rev
             a == [NoAction EXCEPT !.st = "executing", !.rev = hand.rev]
  <2>1. CASE action' = action
    BY <2>1, ActionStays
  <2>2. CASE action' # action
    <3>1. /\ \A x \in Recorded(k) : Retryable(action[<<k, x>>], hand.rev)
          /\ key \notin Recorded(k)
          /\ action' = [action EXCEPT ![<<k, key>>] = a]
      BY <1>13, <2>2 DEF Claim
    <3>2. hand.rev \in Revs /\ k \in Instructions /\ key \in Keys
      BY <1>13, Basics, AtText DEF Claim, IInv, HandFits, AtInstruction
    <3>3. a \in ActionType /\ RowFits(k, a)
      BY <3>2, Basics DEF NoAction, ActionType, Statuses, Unresolved, RowFits
    <3>4. \A y \in Keys : ~ Active(action[<<k, y>>])
      BY <3>1 DEF Recorded, Retryable, Active, Unresolved
    <3>5. action[<<k, key>>].st # "done"
      BY <3>1, <3>2 DEF Recorded
    <3> HIDE DEF k, key, a
    <3> QED BY <3>1, <3>2, <3>3, <3>4, <3>5, RowChanges
  <2> QED BY <2>1, <2>2
<1>14. CASE CreateManagedPlan
  <2>0. hand.at = "route"
    BY <1>14 DEF CreateManagedPlan
  <2> DEFINE o == action[<<Instruction, hand.key>>]
             a == [o EXCEPT !.linked = TRUE]
  <2>1. /\ Instruction \in Instructions /\ hand.key \in Keys /\ o \in ActionType
        /\ o.st = "executing" /\ RowFits(Instruction, o) /\ o.rev = hand.rev
    BY <2>0, HereFacts
  <2>2. action' = [action EXCEPT ![<<Instruction, hand.key>>] = a]
    BY <1>14, Basics DEF CreateManagedPlan, Here
  <2>3. a \in ActionType /\ RowFits(Instruction, a)
    BY <1>14, <2>1 DEF CreateManagedPlan, ActionType, RowFits, Here
  <2>4. Active(action[<<Instruction, hand.key>>]) /\ action[<<Instruction, hand.key>>].st # "done"
    BY <2>1 DEF Active, Unresolved
  <2> HIDE DEF a
  <2> QED BY <2>1, <2>2, <2>3, <2>4, RowChanges
<1>15. CASE Send
  <2>0. hand.at = "route"
    BY <1>15 DEF Send
  <2> DEFINE o == action[<<Instruction, hand.key>>]
             a == [o EXCEPT !.sent = TRUE]
  <2>1. /\ Instruction \in Instructions /\ hand.key \in Keys /\ o \in ActionType
        /\ o.st = "executing" /\ RowFits(Instruction, o) /\ o.rev = hand.rev
    BY <2>0, HereFacts
  <2>2. action' = [action EXCEPT ![<<Instruction, hand.key>>] = a]
    BY <1>15, Basics DEF Send, Here
  <2>3. a \in ActionType /\ RowFits(Instruction, a)
    BY <1>15, <2>1 DEF Send, ActionType, RowFits, Here
  <2>4. Active(action[<<Instruction, hand.key>>]) /\ action[<<Instruction, hand.key>>].st # "done"
    BY <2>1 DEF Active, Unresolved
  <2> HIDE DEF a
  <2> QED BY <2>1, <2>2, <2>3, <2>4, RowChanges
<1>16. CASE JournalOutcome
  <2>1. CASE action' = action
    BY <2>1, ActionStays
  <2>2. CASE \E p \in Routed : action' = [action EXCEPT ![Here].st = p[1]]
    <3>0. hand.at = "route"
      BY <1>16 DEF JournalOutcome
    <3>1. PICK p \in Routed : action' = [action EXCEPT ![Here].st = p[1]]
      BY <2>2
    <3> DEFINE o == action[<<Instruction, hand.key>>]
               st == p[1]
               a == [o EXCEPT !.st = st]
    <3>2. /\ Instruction \in Instructions /\ hand.key \in Keys /\ o \in ActionType
          /\ o.st = "executing" /\ RowFits(Instruction, o) /\ o.rev = hand.rev
          /\ action[Here] = o
      BY <3>0, HereFacts
    <3>3. st \in Statuses \ {"none"}
      BY DEF Routed, Statuses, Unresolved
    <3>4. st = "preflight_rejected" => ~ o.sent
      BY <3>2 DEF Routed
    <3>5. action' = [action EXCEPT ![<<Instruction, hand.key>>] = a]
      BY <3>1, Basics DEF Here
    <3> HIDE DEF st
    <3>6. a \in ActionType /\ RowFits(Instruction, a)
      BY <3>2, <3>3, <3>4 DEF ActionType, RowFits
    <3>7. Active(action[<<Instruction, hand.key>>]) /\ action[<<Instruction, hand.key>>].st # "done"
      BY <3>2 DEF Active, Unresolved
    <3> HIDE DEF a
    <3> QED BY <3>2, <3>5, <3>6, <3>7, RowChanges
  <2> QED BY <1>16, <2>1, <2>2 DEF JournalOutcome
<1>17. CASE CommitOutcome
  <2>1. action' = action
    BY <1>17 DEF CommitOutcome, vars
  <2> QED BY <2>1, ActionStays
<1>18. CASE FinishDelivery
  <2>1. action' = action
    BY <1>18 DEF FinishDelivery, vars
  <2> QED BY <2>1, ActionStays
<1>19. ASSUME NEW k \in Instructions, NEW x \in Keys, RecoverOrphan(k, x) PROVE ActionMove
  <2> DEFINE o == action[<<k, x>>]
             a == [o EXCEPT !.st = "preflight_rejected"]
  <2>1. o \in ActionType /\ RowFits(k, o) /\ o.st \in Unresolved
    BY <1>19, Basics DEF IInv, JournalFits, RecoverOrphan, Recovering
  <2>2. action' = [action EXCEPT ![<<k, x>>] = a]
    BY <1>19, Basics DEF RecoverOrphan, Settles
  <2>3. a \in ActionType /\ RowFits(k, a)
    BY <1>19, <2>1 DEF RecoverOrphan, ActionType, Statuses, Unresolved, RowFits
  <2>4. Active(o) /\ o.st # "done"
    BY <2>1 DEF Active, Unresolved
  <2> HIDE DEF a
  <2> QED BY <2>2, <2>3, <2>4, RowChanges
<1>20. ASSUME NEW k \in Instructions, NEW x \in Keys, RecoverSend(k, x) PROVE ActionMove
  <2> DEFINE o == action[<<k, x>>]
             a == [o EXCEPT !.sent = TRUE]
  <2>1. o \in ActionType /\ RowFits(k, o) /\ o.st \in Unresolved
    BY <1>20, Basics DEF IInv, JournalFits, RecoverSend, Recovering
  <2>2. action' = [action EXCEPT ![<<k, x>>] = a]
    BY <1>20, Basics DEF RecoverSend, Settles
  <2>3. a \in ActionType /\ RowFits(k, a)
    BY <1>20, <2>1 DEF RecoverSend, ActionType, Statuses, Unresolved, RowFits
  <2>4. Active(o) /\ o.st # "done"
    BY <2>1 DEF Active, Unresolved
  <2> HIDE DEF a
  <2> QED BY <2>2, <2>3, <2>4, RowChanges
<1>21. ASSUME NEW k \in Instructions, NEW x \in Keys, RecoverDone(k, x) PROVE ActionMove
  <2> DEFINE o == action[<<k, x>>]
             a == [o EXCEPT !.st = "done"]
  <2>1. o \in ActionType /\ RowFits(k, o) /\ o.st \in Unresolved
    BY <1>21, Basics DEF IInv, JournalFits, RecoverDone, Recovering
  <2>2. action' = [action EXCEPT ![<<k, x>>] = a]
    BY <1>21, Basics DEF RecoverDone, Settles
  <2>3. a \in ActionType /\ RowFits(k, a)
    BY <1>21, <2>1 DEF RecoverDone, ActionType, Statuses, Unresolved, RowFits
  <2>4. Active(o) /\ o.st # "done"
    BY <2>1 DEF Active, Unresolved
  <2> HIDE DEF a
  <2> QED BY <2>2, <2>3, <2>4, RowChanges
<1>22. ASSUME NEW k \in Instructions, NEW x \in Keys, RecoverEnded(k, x) PROVE ActionMove
  <2>0. PICK st \in {"revoked", "done"} : Settles(k, x, st)
    BY <1>22 DEF RecoverEnded
  <2> DEFINE o == action[<<k, x>>]
             a == [o EXCEPT !.st = st]
  <2>1. o \in ActionType /\ RowFits(k, o) /\ o.st \in Unresolved
    BY <1>22, Basics DEF IInv, JournalFits, RecoverEnded, Recovering
  <2>2. action' = [action EXCEPT ![<<k, x>>] = a]
    BY <2>0, Basics DEF Settles
  <2>3. a \in ActionType /\ RowFits(k, a)
    BY <2>0, <2>1 DEF ActionType, Statuses, Unresolved, RowFits
  <2>4. Active(o) /\ o.st # "done"
    BY <2>1 DEF Active, Unresolved
  <2> HIDE DEF a
  <2> QED BY <2>2, <2>3, <2>4, RowChanges
<1>23. ASSUME NEW k \in Instructions, NEW x \in Keys, RecoverAbandon(k, x) PROVE ActionMove
  <2> DEFINE o == action[<<k, x>>]
             a == [o EXCEPT !.st = "rejected"]
  <2>1. o \in ActionType /\ RowFits(k, o) /\ o.st \in Unresolved
    BY <1>23, Basics DEF IInv, JournalFits, RecoverAbandon, Recovering
  <2>2. action' = [action EXCEPT ![<<k, x>>] = a]
    BY <1>23, Basics DEF RecoverAbandon, Settles
  <2>3. a \in ActionType /\ RowFits(k, a)
    BY <1>23, <2>1 DEF RecoverAbandon, ActionType, Statuses, Unresolved, RowFits
  <2>4. Active(o) /\ o.st # "done"
    BY <2>1 DEF Active, Unresolved
  <2> HIDE DEF a
  <2> QED BY <2>2, <2>3, <2>4, RowChanges
<1>24. CASE Stop
  <2>1. action' = action
    BY <1>24 DEF Stop, vars
  <2> QED BY <2>1, ActionStays
<1>25. CASE Stopped
  <2>1. action' = action
    BY <1>25 DEF Stopped, vars
  <2> QED BY <2>1, ActionStays
<1>26. CASE Crash
  <2>1. action' = action
    BY <1>26 DEF Crash, vars
  <2> QED BY <2>1, ActionStays
<1>27. CASE Start
  <2>1. action' = action
    BY <1>27 DEF Start, vars
  <2> QED BY <2>1, ActionStays
<1>28. CASE UNCHANGED vars
  <2>1. action' = action
    BY <1>28 DEF vars, vars
  <2> QED BY <2>1, ActionStays
<1> QED BY <1>1, <1>2, <1>3, <1>4, <1>5, <1>6, <1>7, <1>8, <1>9, <1>10, <1>11, <1>12, <1>13,
           <1>14, <1>15, <1>16, <1>17, <1>18, <1>19, <1>20, <1>21, <1>22, <1>23, <1>24, <1>25,
           <1>26, <1>27, <1>28 DEF Next, Handling, Recovery

-----------------------------------------------------------------------------
(* Nothing that was done is undone.                                        *)
DoneAfter(r) ==
    \E k \in Instructions, x \in Keys : action'[<<k, x>>].rev = r /\ action'[<<k, x>>].st = "done"

LEMMA StaysDone ==
    ASSUME IInv, ActionMove, NEW r \in Revs, DoneFor(r)
    PROVE  DoneAfter(r)
BY DEF ActionMove, DoneFor, DoneAfter

(* A write of a status, or its loss.                                       *)
SignalMove ==
    /\ signal' \in [Revs -> SignalStatuses]
    /\ faults' \in 0 .. MaxFaults
    /\ \A q \in Revs : signal'[q] = "executed" => signal[q] = "executed" \/ DoneAfter(q)

LEMMA SignalFacts ==
    ASSUME IInv
    PROVE  /\ signal \in [Revs -> SignalStatuses]
           /\ faults \in 0 .. MaxFaults /\ MaxFaults \in Nat
           /\ MaxStops \in Nat /\ stops \in 0 .. MaxStops
BY DEF IInv, TypeOK, SignalAssumption, SignalStatuses

LEMMA NoWrite == IInv /\ UNCHANGED <<signal, faults>> => SignalMove
BY SignalFacts DEF SignalMove

LEMMA LostWrite == IInv /\ NotPersisted => SignalMove
BY SignalFacts DEF SignalMove, NotPersisted, Faulty

LEMMA Write ==
    ASSUME IInv, NEW r \in Revs, NEW s \in SignalStatuses, Persisted(r, s),
           s = "executed" => DoneAfter(r)
    PROVE  SignalMove
BY SignalFacts DEF SignalMove, Persisted

LEMMA Handled ==
    ASSUME IInv, NEW r \in Revs, NEW by \in {"dispatch", "retry"}, HandleMessage(r, by)
    PROVE  SignalMove
<1>1. CASE UNCHANGED <<signal, faults>>
  BY <1>1, NoWrite
<1>2. CASE \E s \in {"skipped", "interpreting", "received"} : Persisted(r, s)
  BY <1>2, Write DEF SignalStatuses, Uncommitted, Terminal
<1>3. CASE Persisted(r, signal[r])
  BY <1>3, SignalFacts DEF SignalMove, Persisted
<1> QED BY <1>1, <1>2, <1>3 DEF HandleMessage

LEMMA Synced ==
    ASSUME IInv, NEW k \in Instructions, NEW x \in Keys, NEW s \in {"executed", "skipped"},
           Sync(k, x, s), action[<<k, x>>].rev \in Revs,
           s = "executed" => DoneAfter(action[<<k, x>>].rev)
    PROVE  SignalMove
<1> DEFINE r == action[<<k, x>>].rev
<1>1. \/ Persisted(r, s) \/ NotPersisted
      \/ UNCHANGED <<signal, faults>>
  BY DEF Sync
<1>2. s \in SignalStatuses
  BY DEF SignalStatuses, Terminal
<1>3. r \in Revs /\ (s = "executed" => DoneAfter(r))
  OBVIOUS
<1> HIDE DEF r
<1> QED BY <1>1, <1>2, <1>3, Write, LostWrite, NoWrite


LEMMA RanRevision == IInv /\ hand.ran => hand.rev \in Revs
<1> SUFFICES ASSUME IInv, hand.ran PROVE hand.rev \in Revs
  OBVIOUS
<1>1. PICK k \in Instructions, x \in Keys :
             action[<<k, x>>].rev = hand.rev /\ action[<<k, x>>].st = "done"
  BY DEF IInv, RanIsReal, DoneFor
<1>2. RowFits(k, action[<<k, x>>])
  BY DEF IInv, JournalFits
<1> QED BY <1>1, <1>2 DEF RowFits

LEMMA AtIndex ==
    ASSUME IInv, AtInstruction
    PROVE  hand.idx \in 1 .. Len(Text[hand.rev])
<1>1. hand.rev \in Revs /\ hand.idx \in Nat /\ hand.idx > 0
  BY Basics DEF IInv, HandFits, AtInstruction, HandType
<1>2. Text[hand.rev] \in Seq(Instructions)
  BY <1>1, ElementOfSeq, LenProperties DEF IInv, SignalAssumption, Revs
<1> QED BY <1>1, <1>2, LenProperties DEF AtInstruction

(* The instruction under way keeps its row, and what ran has one that is done. *)
LEMMA RouteStep == IInv /\ [Next]_vars => HandFits' /\ RanIsReal'
<1> SUFFICES ASSUME IInv, [Next]_vars PROVE HandFits' /\ RanIsReal'
  OBVIOUS
<1>1. ASSUME NEW r \in Revs, Receive(r) PROVE HandFits' /\ RanIsReal'
  <2>1. hand' = hand /\ action' = action
    BY <1>1 DEF Receive, vars
  <2> QED BY <2>1 DEF IInv, HandFits, RanIsReal, DoneFor, Here, Instruction
<1>2. ASSUME NEW r \in Revs, Dispatch(r) PROVE HandFits' /\ RanIsReal'
  <2>0. HandleMessage(r, "dispatch")
    BY <1>2 DEF Dispatch
  <2>1. hand'.at # "route" /\ ~ hand'.ran
    BY <2>0, HandledStep
  <2> QED BY <2>1, HandStep DEF HandMove, HandFits, RanIsReal
<1>3. ASSUME NEW r \in Revs, Retry(r) PROVE HandFits' /\ RanIsReal'
  <2>0. HandleMessage(r, "retry")
    BY <1>3 DEF Retry
  <2>1. hand'.at # "route" /\ ~ hand'.ran
    BY <2>0, HandledStep
  <2> QED BY <2>1, HandStep DEF HandMove, HandFits, RanIsReal
<1>4. ASSUME NEW t \in {Post} \union Revs, Expire(t) PROVE HandFits' /\ RanIsReal'
  <2>1. hand' = hand /\ action' = action
    BY <1>4 DEF Expire, vars
  <2> QED BY <2>1 DEF IInv, HandFits, RanIsReal, DoneFor, Here, Instruction
<1>5. CASE ModelAnswers
  <2>1. CASE hand.at = "model" /\ hand' = [hand EXCEPT !.at = "interpreted"] /\ action' = action
    <3>1. hand'.at = "interpreted" /\ hand'.rev = hand.rev /\ hand'.ran = hand.ran
      BY <2>1, Basics DEF HandType
    <3> QED BY <2>1, <3>1, HandStep DEF HandMove, HandFits, RanIsReal, DoneFor, IInv
  <2>2. CASE hand.at # "free" /\ \E ok \in BOOLEAN : Leave(ok)
    <3>1. hand'.at # "route" /\ ~ hand'.ran
      BY <2>2, Leaves
    <3> QED BY <3>1, HandStep DEF HandMove, HandFits, RanIsReal
  <2> QED BY <1>5, <2>1, <2>2 DEF ModelAnswers
<1>6. CASE DeferRetry
  <2>0. hand.at # "free" /\ \E ok \in BOOLEAN : Leave(ok)
    BY <1>6 DEF DeferRetry, Conclude
  <2>1. hand'.at # "route" /\ ~ hand'.ran
    BY <2>0, Leaves
  <2> QED BY <2>1, HandStep DEF HandMove, HandFits, RanIsReal
<1>7. CASE ModelFails
  <2>0. hand.at # "free" /\ \E ok \in BOOLEAN : Leave(ok)
    BY <1>7 DEF ModelFails, Conclude
  <2>1. hand'.at # "route" /\ ~ hand'.ran
    BY <2>0, Leaves
  <2> QED BY <2>1, HandStep DEF HandMove, HandFits, RanIsReal
<1>8. CASE Interrupted
  <2>0. hand.at # "free" /\ \E ok \in BOOLEAN : Leave(ok)
    BY <1>8 DEF Interrupted, Conclude
  <2>1. hand'.at # "route" /\ ~ hand'.ran
    BY <2>0, Leaves
  <2> QED BY <2>1, HandStep DEF HandMove, HandFits, RanIsReal
<1>9. CASE StoreInterpretation
  <2>1. CASE hand.at = "interpreted" /\ hand' = [hand EXCEPT !.at = "lock"] /\ action' = action
    <3>1. hand'.at = "lock" /\ hand'.rev = hand.rev /\ hand'.ran = hand.ran
      BY <2>1, Basics DEF HandType
    <3> QED BY <2>1, <3>1, HandStep DEF HandMove, HandFits, RanIsReal, DoneFor, IInv
  <2>2. CASE hand.at # "free" /\ \E ok \in BOOLEAN : Leave(ok)
    <3>1. hand'.at # "route" /\ ~ hand'.ran
      BY <2>2, Leaves
    <3> QED BY <3>1, HandStep DEF HandMove, HandFits, RanIsReal
  <2> QED BY <1>9, <2>1, <2>2 DEF StoreInterpretation
<1>10. CASE BeginExecution
  <2>1. CASE hand.at = "lock" /\ hand' = [hand EXCEPT !.at = "loop", !.idx = 1] /\ action' = action
    <3>1. hand'.at = "loop" /\ hand'.rev = hand.rev /\ hand'.ran = hand.ran
      BY <2>1, Basics DEF HandType
    <3> QED BY <2>1, <3>1, HandStep DEF HandMove, HandFits, RanIsReal, DoneFor, IInv
  <2>2. CASE hand.at # "free" /\ \E ok \in BOOLEAN : Leave(ok)
    <3>1. hand'.at # "route" /\ ~ hand'.ran
      BY <2>2, Leaves
    <3> QED BY <3>1, HandStep DEF HandMove, HandFits, RanIsReal
  <2> QED BY <1>10, <2>1, <2>2 DEF BeginExecution
<1>11. CASE Lapse
  <2>1. hand.at \in {"loop", "route"} /\ action' = action /\ \E result \in {"skip"} : hand' = Counted(result)
    BY <1>11 DEF Lapse, AtInstruction
  <2>2. hand'.at = "loop" /\ hand'.rev = hand.rev /\ (hand'.ran => hand.ran)
    BY <2>1, Counts
  <2> QED BY <2>1, <2>2, HandStep DEF HandMove, HandFits, RanIsReal, DoneFor, IInv
<1>12. CASE Gate
  <2>1. hand.at \in {"loop", "route"} /\ action' = action /\ \E result \in {"skip", "error", "wait"} : hand' = Counted(result)
    BY <1>12 DEF Gate, AtInstruction
  <2>2. hand'.at = "loop" /\ hand'.rev = hand.rev /\ (hand'.ran => hand.ran)
    BY <2>1, Counts
  <2> QED BY <2>1, <2>2, HandStep DEF HandMove, HandFits, RanIsReal, DoneFor, IInv
<1>13. CASE Claim
  <2>0. hand.at = "loop" /\ Instruction \in Instructions /\ hand.rev \in Revs
        /\ hand.idx \in 1 .. Len(Text[hand.rev])
    BY <1>13, AtText, AtIndex, Basics DEF Claim, AtInstruction, IInv, HandFits
  <2>1. CASE /\ action' = action
             /\ \/ hand' = Counted("wait")
                \/ \E x \in Keys : hand' = Counted(NotClaimed(action[<<Instruction, x>>]))
    <3>1. PICK result \in {"skip", "wait", "ran"} :
                 hand' = Counted(result) /\ (result = "ran" => DoneFor(hand.rev))
      <4>1. CASE hand' = Counted("wait")
        BY <4>1
      <4>2. CASE \E x \in Keys : hand' = Counted(NotClaimed(action[<<Instruction, x>>]))
        <5>1. PICK x \in Keys : hand' = Counted(NotClaimed(action[<<Instruction, x>>]))
          BY <4>2
        <5> DEFINE result == NotClaimed(action[<<Instruction, x>>])
        <5>2. /\ result \in {"skip", "wait", "ran"}
              /\ result = "ran" => /\ action[<<Instruction, x>>].st = "done"
                                   /\ action[<<Instruction, x>>].rev = hand.rev
          BY DEF NotClaimed
        <5>3. result = "ran" => DoneFor(hand.rev)
          BY <2>0, <5>2 DEF DoneFor
        <5> HIDE DEF result
        <5> QED BY <5>1, <5>2, <5>3 DEF result
      <4> QED BY <2>1, <4>1, <4>2
    <3>2. hand'.at = "loop" /\ hand'.rev = hand.rev /\ (hand'.ran => hand.ran \/ result = "ran")
      BY <2>0, <3>1, Counts
    <3> QED BY <2>1, <3>1, <3>2, HandStep DEF HandMove, HandFits, RanIsReal, DoneFor, IInv
  <2>2. CASE \E key \in Keys :
               /\ hand' = [hand EXCEPT !.at = "route", !.key = key]
               /\ action' = [action EXCEPT ![<<Instruction, key>>] =
                               [NoAction EXCEPT !.st = "executing", !.rev = hand.rev]]
    <3>1. PICK key \in Keys :
               /\ hand' = [hand EXCEPT !.at = "route", !.key = key]
               /\ action' = [action EXCEPT ![<<Instruction, key>>] =
                               [NoAction EXCEPT !.st = "executing", !.rev = hand.rev]]
      BY <2>2
    <3>2. /\ hand'.at = "route" /\ hand'.rev = hand.rev /\ hand'.idx = hand.idx
          /\ hand'.key = key /\ hand'.ran = hand.ran
      BY <3>1, Basics DEF HandType
    <3>3. Here' = <<Instruction, key>>
      BY <3>2 DEF Here, Instruction
    <3>4. action'[Here'].st = "executing" /\ action'[Here'].rev = hand.rev
      BY <2>0, <3>1, <3>3, Basics DEF NoAction
    <3>5. HandFits'
      BY <2>0, <3>2, <3>4 DEF HandFits
    <3>6. ActionMove
      BY ActionStep
    <3> QED BY <2>0, <3>2, <3>5, <3>6, StaysDone DEF RanIsReal, IInv, DoneFor, DoneAfter
  <2> DEFINE key == IF Recorded(Instruction) = {} THEN 0 ELSE hand.rev
  <2>3. key \in Keys
    BY Basics
  <2>4. \/ /\ action' = action
           /\ \/ hand' = Counted("wait")
              \/ \E x \in Keys : hand' = Counted(NotClaimed(action[<<Instruction, x>>]))
        \/ /\ hand' = [hand EXCEPT !.at = "route", !.key = key]
           /\ action' = [action EXCEPT ![<<Instruction, key>>] =
                           [NoAction EXCEPT !.st = "executing", !.rev = hand.rev]]
    BY <1>13 DEF Claim, Recorded
  <2> HIDE DEF key
  <2> QED BY <2>1, <2>2, <2>3, <2>4
<1>14. CASE CreateManagedPlan
  <2>1. hand.at = "route" /\ hand' = hand /\ action' = [action EXCEPT ![Here].linked = TRUE]
    BY <1>14 DEF CreateManagedPlan
  <2>2. Here \in Instructions \X Keys /\ action[Here] \in ActionType
    BY <2>1, HereFacts DEF Here
  <2>3. Here' = Here
    BY <2>1 DEF Here, Instruction
  <2>4. action'[Here].st = action[Here].st /\ action'[Here].rev = action[Here].rev
    BY <2>1, <2>2, Basics DEF ActionType
  <2>5. HandFits'
    BY <2>1, <2>3, <2>4 DEF IInv, HandFits
  <2>6. ActionMove
    BY ActionStep
  <2> QED BY <2>1, <2>5, <2>6, StaysDone DEF IInv, HandFits, RanIsReal, DoneFor, DoneAfter
<1>15. CASE Send
  <2>1. hand.at = "route" /\ hand' = hand /\ action' = [action EXCEPT ![Here].sent = TRUE]
    BY <1>15 DEF Send
  <2>2. Here \in Instructions \X Keys /\ action[Here] \in ActionType
    BY <2>1, HereFacts DEF Here
  <2>3. Here' = Here
    BY <2>1 DEF Here, Instruction
  <2>4. action'[Here].st = action[Here].st /\ action'[Here].rev = action[Here].rev
    BY <2>1, <2>2, Basics DEF ActionType
  <2>5. HandFits'
    BY <2>1, <2>3, <2>4 DEF IInv, HandFits
  <2>6. ActionMove
    BY ActionStep
  <2> QED BY <2>1, <2>5, <2>6, StaysDone DEF IInv, HandFits, RanIsReal, DoneFor, DoneAfter
<1>16. CASE JournalOutcome
  <2>1. hand.at = "route" /\ hand.rev \in Revs
    BY <1>16 DEF JournalOutcome, IInv, HandFits
  <2>2. ActionMove
    BY ActionStep
  <2>3. CASE Faulty /\ hand' = Counted("error")
    <3>1. hand'.at = "loop" /\ hand'.rev = hand.rev /\ (hand'.ran => hand.ran)
      BY <2>1, <2>3, Counts
    <3>2. HandFits'
      BY <3>1, HandStep DEF HandMove, HandFits
    <3>3. hand.ran => DoneAfter(hand.rev)
      BY <2>1, <2>2, StaysDone DEF IInv, RanIsReal
    <3>4. RanIsReal'
      BY <3>1, <3>3 DEF RanIsReal, DoneFor, DoneAfter
    <3> QED BY <3>2, <3>4
  <2>4. CASE \E o \in Routed : action' = [action EXCEPT ![Here].st = o[1]] /\ hand' = Counted(o[2])
    <3>1. PICK o \in Routed : action' = [action EXCEPT ![Here].st = o[1]] /\ hand' = Counted(o[2])
      BY <2>4
    <3>2. o[2] \in {"skip", "error", "wait", "ran"} /\ (o[2] = "ran" => o[1] = "done")
      BY DEF Routed
    <3>3. hand'.at = "loop" /\ hand'.rev = hand.rev /\ (hand'.ran => hand.ran \/ o[2] = "ran")
      BY <2>1, <3>1, <3>2, Counts
    <3>4. o[1] = "done" => DoneAfter(hand.rev)
      <4>1. Instruction \in Instructions /\ hand.key \in Keys /\ Here = <<Instruction, hand.key>>
            /\ action[Here] \in ActionType /\ action[Here].rev = hand.rev
        BY <2>1, HereFacts DEF Here
      <4> DEFINE i == Instruction
                 y == hand.key
                 s == o[1]
      <4>2. action' = [action EXCEPT ![<<i, y>>].st = s]
        BY <3>1, <4>1
      <4> HIDE DEF i, y, s
      <4>3. i \in Instructions /\ y \in Keys /\ action[<<i, y>>] \in ActionType
            /\ action[<<i, y>>].rev = hand.rev
        BY <4>1 DEF i, y
      <4>4. action'[<<i, y>>].st = s /\ action'[<<i, y>>].rev = hand.rev
        BY <4>2, <4>3, Basics DEF ActionType
      <4>5. s = "done" => \E j \in Instructions, z \in Keys :
                            action'[<<j, z>>].rev = hand.rev /\ action'[<<j, z>>].st = "done"
        BY <4>3, <4>4
      <4> QED BY <3>3, <4>5 DEF s, DoneAfter
    <3>5. HandFits'
      BY <3>3, HandStep DEF HandMove, HandFits
    <3>6. hand.ran => DoneAfter(hand.rev)
      BY <2>1, <2>2, StaysDone DEF IInv, RanIsReal
    <3>7. RanIsReal'
      BY <3>2, <3>3, <3>4, <3>6 DEF RanIsReal, DoneFor, DoneAfter
    <3> QED BY <3>5, <3>7
  <2> QED BY <1>16, <2>3, <2>4 DEF JournalOutcome
<1>17. CASE CommitOutcome
  <2>0. hand.at # "free" /\ \E ok \in BOOLEAN : Leave(ok)
    BY <1>17 DEF CommitOutcome, Conclude
  <2>1. hand'.at # "route" /\ ~ hand'.ran
    BY <2>0, Leaves
  <2> QED BY <2>1, HandStep DEF HandMove, HandFits, RanIsReal
<1>18. CASE FinishDelivery
  <2>1. hand'.at # "route" /\ ~ hand'.ran
    BY <1>18, Basics DEF FinishDelivery
  <2> QED BY <2>1, HandStep DEF HandMove, HandFits, RanIsReal
<1>19. ASSUME NEW k \in Instructions, NEW x \in Keys, RecoverOrphan(k, x) PROVE HandFits' /\ RanIsReal'
  <2>1. hand' = hand /\ hand.at # "route"
    BY <1>19 DEF RecoverOrphan, Recovering, Executing
  <2>2. ActionMove
    BY ActionStep
  <2>3. hand.ran => hand.rev \in Revs
    BY RanRevision
  <2> QED BY <2>1, <2>2, <2>3, StaysDone DEF IInv, HandFits, RanIsReal, DoneFor, DoneAfter
<1>20. ASSUME NEW k \in Instructions, NEW x \in Keys, RecoverSend(k, x) PROVE HandFits' /\ RanIsReal'
  <2>1. hand' = hand /\ hand.at # "route"
    BY <1>20 DEF RecoverSend, Recovering, Executing
  <2>2. ActionMove
    BY ActionStep
  <2>3. hand.ran => hand.rev \in Revs
    BY RanRevision
  <2> QED BY <2>1, <2>2, <2>3, StaysDone DEF IInv, HandFits, RanIsReal, DoneFor, DoneAfter
<1>21. ASSUME NEW k \in Instructions, NEW x \in Keys, RecoverDone(k, x) PROVE HandFits' /\ RanIsReal'
  <2>1. hand' = hand /\ hand.at # "route"
    BY <1>21 DEF RecoverDone, Recovering, Executing
  <2>2. ActionMove
    BY ActionStep
  <2>3. hand.ran => hand.rev \in Revs
    BY RanRevision
  <2> QED BY <2>1, <2>2, <2>3, StaysDone DEF IInv, HandFits, RanIsReal, DoneFor, DoneAfter
<1>22. ASSUME NEW k \in Instructions, NEW x \in Keys, RecoverEnded(k, x) PROVE HandFits' /\ RanIsReal'
  <2>1. hand' = hand /\ hand.at # "route"
    BY <1>22 DEF RecoverEnded, Recovering, Executing
  <2>2. ActionMove
    BY ActionStep
  <2>3. hand.ran => hand.rev \in Revs
    BY RanRevision
  <2> QED BY <2>1, <2>2, <2>3, StaysDone DEF IInv, HandFits, RanIsReal, DoneFor, DoneAfter
<1>23. ASSUME NEW k \in Instructions, NEW x \in Keys, RecoverAbandon(k, x) PROVE HandFits' /\ RanIsReal'
  <2>1. hand' = hand /\ hand.at # "route"
    BY <1>23 DEF RecoverAbandon, Recovering, Executing
  <2>2. ActionMove
    BY ActionStep
  <2>3. hand.ran => hand.rev \in Revs
    BY RanRevision
  <2> QED BY <2>1, <2>2, <2>3, StaysDone DEF IInv, HandFits, RanIsReal, DoneFor, DoneAfter
<1>24. CASE Stop
  <2>1. hand' = hand /\ action' = action
    BY <1>24 DEF Stop, vars
  <2> QED BY <2>1 DEF IInv, HandFits, RanIsReal, DoneFor, Here, Instruction
<1>25. CASE Stopped
  <2>1. hand' = hand /\ action' = action
    BY <1>25 DEF Stopped, vars
  <2> QED BY <2>1 DEF IInv, HandFits, RanIsReal, DoneFor, Here, Instruction
<1>26. CASE Crash
  <2>1. hand'.at # "route" /\ ~ hand'.ran
    BY <1>26, Basics DEF Crash
  <2> QED BY <2>1, HandStep DEF HandMove, HandFits, RanIsReal
<1>27. CASE Start
  <2>1. hand' = hand /\ action' = action
    BY <1>27 DEF Start, vars
  <2> QED BY <2>1 DEF IInv, HandFits, RanIsReal, DoneFor, Here, Instruction
<1>28. CASE UNCHANGED vars
  <2>1. hand' = hand /\ action' = action
    BY <1>28 DEF vars, vars
  <2> QED BY <2>1 DEF IInv, HandFits, RanIsReal, DoneFor, Here, Instruction
<1> QED BY <1>1, <1>2, <1>3, <1>4, <1>5, <1>6, <1>7, <1>8, <1>9, <1>10, <1>11, <1>12, <1>13,
           <1>14, <1>15, <1>16, <1>17, <1>18, <1>19, <1>20, <1>21, <1>22, <1>23, <1>24, <1>25,
           <1>26, <1>27, <1>28 DEF Next, Handling, Recovery
(* A revision is called executed only when one of its actions is done. *)
LEMMA SignalStep == IInv /\ [Next]_vars => SignalMove
<1> SUFFICES ASSUME IInv, [Next]_vars PROVE SignalMove
  OBVIOUS
<1>1. ASSUME NEW r \in Revs, Receive(r) PROVE SignalMove
  <2>1. UNCHANGED <<signal, faults>>
    BY <1>1 DEF Receive, vars
  <2> QED BY <2>1, NoWrite
<1>2. ASSUME NEW r \in Revs, Dispatch(r) PROVE SignalMove
  <2>1. HandleMessage(r, "dispatch")
    BY <1>2 DEF Dispatch
  <2> QED BY <2>1, Handled
<1>3. ASSUME NEW r \in Revs, Retry(r) PROVE SignalMove
  <2>1. HandleMessage(r, "retry")
    BY <1>3 DEF Retry
  <2> QED BY <2>1, Handled
<1>4. ASSUME NEW t \in {Post} \union Revs, Expire(t) PROVE SignalMove
  <2>1. UNCHANGED <<signal, faults>>
    BY <1>4 DEF Expire, vars
  <2> QED BY <2>1, NoWrite
<1>5. CASE ModelAnswers
  <2>1. UNCHANGED <<signal, faults>>
    BY <1>5 DEF ModelAnswers, vars
  <2> QED BY <2>1, NoWrite
<1>6. CASE DeferRetry
  <2>1. hand.rev \in Revs
    BY <1>6 DEF DeferRetry, IInv, HandFits
  <2>2. \/ Persisted(hand.rev, "retry_wait") \/ NotPersisted \/ UNCHANGED <<signal, faults>>
    BY <1>6 DEF DeferRetry, Conclude
  <2>3. "retry_wait" \in SignalStatuses
    BY DEF SignalStatuses, Uncommitted, Waiting, Terminal
  <2> QED BY <2>1, <2>2, <2>3, Write, LostWrite, NoWrite
<1>7. CASE ModelFails
  <2>1. hand.rev \in Revs
    BY <1>7 DEF ModelFails, IInv, HandFits
  <2>2. \/ Persisted(hand.rev, "failed") \/ NotPersisted \/ UNCHANGED <<signal, faults>>
    BY <1>7 DEF ModelFails, Conclude
  <2>3. "failed" \in SignalStatuses
    BY DEF SignalStatuses, Uncommitted, Waiting, Terminal
  <2> QED BY <2>1, <2>2, <2>3, Write, LostWrite, NoWrite
<1>8. CASE Interrupted
  <2>1. UNCHANGED <<signal, faults>>
    BY <1>8 DEF Interrupted, vars
  <2> QED BY <2>1, NoWrite
<1>9. CASE StoreInterpretation
  <2>1. hand.rev \in Revs
    BY <1>9 DEF StoreInterpretation, IInv, HandFits
  <2>2. \/ Persisted(hand.rev, "parsed") \/ NotPersisted \/ UNCHANGED <<signal, faults>>
    BY <1>9 DEF StoreInterpretation, Conclude
  <2>3. "parsed" \in SignalStatuses
    BY DEF SignalStatuses, Uncommitted, Waiting, Terminal
  <2> QED BY <2>1, <2>2, <2>3, Write, LostWrite, NoWrite
<1>10. CASE BeginExecution
  <2>1. hand.rev \in Revs
    BY <1>10 DEF BeginExecution, IInv, HandFits
  <2>2. \/ Persisted(hand.rev, "executing") \/ NotPersisted \/ UNCHANGED <<signal, faults>>
    BY <1>10 DEF BeginExecution, Conclude
  <2>3. "executing" \in SignalStatuses
    BY DEF SignalStatuses, Uncommitted, Waiting, Terminal
  <2> QED BY <2>1, <2>2, <2>3, Write, LostWrite, NoWrite
<1>11. CASE Lapse
  <2>1. UNCHANGED <<signal, faults>>
    BY <1>11 DEF Lapse, vars
  <2> QED BY <2>1, NoWrite
<1>12. CASE Gate
  <2>1. UNCHANGED <<signal, faults>>
    BY <1>12 DEF Gate, vars
  <2> QED BY <2>1, NoWrite
<1>13. CASE Claim
  <2>1. UNCHANGED <<signal, faults>>
    BY <1>13 DEF Claim, vars
  <2> QED BY <2>1, NoWrite
<1>14. CASE CreateManagedPlan
  <2>1. UNCHANGED <<signal, faults>>
    BY <1>14 DEF CreateManagedPlan, vars
  <2> QED BY <2>1, NoWrite
<1>15. CASE Send
  <2>1. UNCHANGED <<signal, faults>>
    BY <1>15 DEF Send, vars
  <2> QED BY <2>1, NoWrite
<1>16. CASE JournalOutcome
  <2>1. UNCHANGED signal /\ (UNCHANGED faults \/ Faulty)
    BY <1>16 DEF JournalOutcome
  <2> QED BY <2>1, NoWrite, LostWrite DEF NotPersisted
<1>17. CASE CommitOutcome
  <2> DEFINE s == IF hand.waits THEN "execution_wait"
                  ELSE IF hand.errs THEN "failed"
                  ELSE IF hand.ran THEN "executed" ELSE "skipped"
  <2>1. hand.rev \in Revs /\ (Persisted(hand.rev, s) \/ NotPersisted) /\ action' = action
    BY <1>17 DEF CommitOutcome, Conclude, IInv, HandFits
  <2>2. s \in SignalStatuses
    BY DEF SignalStatuses, Waiting, Terminal
  <2>3. s = "executed" => hand.ran
    OBVIOUS
  <2> HIDE DEF s
  <2>4. s = "executed" => DoneAfter(hand.rev)
    <3>1. hand.ran => DoneFor(hand.rev)
      BY DEF IInv, RanIsReal
    <3> QED BY <2>3, <3>1, <2>1, ActionStep, StaysDone
  <2> QED BY <2>1, <2>2, <2>4, Write, LostWrite
<1>18. CASE FinishDelivery
  <2>1. UNCHANGED <<signal, faults>>
    BY <1>18 DEF FinishDelivery, vars
  <2> QED BY <2>1, NoWrite
<1>19. ASSUME NEW k \in Instructions, NEW x \in Keys, RecoverOrphan(k, x) PROVE SignalMove
  <2>1. UNCHANGED <<signal, faults>>
    BY <1>19 DEF RecoverOrphan, vars
  <2> QED BY <2>1, NoWrite
<1>20. ASSUME NEW k \in Instructions, NEW x \in Keys, RecoverSend(k, x) PROVE SignalMove
  <2>1. UNCHANGED <<signal, faults>>
    BY <1>20 DEF RecoverSend, vars
  <2> QED BY <2>1, NoWrite
<1>21. ASSUME NEW k \in Instructions, NEW x \in Keys, RecoverDone(k, x) PROVE SignalMove
  <2>1. /\ Sync(k, x, "executed") /\ action[<<k, x>>].st \in Unresolved
        /\ action' = [action EXCEPT ![<<k, x>>].st = "done"]
    BY <1>21 DEF RecoverDone, Settles, Recovering
  <2>2. action[<<k, x>>].rev \in Revs /\ action[<<k, x>>] \in ActionType
    BY <2>1, Basics DEF IInv, JournalFits, RowFits, Unresolved
  <2>3. action'[<<k, x>>].st = "done" /\ action'[<<k, x>>].rev = action[<<k, x>>].rev
    BY <2>1, <2>2, Basics DEF ActionType
  <2>4. DoneAfter(action[<<k, x>>].rev)
    BY <2>3 DEF DoneAfter
  <2> QED BY <2>1, <2>2, <2>4, Synced
<1>22. ASSUME NEW k \in Instructions, NEW x \in Keys, RecoverEnded(k, x) PROVE SignalMove
  <2>1. Sync(k, x, "skipped") /\ action[<<k, x>>].st \in Unresolved
    BY <1>22 DEF RecoverEnded, Recovering
  <2>2. action[<<k, x>>].rev \in Revs
    BY <2>1, Basics DEF IInv, JournalFits, RowFits, Unresolved
  <2> QED BY <2>1, <2>2, Synced
<1>23. ASSUME NEW k \in Instructions, NEW x \in Keys, RecoverAbandon(k, x) PROVE SignalMove
  <2>1. UNCHANGED <<signal, faults>>
    BY <1>23 DEF RecoverAbandon, vars
  <2> QED BY <2>1, NoWrite
<1>24. CASE Stop
  <2>1. UNCHANGED <<signal, faults>>
    BY <1>24 DEF Stop, vars
  <2> QED BY <2>1, NoWrite
<1>25. CASE Stopped
  <2>1. UNCHANGED <<signal, faults>>
    BY <1>25 DEF Stopped, vars
  <2> QED BY <2>1, NoWrite
<1>26. CASE Crash
  <2>1. UNCHANGED <<signal, faults>>
    BY <1>26 DEF Crash, vars
  <2> QED BY <2>1, NoWrite
<1>27. CASE Start
  <2>1. UNCHANGED faults
    BY <1>27 DEF Start
  <2>2. signal' = [r \in Revs |-> IF signal[r] = "interpreting" THEN "retry_wait" ELSE signal[r]]
    BY <1>27 DEF Start
  <2>3. signal' \in [Revs -> SignalStatuses]
    BY <2>2, SignalFacts DEF SignalStatuses, Waiting
  <2>4. \A q \in Revs : signal'[q] = "executed" => signal[q] = "executed"
    BY <2>2
  <2> QED BY <2>1, <2>3, <2>4, SignalFacts DEF SignalMove
<1>28. CASE UNCHANGED vars
  <2>1. UNCHANGED <<signal, faults>>
    BY <1>28 DEF vars, vars
  <2> QED BY <2>1, NoWrite
<1> QED BY <1>1, <1>2, <1>3, <1>4, <1>5, <1>6, <1>7, <1>8, <1>9, <1>10, <1>11, <1>12, <1>13,
           <1>14, <1>15, <1>16, <1>17, <1>18, <1>19, <1>20, <1>21, <1>22, <1>23, <1>24, <1>25,
           <1>26, <1>27, <1>28 DEF Next, Handling, Recovery

(* The variables no other lemma speaks of.                                 *)
RestTyped ==
    /\ run \in {"up", "stopping", "down"}
    /\ delivery \in [Revs -> {"none", "pending", "processing", "done"}]
    /\ interp \subseteq Revs
    /\ tries \in [Revs -> 0 .. 2]
    /\ late \subseteq {Post} \union Revs
    /\ stops \in 0 .. MaxStops

LEMMA RestTypedNow == IInv => RestTyped
BY DEF IInv, TypeOK, RestTyped

(* The other variables keep their types. *)
LEMMA RestStep == IInv /\ [Next]_vars => RestTyped'
<1> SUFFICES ASSUME IInv, [Next]_vars PROVE RestTyped'
  OBVIOUS
<1>1. ASSUME NEW r \in Revs, Receive(r) PROVE RestTyped'
  <2> QED BY <1>1, RestTypedNow DEF Receive, RestTyped, vars
<1>2. ASSUME NEW r \in Revs, Dispatch(r) PROVE RestTyped'
  <2> QED BY <1>2, RestTypedNow DEF Dispatch, RestTyped, vars
<1>3. ASSUME NEW r \in Revs, Retry(r) PROVE RestTyped'
  <2> QED BY <1>3, RestTypedNow DEF Retry, RestTyped, vars
<1>4. ASSUME NEW t \in {Post} \union Revs, Expire(t) PROVE RestTyped'
  <2> QED BY <1>4, RestTypedNow DEF Expire, RestTyped, vars
<1>5. CASE ModelAnswers
  <2> QED BY <1>5, RestTypedNow DEF ModelAnswers, RestTyped, vars
<1>6. CASE DeferRetry
  <2>1. hand.rev \in Revs
    BY <1>6 DEF DeferRetry, IInv, HandFits
  <2>2. tries[hand.rev] \in 0 .. 2 /\ tries[hand.rev] < 2
    BY <1>6, <2>1, RestTypedNow DEF DeferRetry, RestTyped
  <2>3. tries[hand.rev] + 1 \in 0 .. 2
    BY <2>2
  <2>4. tries' \in [Revs -> 0 .. 2]
    BY <1>6, <2>3, RestTypedNow DEF DeferRetry, RestTyped
  <2> QED BY <1>6, <2>4, RestTypedNow DEF DeferRetry, RestTyped
<1>7. CASE ModelFails
  <2> QED BY <1>7, RestTypedNow DEF ModelFails, RestTyped, vars
<1>8. CASE Interrupted
  <2> QED BY <1>8, RestTypedNow DEF Interrupted, RestTyped, vars
<1>9. CASE StoreInterpretation
  <2>1. hand.rev \in Revs
    BY <1>9 DEF StoreInterpretation, IInv, HandFits
  <2> QED BY <1>9, <2>1, RestTypedNow DEF StoreInterpretation, RestTyped
<1>10. CASE BeginExecution
  <2> QED BY <1>10, RestTypedNow DEF BeginExecution, RestTyped, vars
<1>11. CASE Lapse
  <2> QED BY <1>11, RestTypedNow DEF Lapse, RestTyped, vars
<1>12. CASE Gate
  <2> QED BY <1>12, RestTypedNow DEF Gate, RestTyped, vars
<1>13. CASE Claim
  <2> QED BY <1>13, RestTypedNow DEF Claim, RestTyped, vars
<1>14. CASE CreateManagedPlan
  <2> QED BY <1>14, RestTypedNow DEF CreateManagedPlan, RestTyped, vars
<1>15. CASE Send
  <2> QED BY <1>15, RestTypedNow DEF Send, RestTyped, vars
<1>16. CASE JournalOutcome
  <2> QED BY <1>16, RestTypedNow DEF JournalOutcome, RestTyped, vars
<1>17. CASE CommitOutcome
  <2> QED BY <1>17, RestTypedNow DEF CommitOutcome, RestTyped, vars
<1>18. CASE FinishDelivery
  <2>1. delivery' \in [Revs -> {"none", "pending", "processing", "done"}]
    BY <1>18, RestTypedNow DEF FinishDelivery, RestTyped
  <2> QED BY <1>18, <2>1, RestTypedNow DEF FinishDelivery, RestTyped
<1>19. ASSUME NEW k \in Instructions, NEW x \in Keys, RecoverOrphan(k, x) PROVE RestTyped'
  <2> QED BY <1>19, RestTypedNow DEF RecoverOrphan, RestTyped, vars
<1>20. ASSUME NEW k \in Instructions, NEW x \in Keys, RecoverSend(k, x) PROVE RestTyped'
  <2> QED BY <1>20, RestTypedNow DEF RecoverSend, RestTyped, vars
<1>21. ASSUME NEW k \in Instructions, NEW x \in Keys, RecoverDone(k, x) PROVE RestTyped'
  <2> QED BY <1>21, RestTypedNow DEF RecoverDone, RestTyped, vars
<1>22. ASSUME NEW k \in Instructions, NEW x \in Keys, RecoverEnded(k, x) PROVE RestTyped'
  <2> QED BY <1>22, RestTypedNow DEF RecoverEnded, RestTyped, vars
<1>23. ASSUME NEW k \in Instructions, NEW x \in Keys, RecoverAbandon(k, x) PROVE RestTyped'
  <2> QED BY <1>23, RestTypedNow DEF RecoverAbandon, RestTyped, vars
<1>24. CASE Stop
  <2>1. stops' \in 0 .. MaxStops
    BY <1>24, SignalFacts DEF Stop
  <2> QED BY <1>24, <2>1, RestTypedNow DEF Stop, RestTyped
<1>25. CASE Stopped
  <2> QED BY <1>25, RestTypedNow DEF Stopped, RestTyped, vars
<1>26. CASE Crash
  <2>1. stops' \in 0 .. MaxStops
    BY <1>26, SignalFacts DEF Crash
  <2> QED BY <1>26, <2>1, RestTypedNow DEF Crash, RestTyped
<1>27. CASE Start
  <2> QED BY <1>27, RestTypedNow DEF Start, RestTyped, vars
<1>28. CASE UNCHANGED vars
  <2> QED BY <1>28, RestTypedNow DEF vars, RestTyped, vars
<1> QED BY <1>1, <1>2, <1>3, <1>4, <1>5, <1>6, <1>7, <1>8, <1>9, <1>10, <1>11, <1>12, <1>13,
           <1>14, <1>15, <1>16, <1>17, <1>18, <1>19, <1>20, <1>21, <1>22, <1>23, <1>24, <1>25,
           <1>26, <1>27, <1>28 DEF Next, Handling, Recovery

-----------------------------------------------------------------------------
LEMMA InitInv == SignalAssumption /\ Init => IInv
<1> SUFFICES ASSUME SignalAssumption, Init PROVE IInv
  OBVIOUS
<1>1. NoAction \in ActionType /\ Free \in HandType
  BY DEF NoAction, Free, ActionType, HandType, Statuses, Keys
<1>2. action \in [Instructions \X Keys -> ActionType] /\ hand \in HandType
  BY <1>1 DEF Init
<1>3. \A k \in Instructions, x \in Keys : action[<<k, x>>] = NoAction
  BY DEF Init
<1>4. hand = Free /\ \A r \in Revs : signal[r] = "none"
  BY DEF Init
<1>5. TypeOK
  <2>1. MaxStops \in Nat /\ MaxFaults \in Nat
    BY DEF SignalAssumption
  <2> QED BY <1>2, <2>1 DEF Init, TypeOK, ActionType, HandType, Statuses
<1>6. JournalFits
  BY <1>3 DEF JournalFits, RowFits, Active, NoAction, Unresolved
<1>7. HandFits /\ RanIsReal /\ ExecutedIsReal
  BY <1>4 DEF HandFits, RanIsReal, ExecutedIsReal, Free
<1> QED BY <1>5, <1>6, <1>7 DEF IInv

LEMMA Inductive == IInv /\ [Next]_vars => IInv'
<1> SUFFICES ASSUME IInv, [Next]_vars PROVE IInv'
  OBVIOUS
<1>1. ActionMove /\ HandMove /\ SignalMove /\ HandFits' /\ RanIsReal' /\ RestTyped'
  BY ActionStep, HandStep, SignalStep, RouteStep, RestStep
<1>2. TypeOK'
  BY <1>1 DEF TypeOK, ActionMove, HandMove, SignalMove, RestTyped, ActionType, HandType,
              Statuses, SignalStatuses
<1>3. ExecutedIsReal'
  <2> SUFFICES ASSUME NEW r \in Revs, signal'[r] = "executed" PROVE DoneAfter(r)
    BY DEF ExecutedIsReal, DoneAfter
  <2>1. CASE signal[r] = "executed"
    <3>1. DoneFor(r)
      BY <2>1 DEF IInv, ExecutedIsReal, DoneFor
    <3> QED BY <1>1, <3>1, StaysDone
  <2>2. CASE signal[r] # "executed"
    BY <1>1, <2>2 DEF SignalMove
  <2> QED BY <2>1, <2>2
<1> QED BY <1>1, <1>2, <1>3 DEF IInv, ActionMove, SignalAssumption

(* The inductive invariant holds from the first delivery on.               *)
THEOREM Invariance == SignalAssumption /\ Spec => []IInv
<1>1. SignalAssumption /\ Init => IInv
  BY InitInv
<1>2. IInv /\ [Next]_vars => IInv'
  BY Inductive
<1> QED BY <1>1, <1>2, PTL DEF Spec

(* Every variable keeps its type (the records of discord_ingest.go and     *)
(* copytrade_ledger.go): no more than two retries of the model, and a row  *)
(* of the journal for every order of events.                               *)
THEOREM TypeCorrect == SignalAssumption /\ Spec => []TypeOK
<1>1. IInv => TypeOK
  BY DEF IInv
<1> QED BY <1>1, Invariance, PTL

(* Of two rows of an instruction that were sent, one is rejected: two that *)
(* stand would both be active.                                             *)
LEMMA IsOnce == IInv => ExecutedOnce
<1> SUFFICES ASSUME IInv, NEW k \in Instructions, NEW x \in Keys, NEW y \in Keys,
                    action[<<k, x>>].sent, action[<<k, y>>].sent, x # y
             PROVE  "rejected" \in {action[<<k, x>>].st, action[<<k, y>>].st}
  BY DEF ExecutedOnce
<1>1. \A z \in Keys : action[<<k, z>>] \in ActionType /\ RowFits(k, action[<<k, z>>])
  BY Basics DEF IInv, JournalFits
<1>2. \A z \in Keys : action[<<k, z>>].sent /\ action[<<k, z>>].st # "rejected"
                        => Active(action[<<k, z>>])
  BY <1>1 DEF RowFits, Active, ActionType, Statuses
<1>3. ~ (Active(action[<<k, x>>]) /\ Active(action[<<k, y>>]))
  BY DEF IInv, JournalFits
<1> QED BY <1>2, <1>3

(* At most one journaled action of an instruction reaches the venue, but   *)
(* after an exit that recovery abandoned (claimInstruction).               *)
THEOREM Once == SignalAssumption /\ Spec => []ExecutedOnce
BY IsOnce, Invariance, PTL

(* What the journal calls never submitted was never submitted              *)
(* (recoverOrphanActions, processInstruction).                             *)
THEOREM NeverSent == SignalAssumption /\ Spec => []RejectedNeverSent
<1>1. IInv => RejectedNeverSent
  BY DEF IInv, JournalFits, RowFits, RejectedNeverSent
<1> QED BY <1>1, Invariance, PTL

(* A signal is reported executed only when an action journaled for that    *)
(* very revision is done (processMessage, syncRecoveredSignal).            *)
THEOREM Real == SignalAssumption /\ Spec => []ExecutedIsReal
<1>1. IInv => ExecutedIsReal
  BY DEF IInv
<1> QED BY <1>1, Invariance, PTL

=============================================================================
