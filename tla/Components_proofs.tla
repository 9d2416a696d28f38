------------------------ MODULE Components_proofs ------------------------
(***************************************************************************)
(* Proofs about the components that MCComponents explores together.  The   *)
(* claims of account sides, which it extends, come first; the verdict over *)
(* the position cache, its instance Cache, second; at the end all parts    *)
(* together, with what StopGuard_proofs, LegacyTrade_proofs and            *)
(* MessageSource_proofs show of theirs.  Nothing is assumed of the         *)
(* constants but what the modules assume: the sets and bounds of           *)
(* Components.cfg are one choice.                                          *)
(***************************************************************************)
EXTENDS MCComponents, TLAPS

-----------------------------------------------------------------------------
(* Account claims, for any traders, accounts, processes and attempts.      *)
(* SideExclusive is not inductive: the row of the account side stands      *)
(* between two trades, so the invariant says that a trade that may still   *)
(* act holds the row (RowHeld), which a later claim can only take over     *)
(* once the holder is settled.                                             *)

(* A trade that may still act on a managed account holds the row of its side. *)
RowHeld == \A i \in Ids : (Unsettled(i) /\ acct[i] \in Managed) => own[acct[i]] = i

(* What an attempt is before its trade exists, and what a trade has. *)
Attempts ==
    \A i \in Ids :
        /\ state[i] = "none" => acct[i] = None /\ ord[i] = "none" /\ ~linked[i]
        /\ state[i] # "none" => acct[i] \in Accounts /\ by[i] \in Traders
        /\ by[i] = None => act[i] = "none"
        /\ (by[i] # None /\ binding[by[i]] = None) => act[i] \notin Unresolved

(* What an engine is doing fits the attempt it is doing it for. *)
Runs ==
    \A t \in Traders :
        /\ run[t].pc \in {"idle", "claimed", "recheck"} <=> run[t].account = None
        /\ run[t].pc = "idle" => run[t] = Idle
        /\ run[t].pc # "idle" => run[t].id \in Ids /\ by[run[t].id] = t
        /\ run[t].pc \in {"claimed", "locked", "unowned", "flat", "clear"} => state[run[t].id] = "none"
        /\ run[t].pc = "created" => state[run[t].id] = "active" /\ binding[t] # None
        /\ run[t].pc = "recheck" => acct[run[t].id] \in Accounts \ Managed

KeysCounted == \A a \in Accounts : key[a] <= changes

(* The types alone, without the locks. *)
Types ==
    /\ binding \in [Traders -> Accounts \cup {None}]
    /\ key \in [Accounts -> 0 .. MaxChanges]
    /\ adapter \in [Traders -> Access]
    /\ state \in [Ids -> States] /\ by \in [Ids -> Traders \cup {None}]
    /\ acct \in [Ids -> Accounts \cup {None}] /\ ckey \in [Ids -> 0 .. MaxChanges]
    /\ act \in [Ids -> Actions] /\ linked \in [Ids -> BOOLEAN] /\ ord \in [Ids -> Rows]
    /\ sent \in [Ids -> Access \cup {None}]
    /\ venue \in [Ids -> {"no", "working", "filled"}]
    /\ own \in [Accounts -> Ids \cup {None}]
    /\ run \in [Traders -> [pc : Steps, id : Ids \cup {None}, account : Accounts \cup {None}]]
    /\ mutex \in [Processes -> [Accounts -> Traders \cup {None}]]
    /\ changes \in 0 .. MaxChanges /\ crashes \in 0 .. MaxCrashes

Inv == TypeOK /\ Attempts /\ Runs /\ KeysCounted /\ RowHeld /\ GroundHolds

(* Moving an engine to another step of its admission keeps the type of run. *)
LEMMA StepType ==
    ASSUME TypeOK, NEW t \in Traders, NEW c \in Steps, Step(t, c)
    PROVE  run' \in [Traders -> [pc : Steps, id : Ids \cup {None}, account : Accounts \cup {None}]]
<1> DEFINE R == [pc : Steps, id : Ids \cup {None}, account : Accounts \cup {None}]
<1>1. run \in [Traders -> R]
  BY DEF TypeOK
<1>2. [run[t] EXCEPT !.pc = c] \in R
  BY <1>1
<1>3. run' = [run EXCEPT ![t] = [run[t] EXCEPT !.pc = c]]
  BY DEF Step
<1> QED BY <1>1, <1>2, <1>3

(* Every step keeps the types. *)
LEMMA TypesStep == Inv /\ [Next]_vars => Types'
<1> SUFFICES ASSUME Inv, [Next]_vars PROVE Types'
  OBVIOUS
<1> USE AccountClaimAssumption DEF Inv, Types
<1>1. ASSUME NEW t \in Traders, NEW i \in Ids, ClaimAction(t, i) PROVE Types'
  BY <1>1 DEF Types, ClaimAction, TypeOK, Access, Runs, KeysCounted, Steps, States, Actions, Rows, setup, trade
<1>2. ASSUME NEW t \in Traders, Lock(t) PROVE Types'
  BY <1>2 DEF Types, Lock, Step, TypeOK, Access, Runs, KeysCounted, Steps, States, Actions, Rows, setup, trade
<1>3. ASSUME NEW t \in Traders, CheckOwners(t) PROVE Types'
  BY <1>3, StepType DEF Types, TypeOK, CheckOwners, Steps, setup, trade
<1>4. ASSUME NEW t \in Traders, CheckPosition(t) PROVE Types'
  BY <1>4, StepType DEF Types, TypeOK, CheckPosition, Steps, setup, trade
<1>5. ASSUME NEW t \in Traders, CheckOrders(t) PROVE Types'
  BY <1>5, StepType DEF Types, TypeOK, CheckOrders, Steps, setup, trade
<1>6. ASSUME NEW t \in Traders, Create(t) PROVE Types'
  <2>1. run[t].pc = "clear" /\ run[t].id \in Ids /\ run[t].account \in Accounts
    BY <1>6 DEF Create, TypeOK, Runs
  <2>2. run' \in [Traders -> [pc : Steps, id : Ids \cup {None}, account : Accounts \cup {None}]]
    BY <1>6, StepType DEF Create, Steps
  <2> QED BY <1>6, <2>1, <2>2 DEF Create, TypeOK, Types, States, Actions, Rows, setup
<1>7. ASSUME NEW t \in Traders, Refuse(t) PROVE Types'
  BY <1>7 DEF Types, Refuse, Unlock, Idle, TypeOK, Access, Runs, KeysCounted, Steps, States, Actions, Rows, setup, trade
<1>8. ASSUME NEW t \in Traders, Submit(t) PROVE Types'
  BY <1>8 DEF Types, Submit, Unlock, Idle, Send, TypeOK, Access, Runs, KeysCounted, Steps, States, Actions, Rows, setup, trade
<1>9. ASSUME NEW t \in Traders, Resurrect(t) PROVE Types'
  BY <1>9 DEF Types, Resurrect, Idle, TypeOK, Access, Runs, KeysCounted, Steps, States, Actions, Rows, setup, trade
<1>10. ASSUME NEW i \in Ids, Resume(i) PROVE Types'
  BY <1>10 DEF Types, Resume, Send, Drives, TypeOK, Access, Runs, KeysCounted, Steps, States, Actions, Rows, setup, trade
<1>11. ASSUME NEW i \in Ids, Settle(i) PROVE Types'
  BY <1>11 DEF Types, Settle, Drives, Pending, Rows, TypeOK, Access, Runs, KeysCounted, Steps, States, Actions, Rows, setup, trade
<1>12. ASSUME NEW i \in Ids, ResolveAction(i) PROVE Types'
  BY <1>12 DEF Types, ResolveAction, Drives, TypeOK, Access, Runs, KeysCounted, Steps, States, Actions, Rows, setup, trade
<1>13. ASSUME NEW i \in Ids, End(i) PROVE Types'
  BY <1>13 DEF Types, End, Drives, TypeOK, Access, Runs, KeysCounted, Steps, States, Actions, Rows, setup, trade
<1>14. ASSUME NEW i \in Ids, Recheck(i) PROVE Types'
  BY <1>14 DEF Types, Recheck, Drives, Active, TypeOK, Access, Runs, KeysCounted, Steps, States, Actions, Rows, setup, trade
<1>15. ASSUME NEW i \in Ids, Review(i) PROVE Types'
  BY <1>15 DEF Types, Review, Drives, BoundTo, TypeOK, Access, Runs, KeysCounted, Steps, States, Actions, Rows, setup, trade
<1>16. ASSUME NEW i \in Ids, VenueMoves(i) PROVE Types'
  BY <1>16 DEF Types, VenueMoves, TypeOK, Access, Runs, KeysCounted, Steps, States, Actions, Rows, setup, trade
<1>17. ASSUME NEW t \in Traders, NEW a \in Accounts, Rebind(t, a) PROVE Types'
  BY <1>17 DEF Types, Rebind, Busy, Active, TypeOK, Access, Runs, KeysCounted, Steps, States, Actions, Rows, setup, trade
<1>18. ASSUME NEW a \in Accounts, ReplaceKey(a) PROVE Types'
  BY <1>18 DEF Types, ReplaceKey, Busy, Active, TypeOK, Access, Runs, KeysCounted, Steps, States, Actions, Rows, setup, trade
<1>19. ASSUME NEW t \in Traders, DeleteTrader(t) PROVE Types'
  BY <1>19 DEF Types, DeleteTrader, TypeOK, Access, Runs, KeysCounted, Steps, States, Actions, Rows, setup, trade
<1>20. ASSUME NEW t \in Traders, Reload(t) PROVE Types'
  BY <1>20 DEF Types, Reload, TypeOK, Access, Runs, KeysCounted, Steps, States, Actions, Rows, setup, trade
<1>21. ASSUME NEW w \in Processes, Crash(w) PROVE Types'
  BY <1>21 DEF Types, Crash, Idle, TypeOK, Access, Runs, KeysCounted, Steps, States, Actions, Rows, setup, trade
<1>22. CASE UNCHANGED vars
  BY <1>22 DEF Types, vars, TypeOK, Access, Runs, KeysCounted, Steps, States, Actions, Rows, setup, trade
<1> QED BY <1>1, <1>2, <1>3, <1>4, <1>5, <1>6, <1>7, <1>8, <1>9, <1>10, <1>11, <1>12, <1>13, <1>14, <1>15, <1>16, <1>17, <1>18, <1>19, <1>20, <1>21, <1>22 DEF Next, Admission, Life, Ground

(* Every step keeps the locks with the admissions under way. *)
LEMMA LocksStep == Inv /\ [Next]_vars => LocksHeld'
<1> SUFFICES ASSUME Inv, [Next]_vars PROVE LocksHeld'
  OBVIOUS
<1> USE AccountClaimAssumption DEF Inv
<1>1. ASSUME NEW t \in Traders, NEW i \in Ids, ClaimAction(t, i) PROVE LocksHeld'
  BY <1>1 DEF ClaimAction, LocksHeld, TypeOK, Access, Runs, Idle, setup, trade
<1>2. ASSUME NEW t \in Traders, Lock(t) PROVE LocksHeld'
  BY <1>2 DEF Lock, Step, LocksHeld, TypeOK, Access, Runs, Idle, setup, trade
<1>3. ASSUME NEW t \in Traders, CheckOwners(t) PROVE LocksHeld'
  BY <1>3 DEF CheckOwners, Step, LocksHeld, TypeOK, Access, Runs, Idle, setup, trade
<1>4. ASSUME NEW t \in Traders, CheckPosition(t) PROVE LocksHeld'
  BY <1>4 DEF CheckPosition, Step, LocksHeld, TypeOK, Access, Runs, Idle, setup, trade
<1>5. ASSUME NEW t \in Traders, CheckOrders(t) PROVE LocksHeld'
  BY <1>5 DEF CheckOrders, Step, LocksHeld, TypeOK, Access, Runs, Idle, setup, trade
<1>6. ASSUME NEW t \in Traders, Create(t) PROVE LocksHeld'
  BY <1>6 DEF Create, Step, Claimable, Releasable, Active, LocksHeld, TypeOK, Access, Runs, Idle, setup, trade
<1>7. ASSUME NEW t \in Traders, Refuse(t) PROVE LocksHeld'
  BY <1>7 DEF Refuse, Unlock, LocksHeld, TypeOK, Access, Runs, Idle, setup, trade
<1>8. ASSUME NEW t \in Traders, Submit(t) PROVE LocksHeld'
  BY <1>8 DEF Submit, Unlock, Send, LocksHeld, TypeOK, Access, Runs, Idle, setup, trade
<1>9. ASSUME NEW t \in Traders, Resurrect(t) PROVE LocksHeld'
  BY <1>9 DEF Resurrect, LocksHeld, TypeOK, Access, Runs, Idle, setup, trade
<1>10. ASSUME NEW i \in Ids, Resume(i) PROVE LocksHeld'
  BY <1>10 DEF Resume, Send, Drives, LocksHeld, TypeOK, Access, Runs, Idle, setup, trade
<1>11. ASSUME NEW i \in Ids, Settle(i) PROVE LocksHeld'
  BY <1>11 DEF Settle, Drives, Pending, Rows, LocksHeld, TypeOK, Access, Runs, Idle, setup, trade
<1>12. ASSUME NEW i \in Ids, ResolveAction(i) PROVE LocksHeld'
  BY <1>12 DEF ResolveAction, Drives, LocksHeld, TypeOK, Access, Runs, Idle, setup, trade
<1>13. ASSUME NEW i \in Ids, End(i) PROVE LocksHeld'
  BY <1>13 DEF End, Drives, LocksHeld, TypeOK, Access, Runs, Idle, setup, trade
<1>14. ASSUME NEW i \in Ids, Recheck(i) PROVE LocksHeld'
  BY <1>14 DEF Recheck, Drives, Active, LocksHeld, TypeOK, Access, Runs, Idle, setup, trade
<1>15. ASSUME NEW i \in Ids, Review(i) PROVE LocksHeld'
  BY <1>15 DEF Review, Drives, BoundTo, LocksHeld, TypeOK, Access, Runs, Idle, setup, trade
<1>16. ASSUME NEW i \in Ids, VenueMoves(i) PROVE LocksHeld'
  BY <1>16 DEF VenueMoves, LocksHeld, TypeOK, Access, Runs, Idle, setup, trade
<1>17. ASSUME NEW t \in Traders, NEW a \in Accounts, Rebind(t, a) PROVE LocksHeld'
  BY <1>17 DEF Rebind, Busy, Active, LocksHeld, TypeOK, Access, Runs, Idle, setup, trade
<1>18. ASSUME NEW a \in Accounts, ReplaceKey(a) PROVE LocksHeld'
  BY <1>18 DEF ReplaceKey, Busy, Active, LocksHeld, TypeOK, Access, Runs, Idle, setup, trade
<1>19. ASSUME NEW t \in Traders, DeleteTrader(t) PROVE LocksHeld'
  BY <1>19 DEF DeleteTrader, LocksHeld, TypeOK, Access, Runs, Idle, setup, trade
<1>20. ASSUME NEW t \in Traders, Reload(t) PROVE LocksHeld'
  BY <1>20 DEF Reload, LocksHeld, TypeOK, Access, Runs, Idle, setup, trade
<1>21. ASSUME NEW w \in Processes, Crash(w) PROVE LocksHeld'
  BY <1>21 DEF Crash, LocksHeld, TypeOK, Access, Runs, Idle, setup, trade
<1>22. CASE UNCHANGED vars
  BY <1>22 DEF vars, LocksHeld, TypeOK, Access, Runs, Idle, setup, trade
<1> QED BY <1>1, <1>2, <1>3, <1>4, <1>5, <1>6, <1>7, <1>8, <1>9, <1>10, <1>11, <1>12, <1>13, <1>14, <1>15, <1>16, <1>17, <1>18, <1>19, <1>20, <1>21, <1>22 DEF Next, Admission, Life, Ground

(* Every step keeps attempts and trades consistent. *)
LEMMA AttemptsStep == Inv /\ [Next]_vars => Attempts'
<1> SUFFICES ASSUME Inv, [Next]_vars PROVE Attempts'
  OBVIOUS
<1> USE AccountClaimAssumption DEF Inv
<1>1. ASSUME NEW t \in Traders, NEW i \in Ids, ClaimAction(t, i) PROVE Attempts'
  BY <1>1 DEF ClaimAction, Attempts, TypeOK, Runs, Access, Unresolved, Idle, setup, trade
<1>2. ASSUME NEW t \in Traders, Lock(t) PROVE Attempts'
  BY <1>2 DEF Lock, Step, Attempts, TypeOK, Runs, Access, Unresolved, Idle, setup, trade
<1>3. ASSUME NEW t \in Traders, CheckOwners(t) PROVE Attempts'
  BY <1>3 DEF CheckOwners, Step, Attempts, TypeOK, Runs, Access, Unresolved, Idle, setup, trade
<1>4. ASSUME NEW t \in Traders, CheckPosition(t) PROVE Attempts'
  BY <1>4 DEF CheckPosition, Step, Attempts, TypeOK, Runs, Access, Unresolved, Idle, setup, trade
<1>5. ASSUME NEW t \in Traders, CheckOrders(t) PROVE Attempts'
  BY <1>5 DEF CheckOrders, Step, Attempts, TypeOK, Runs, Access, Unresolved, Idle, setup, trade
<1>6. ASSUME NEW t \in Traders, Create(t) PROVE Attempts'
  BY <1>6 DEF Create, Step, Claimable, Releasable, Active, Attempts, TypeOK, Runs, Access, Unresolved, Idle, setup, trade
<1>7. ASSUME NEW t \in Traders, Refuse(t) PROVE Attempts'
  BY <1>7 DEF Refuse, Attempts, TypeOK, Runs, Unresolved, setup
<1>8. ASSUME NEW t \in Traders, Submit(t) PROVE Attempts'
  BY <1>8 DEF Submit, Unlock, Idle, Send, Attempts, TypeOK, Runs, Access, Unresolved, Idle, setup, trade
<1>9. ASSUME NEW t \in Traders, Resurrect(t) PROVE Attempts'
  BY <1>9 DEF Resurrect, Idle, Attempts, TypeOK, Runs, Access, Unresolved, Idle, setup, trade
<1>10. ASSUME NEW i \in Ids, Resume(i) PROVE Attempts'
  BY <1>10 DEF Resume, Send, Drives, Attempts, TypeOK, Runs, Access, Unresolved, Idle, setup, trade
<1>11. ASSUME NEW i \in Ids, Settle(i) PROVE Attempts'
  BY <1>11 DEF Settle, Drives, Pending, Rows, Attempts, TypeOK, Runs, Access, Unresolved, Idle, setup, trade
<1>12. ASSUME NEW i \in Ids, ResolveAction(i) PROVE Attempts'
  BY <1>12 DEF ResolveAction, Drives, Attempts, TypeOK, Runs, Access, Unresolved, Idle, setup, trade
<1>13. ASSUME NEW i \in Ids, End(i) PROVE Attempts'
  BY <1>13 DEF End, Drives, Attempts, TypeOK, Runs, Access, Unresolved, Idle, setup, trade
<1>14. ASSUME NEW i \in Ids, Recheck(i) PROVE Attempts'
  BY <1>14 DEF Recheck, Drives, Active, Attempts, TypeOK, Runs, Access, Unresolved, Idle, setup, trade
<1>15. ASSUME NEW i \in Ids, Review(i) PROVE Attempts'
  BY <1>15 DEF Review, Drives, BoundTo, Attempts, TypeOK, Runs, Access, Unresolved, Idle, setup, trade
<1>16. ASSUME NEW i \in Ids, VenueMoves(i) PROVE Attempts'
  BY <1>16 DEF VenueMoves, Attempts, TypeOK, Runs, Access, Unresolved, Idle, setup, trade
<1>17. ASSUME NEW t \in Traders, NEW a \in Accounts, Rebind(t, a) PROVE Attempts'
  BY <1>17 DEF Rebind, Busy, Active, Attempts, TypeOK, Runs, Access, Unresolved, Idle, setup, trade
<1>18. ASSUME NEW a \in Accounts, ReplaceKey(a) PROVE Attempts'
  BY <1>18 DEF ReplaceKey, Busy, Active, Attempts, TypeOK, Runs, Access, Unresolved, Idle, setup, trade
<1>19. ASSUME NEW t \in Traders, DeleteTrader(t) PROVE Attempts'
  BY <1>19 DEF DeleteTrader, Attempts, TypeOK, Runs, Access, Unresolved, Idle, setup, trade
<1>20. ASSUME NEW t \in Traders, Reload(t) PROVE Attempts'
  BY <1>20 DEF Reload, Attempts, TypeOK, Runs, Access, Unresolved, Idle, setup, trade
<1>21. ASSUME NEW w \in Processes, Crash(w) PROVE Attempts'
  BY <1>21 DEF Crash, Idle, Attempts, TypeOK, Runs, Access, Unresolved, Idle, setup, trade
<1>22. CASE UNCHANGED vars
  BY <1>22 DEF vars, Attempts, TypeOK, Runs, Access, Unresolved, Idle, setup, trade
<1> QED BY <1>1, <1>2, <1>3, <1>4, <1>5, <1>6, <1>7, <1>8, <1>9, <1>10, <1>11, <1>12, <1>13, <1>14, <1>15, <1>16, <1>17, <1>18, <1>19, <1>20, <1>21, <1>22 DEF Next, Admission, Life, Ground

(* Every step keeps engines and attempts consistent. *)
LEMMA RunsStep == Inv /\ [Next]_vars => Runs'
<1> SUFFICES ASSUME Inv, [Next]_vars PROVE Runs'
  OBVIOUS
<1> USE AccountClaimAssumption DEF Inv
<1>1. ASSUME NEW t \in Traders, NEW i \in Ids, ClaimAction(t, i) PROVE Runs'
  BY <1>1 DEF ClaimAction, Idle, Runs, TypeOK, Attempts, Access, Idle, Unresolved, setup, trade
<1>2. ASSUME NEW t \in Traders, Lock(t) PROVE Runs'
  BY <1>2 DEF Lock, Step, Runs, TypeOK, Attempts, Access, Idle, Unresolved, setup, trade
<1>3. ASSUME NEW t \in Traders, CheckOwners(t) PROVE Runs'
  BY <1>3 DEF CheckOwners, Step, Runs, TypeOK, Attempts, Access, Idle, Unresolved, setup, trade
<1>4. ASSUME NEW t \in Traders, CheckPosition(t) PROVE Runs'
  BY <1>4 DEF CheckPosition, Step, Runs, TypeOK, Attempts, Access, Idle, Unresolved, setup, trade
<1>5. ASSUME NEW t \in Traders, CheckOrders(t) PROVE Runs'
  BY <1>5 DEF CheckOrders, Step, Runs, TypeOK, Attempts, Access, Idle, Unresolved, setup, trade
<1>6. ASSUME NEW t \in Traders, Create(t) PROVE Runs'
  BY <1>6 DEF Create, Step, Claimable, Releasable, Active, Runs, TypeOK, Attempts, Access, Idle, Unresolved, setup, trade
<1>7. ASSUME NEW t \in Traders, Refuse(t) PROVE Runs'
  BY <1>7 DEF Refuse, Unlock, Idle, Runs, TypeOK, Attempts, Access, Idle, Unresolved, setup, trade
<1>8. ASSUME NEW t \in Traders, Submit(t) PROVE Runs'
  BY <1>8 DEF Submit, Unlock, Idle, Send, Runs, TypeOK, Attempts, Access, Idle, Unresolved, setup, trade
<1>9. ASSUME NEW t \in Traders, Resurrect(t) PROVE Runs'
  BY <1>9 DEF Resurrect, Idle, Runs, TypeOK, Attempts, Access, Idle, Unresolved, setup, trade
<1>10. ASSUME NEW i \in Ids, Resume(i) PROVE Runs'
  BY <1>10 DEF Resume, Send, Drives, Runs, TypeOK, Attempts, Access, Idle, Unresolved, setup, trade
<1>11. ASSUME NEW i \in Ids, Settle(i) PROVE Runs'
  BY <1>11 DEF Settle, Drives, Pending, Rows, Runs, TypeOK, Attempts, Access, Idle, Unresolved, setup, trade
<1>12. ASSUME NEW i \in Ids, ResolveAction(i) PROVE Runs'
  BY <1>12 DEF ResolveAction, Drives, Runs, TypeOK, Attempts, Access, Idle, Unresolved, setup, trade
<1>13. ASSUME NEW i \in Ids, End(i) PROVE Runs'
  BY <1>13 DEF End, Drives, Runs, TypeOK, Attempts, Access, Idle, Unresolved, setup, trade
<1>14. ASSUME NEW i \in Ids, Recheck(i) PROVE Runs'
  BY <1>14 DEF Recheck, Drives, Active, Runs, TypeOK, Attempts, Access, Idle, Unresolved, setup, trade
<1>15. ASSUME NEW i \in Ids, Review(i) PROVE Runs'
  BY <1>15 DEF Review, Drives, BoundTo, Runs, TypeOK, Attempts, Access, Idle, Unresolved, setup, trade
<1>16. ASSUME NEW i \in Ids, VenueMoves(i) PROVE Runs'
  BY <1>16 DEF VenueMoves, Runs, TypeOK, Attempts, Access, Idle, Unresolved, setup, trade
<1>17. ASSUME NEW t \in Traders, NEW a \in Accounts, Rebind(t, a) PROVE Runs'
  BY <1>17 DEF Rebind, Busy, Active, Runs, TypeOK, Attempts, Access, Idle, Unresolved, setup, trade
<1>18. ASSUME NEW a \in Accounts, ReplaceKey(a) PROVE Runs'
  BY <1>18 DEF ReplaceKey, Busy, Active, Runs, TypeOK, Attempts, Access, Idle, Unresolved, setup, trade
<1>19. ASSUME NEW t \in Traders, DeleteTrader(t) PROVE Runs'
  BY <1>19 DEF DeleteTrader, Runs, TypeOK, Attempts, Access, Idle, Unresolved, setup, trade
<1>20. ASSUME NEW t \in Traders, Reload(t) PROVE Runs'
  BY <1>20 DEF Reload, Runs, TypeOK, Attempts, Access, Idle, Unresolved, setup, trade
<1>21. ASSUME NEW w \in Processes, Crash(w) PROVE Runs'
  BY <1>21 DEF Crash, Idle, Runs, TypeOK, Attempts, Access, Idle, Unresolved, setup, trade
<1>22. CASE UNCHANGED vars
  BY <1>22 DEF vars, Runs, TypeOK, Attempts, Access, Idle, Unresolved, setup, trade
<1> QED BY <1>1, <1>2, <1>3, <1>4, <1>5, <1>6, <1>7, <1>8, <1>9, <1>10, <1>11, <1>12, <1>13, <1>14, <1>15, <1>16, <1>17, <1>18, <1>19, <1>20, <1>21, <1>22 DEF Next, Admission, Life, Ground

(* Every step keeps the row with the trade that may still act. *)
LEMMA RowStep == Inv /\ [Next]_vars => RowHeld'
<1> SUFFICES ASSUME Inv, [Next]_vars PROVE RowHeld'
  OBVIOUS
<1> USE AccountClaimAssumption DEF Inv
<1>1. ASSUME NEW t \in Traders, NEW i \in Ids, ClaimAction(t, i) PROVE RowHeld'
  BY <1>1 DEF ClaimAction, Idle, RowHeld, Unsettled, TypeOK, Attempts, Runs, Pending, Unresolved, setup, trade
<1>2. ASSUME NEW t \in Traders, Lock(t) PROVE RowHeld'
  BY <1>2 DEF Lock, Step, RowHeld, Unsettled, TypeOK, Attempts, Runs, Pending, Unresolved, setup, trade
<1>3. ASSUME NEW t \in Traders, CheckOwners(t) PROVE RowHeld'
  BY <1>3 DEF CheckOwners, Step, RowHeld, Unsettled, TypeOK, Attempts, Runs, Pending, Unresolved, setup, trade
<1>4. ASSUME NEW t \in Traders, CheckPosition(t) PROVE RowHeld'
  BY <1>4 DEF CheckPosition, Step, RowHeld, Unsettled, TypeOK, Attempts, Runs, Pending, Unresolved, setup, trade
<1>5. ASSUME NEW t \in Traders, CheckOrders(t) PROVE RowHeld'
  BY <1>5 DEF CheckOrders, Step, RowHeld, Unsettled, TypeOK, Attempts, Runs, Pending, Unresolved, setup, trade
<1>6. ASSUME NEW t \in Traders, Create(t) PROVE RowHeld'
  BY <1>6 DEF Create, Step, Claimable, Releasable, Active, RowHeld, Unsettled, TypeOK, Attempts, Runs, Pending, Unresolved, setup, trade
<1>7. ASSUME NEW t \in Traders, Refuse(t) PROVE RowHeld'
  BY <1>7 DEF Refuse, Unlock, Idle, RowHeld, Unsettled, TypeOK, Attempts, Runs, Pending, Unresolved, setup, trade
<1>8. ASSUME NEW t \in Traders, Submit(t) PROVE RowHeld'
  BY <1>8 DEF Submit, Unlock, Idle, Send, RowHeld, Unsettled, TypeOK, Attempts, Runs, Pending, Unresolved, setup, trade
<1>9. ASSUME NEW t \in Traders, Resurrect(t) PROVE RowHeld'
  BY <1>9 DEF Resurrect, Idle, RowHeld, Unsettled, TypeOK, Attempts, Runs, Pending, Unresolved, setup, trade
<1>10. ASSUME NEW i \in Ids, Resume(i) PROVE RowHeld'
  BY <1>10 DEF Resume, Send, Drives, RowHeld, Unsettled, TypeOK, Attempts, Runs, Pending, Unresolved, setup, trade
<1>11. ASSUME NEW i \in Ids, Settle(i) PROVE RowHeld'
  BY <1>11 DEF Settle, Drives, Pending, Rows, RowHeld, Unsettled, TypeOK, Attempts, Runs, Pending, Unresolved, setup, trade
<1>12. ASSUME NEW i \in Ids, ResolveAction(i) PROVE RowHeld'
  BY <1>12 DEF ResolveAction, Drives, RowHeld, Unsettled, TypeOK, Attempts, Runs, Pending, Unresolved, setup, trade
<1>13. ASSUME NEW i \in Ids, End(i) PROVE RowHeld'
  BY <1>13 DEF End, Drives, RowHeld, Unsettled, TypeOK, Attempts, Runs, Pending, Unresolved, setup, trade
<1>14. ASSUME NEW i \in Ids, Recheck(i) PROVE RowHeld'
  BY <1>14 DEF Recheck, Drives, Active, RowHeld, Unsettled, TypeOK, Attempts, Runs, Pending, Unresolved, setup, trade
<1>15. ASSUME NEW i \in Ids, Review(i) PROVE RowHeld'
  BY <1>15 DEF Review, Drives, BoundTo, RowHeld, Unsettled, TypeOK, Attempts, Runs, Pending, Unresolved, setup, trade
<1>16. ASSUME NEW i \in Ids, VenueMoves(i) PROVE RowHeld'
  BY <1>16 DEF VenueMoves, RowHeld, Unsettled, TypeOK, Attempts, Runs, Pending, Unresolved, setup, trade
<1>17. ASSUME NEW t \in Traders, NEW a \in Accounts, Rebind(t, a) PROVE RowHeld'
  BY <1>17 DEF Rebind, Busy, Active, RowHeld, Unsettled, TypeOK, Attempts, Runs, Pending, Unresolved, setup, trade
<1>18. ASSUME NEW a \in Accounts, ReplaceKey(a) PROVE RowHeld'
  BY <1>18 DEF ReplaceKey, Busy, Active, RowHeld, Unsettled, TypeOK, Attempts, Runs, Pending, Unresolved, setup, trade
<1>19. ASSUME NEW t \in Traders, DeleteTrader(t) PROVE RowHeld'
  BY <1>19 DEF DeleteTrader, RowHeld, Unsettled, TypeOK, Attempts, Runs, Pending, Unresolved, setup, trade
<1>20. ASSUME NEW t \in Traders, Reload(t) PROVE RowHeld'
  BY <1>20 DEF Reload, RowHeld, Unsettled, TypeOK, Attempts, Runs, Pending, Unresolved, setup, trade
<1>21. ASSUME NEW w \in Processes, Crash(w) PROVE RowHeld'
  BY <1>21 DEF Crash, Idle, RowHeld, Unsettled, TypeOK, Attempts, Runs, Pending, Unresolved, setup, trade
<1>22. CASE UNCHANGED vars
  BY <1>22 DEF vars, RowHeld, Unsettled, TypeOK, Attempts, Runs, Pending, Unresolved, setup, trade
<1> QED BY <1>1, <1>2, <1>3, <1>4, <1>5, <1>6, <1>7, <1>8, <1>9, <1>10, <1>11, <1>12, <1>13, <1>14, <1>15, <1>16, <1>17, <1>18, <1>19, <1>20, <1>21, <1>22 DEF Next, Admission, Life, Ground

(* No step takes the account or the credentials from under a trade. *)
LEMMA GroundStep == Inv /\ [Next]_vars => GroundHolds'
<1> SUFFICES ASSUME Inv, [Next]_vars PROVE GroundHolds'
  OBVIOUS
<1> USE AccountClaimAssumption DEF Inv
<1>1. ASSUME NEW t \in Traders, NEW i \in Ids, ClaimAction(t, i) PROVE GroundHolds'
  BY <1>1 DEF ClaimAction, Idle, GroundHolds, Unsettled, TypeOK, Attempts, Runs, Pending, Unresolved, setup, trade
<1>2. ASSUME NEW t \in Traders, Lock(t) PROVE GroundHolds'
  BY <1>2 DEF Lock, Step, GroundHolds, Unsettled, TypeOK, Attempts, Runs, Pending, Unresolved, setup, trade
<1>3. ASSUME NEW t \in Traders, CheckOwners(t) PROVE GroundHolds'
  BY <1>3 DEF CheckOwners, Step, GroundHolds, Unsettled, TypeOK, Attempts, Runs, Pending, Unresolved, setup, trade
<1>4. ASSUME NEW t \in Traders, CheckPosition(t) PROVE GroundHolds'
  BY <1>4 DEF CheckPosition, Step, GroundHolds, Unsettled, TypeOK, Attempts, Runs, Pending, Unresolved, setup, trade
<1>5. ASSUME NEW t \in Traders, CheckOrders(t) PROVE GroundHolds'
  BY <1>5 DEF CheckOrders, Step, GroundHolds, Unsettled, TypeOK, Attempts, Runs, Pending, Unresolved, setup, trade
<1>6. ASSUME NEW t \in Traders, Create(t) PROVE GroundHolds'
  BY <1>6 DEF Create, Step, Claimable, Releasable, Active, GroundHolds, Unsettled, TypeOK, Attempts, Runs, Pending, Unresolved, setup, trade
<1>7. ASSUME NEW t \in Traders, Refuse(t) PROVE GroundHolds'
  BY <1>7 DEF Refuse, Unlock, Idle, GroundHolds, Unsettled, TypeOK, Attempts, Runs, Pending, Unresolved, setup, trade
<1>8. ASSUME NEW t \in Traders, Submit(t) PROVE GroundHolds'
  BY <1>8 DEF Submit, Unlock, Idle, Send, GroundHolds, Unsettled, TypeOK, Attempts, Runs, Pending, Unresolved, setup, trade
<1>9. ASSUME NEW t \in Traders, Resurrect(t) PROVE GroundHolds'
  BY <1>9 DEF Resurrect, Idle, GroundHolds, Unsettled, TypeOK, Attempts, Runs, Pending, Unresolved, setup, trade
<1>10. ASSUME NEW i \in Ids, Resume(i) PROVE GroundHolds'
  BY <1>10 DEF Resume, Send, Drives, GroundHolds, Unsettled, TypeOK, Attempts, Runs, Pending, Unresolved, setup, trade
<1>11. ASSUME NEW i \in Ids, Settle(i) PROVE GroundHolds'
  BY <1>11 DEF Settle, Drives, Pending, Rows, GroundHolds, Unsettled, TypeOK, Attempts, Runs, Pending, Unresolved, setup, trade
<1>12. ASSUME NEW i \in Ids, ResolveAction(i) PROVE GroundHolds'
  BY <1>12 DEF ResolveAction, Drives, GroundHolds, Unsettled, TypeOK, Attempts, Runs, Pending, Unresolved, setup, trade
<1>13. ASSUME NEW i \in Ids, End(i) PROVE GroundHolds'
  BY <1>13 DEF End, Drives, GroundHolds, Unsettled, TypeOK, Attempts, Runs, Pending, Unresolved, setup, trade
<1>14. ASSUME NEW i \in Ids, Recheck(i) PROVE GroundHolds'
  BY <1>14 DEF Recheck, Drives, Active, GroundHolds, Unsettled, TypeOK, Attempts, Runs, Pending, Unresolved, setup, trade
<1>15. ASSUME NEW i \in Ids, Review(i) PROVE GroundHolds'
  BY <1>15 DEF Review, Drives, BoundTo, GroundHolds, Unsettled, TypeOK, Attempts, Runs, Pending, Unresolved, setup, trade
<1>16. ASSUME NEW i \in Ids, VenueMoves(i) PROVE GroundHolds'
  BY <1>16 DEF VenueMoves, GroundHolds, Unsettled, TypeOK, Attempts, Runs, Pending, Unresolved, setup, trade
<1>17. ASSUME NEW t \in Traders, NEW a \in Accounts, Rebind(t, a) PROVE GroundHolds'
  BY <1>17 DEF Rebind, Busy, Active, GroundHolds, Unsettled, TypeOK, Attempts, Runs, Pending, Unresolved, setup, trade
<1>18. ASSUME NEW a \in Accounts, ReplaceKey(a) PROVE GroundHolds'
  BY <1>18 DEF ReplaceKey, Busy, Active, GroundHolds, Unsettled, TypeOK, Attempts, Runs, Pending, Unresolved, setup, trade
<1>19. ASSUME NEW t \in Traders, DeleteTrader(t) PROVE GroundHolds'
  BY <1>19 DEF DeleteTrader, GroundHolds, Unsettled, TypeOK, Attempts, Runs, Pending, Unresolved, setup, trade
<1>20. ASSUME NEW t \in Traders, Reload(t) PROVE GroundHolds'
  BY <1>20 DEF Reload, GroundHolds, Unsettled, TypeOK, Attempts, Runs, Pending, Unresolved, setup, trade
<1>21. ASSUME NEW w \in Processes, Crash(w) PROVE GroundHolds'
  BY <1>21 DEF Crash, Idle, GroundHolds, Unsettled, TypeOK, Attempts, Runs, Pending, Unresolved, setup, trade
<1>22. CASE UNCHANGED vars
  BY <1>22 DEF vars, GroundHolds, Unsettled, TypeOK, Attempts, Runs, Pending, Unresolved, setup, trade
<1> QED BY <1>1, <1>2, <1>3, <1>4, <1>5, <1>6, <1>7, <1>8, <1>9, <1>10, <1>11, <1>12, <1>13, <1>14, <1>15, <1>16, <1>17, <1>18, <1>19, <1>20, <1>21, <1>22 DEF Next, Admission, Life, Ground

-----------------------------------------------------------------------------
(* Keys are replaced at most as often as anything changes. *)
LEMMA KeysStep == Inv /\ [Next]_vars => KeysCounted'
<1> SUFFICES ASSUME Inv, [Next]_vars PROVE KeysCounted'
  OBVIOUS
<1>1. /\ key \in [Accounts -> 0 .. MaxChanges] /\ changes \in Nat
      /\ \A a \in Accounts : key[a] <= changes
  BY AccountClaimAssumption DEF Inv, TypeOK, KeysCounted
<1>2. ASSUME NEW a \in Accounts, ReplaceKey(a) PROVE KeysCounted'
  BY <1>1, <1>2 DEF ReplaceKey, KeysCounted
<1>3. CASE UNCHANGED key /\ (changes' = changes \/ changes' = changes + 1)
  BY <1>1, <1>3 DEF KeysCounted
<1>4. [Next]_vars => \/ \E a \in Accounts : ReplaceKey(a)
                     \/ UNCHANGED key /\ (changes' = changes \/ changes' = changes + 1)
  BY DEF Next, Admission, Life, Ground, vars, setup, ClaimAction, Lock, CheckOwners, CheckPosition,
         CheckOrders, Create, Refuse, Submit, Resurrect, Resume, Settle, ResolveAction, End, Recheck,
         Review, VenueMoves, Rebind, DeleteTrader, Reload, Crash
<1> QED BY <1>2, <1>3, <1>4

(* The inductive invariant of the claims. *)
LEMMA ClaimInit == Init => Inv
BY AccountClaimAssumption DEF Init, Inv, TypeOK, Attempts, Runs, KeysCounted, RowHeld, GroundHolds,
   LocksHeld, Unsettled, Unresolved, Access, Steps, States, Actions, Rows, Idle

LEMMA ClaimInductive == Inv /\ [Next]_vars => Inv'
BY TypesStep, LocksStep, AttemptsStep, RunsStep, KeysStep, RowStep, GroundStep DEF Inv, TypeOK, Types

LEMMA InvHolds == Spec => []Inv
BY ClaimInit, ClaimInductive, PTL DEF Spec

(* Types, and the admission locks, for any number of traders and processes. *)
THEOREM TypeCorrect == Spec => []TypeOK
BY InvHolds, PTL DEF Inv

(* Two trades of a managed account side never both may act. *)
THEOREM SideIsExclusive == Spec => []SideExclusive
<1>1. Inv => SideExclusive
  BY DEF Inv, RowHeld, SideExclusive
<1> QED BY <1>1, InvHolds, PTL

(* Neither the binding nor the credentials change under a trade that may act. *)
THEOREM GroundIsHeld == Spec => []GroundHolds
BY InvHolds, PTL DEF Inv

-----------------------------------------------------------------------------
(* The two-miss verdict over the position cache of an adapter that copies  *)
(* its slice under the lock and can be invalidated, for any symbols and    *)
(* any times with Latency < Interval.  The argument is about ages: while   *)
(* the watched position stays open, an answer without it is as old as the  *)
(* first miss (Staleness), so it cannot be stored any more when the second *)
(* pass has dropped the cache (SecondPass).                                *)

CacheType == [set : BOOLEAN, val : SUBSET Symbols, age : 0 .. TTL]
ReaderType == [pc : {"idle", "check", "unlocked", "ask", "answered", "done"},
               val : SUBSET Symbols, age : 0 .. Latency, held : SUBSET Symbols]
WatchType == [misses : 0 .. Cache!Gone, held : SUBSET Symbols, wait : 0 .. Interval]

CacheTimes == TTL \in Nat /\ Interval \in Nat /\ Latency \in Nat /\ CacheChanges \in Nat /\ Latency < Interval

(* What was open throughout is still open.                                 *)
HeldIsOpen == watch.held \subseteq real

(* The pass of the reconciler begins when its wait is over, and an adapter *)
(* that copies never reads unlocked; after the verdict there is no pass.    *)
PassFits ==
    /\ rd["engine"].pc # "idle" => watch.wait = 0
    /\ rd["engine"].pc # "idle" => ~ Cache!verdict
    /\ exchange.copies => \A r \in Cache!Readers : rd[r].pc # "unlocked"

Watching == exchange.copies /\ exchange.invalidates /\ Watched \in watch.held /\ watch.misses > 0

(* An answer without the watched position is from before the first miss.   *)
Staleness ==
    Watching /\ rd["web"].pc = "answered" /\ Watched \notin rd["web"].val
        => rd["web"].age + watch.wait >= Interval

(* Neither the cache nor the pass that follows a miss has it wrong.        *)
SecondPass ==
    Watching /\ rd["engine"].pc # "idle" =>
        /\ cache.set => Watched \in cache.val
        /\ rd["engine"].pc \in {"answered", "done"} => Watched \in rd["engine"].val

OneMissAtMost == Watching => watch.misses = 1

CacheInv == Cache!PositionCacheAssumption /\ Cache!TypeOK /\ HeldIsOpen /\ PassFits /\ Staleness /\ SecondPass
          /\ OneMissAtMost

-----------------------------------------------------------------------------
LEMMA CacheBasics ==
    ASSUME CacheInv
    PROVE  /\ CacheTimes /\ Cache!Readers = {"engine", "web"}
           /\ cache \in CacheType /\ watch \in WatchType /\ rd \in [Cache!Readers -> ReaderType]
           /\ \A r \in Cache!Readers : rd[r] \in ReaderType
           /\ real \subseteq Symbols /\ Watched \in Symbols
           /\ Cache!Nil \in CacheType /\ Cache!Idle \in ReaderType /\ ~ Cache!Nil.set /\ Cache!Idle.pc = "idle"
           /\ 0 \in 0 .. TTL /\ 0 \in 0 .. Latency /\ 0 \in 0 .. Interval /\ Interval \in 0 .. Interval
<1>1. CacheTimes /\ Cache!Readers = {"engine", "web"} /\ Watched \in Symbols
  BY DEF CacheInv, Cache!PositionCacheAssumption, CacheTimes, Cache!Readers
<1>2. 0 \in 0 .. TTL /\ 0 \in 0 .. Latency /\ 0 \in 0 .. Interval /\ Interval \in 0 .. Interval
  BY <1>1 DEF CacheTimes
<1>3. cache \in CacheType /\ watch \in WatchType /\ rd \in [Cache!Readers -> ReaderType]
      /\ real \subseteq Symbols
  BY DEF CacheInv, Cache!TypeOK, CacheType, WatchType, ReaderType
<1>4. Cache!Nil \in CacheType /\ Cache!Idle \in ReaderType /\ ~ Cache!Nil.set /\ Cache!Idle.pc = "idle"
  BY <1>2 DEF Cache!Nil, Cache!Idle, CacheType, ReaderType
<1> QED BY <1>1, <1>2, <1>3, <1>4

(* The types of the next state, by the record types.                       *)
CacheTyped ==
    /\ exchange \in Cache!Adapters /\ real \subseteq Symbols
    /\ cache \in CacheType /\ (~ cache.set => cache.val = {})
    /\ rd \in [Cache!Readers -> ReaderType]
    /\ watch \in WatchType
    /\ turns \in 0 .. CacheChanges

LEMMA CacheTypedNow == CacheInv => CacheTyped
BY DEF CacheInv, Cache!TypeOK, CacheTyped, CacheType, ReaderType, WatchType


(* No pass is under way after the verdict.                                 *)
LEMMA JudgeFacts ==
    ASSUME CacheInv, Cache!Judge
    PROVE  /\ watch' \in WatchType /\ watch'.held = watch.held
           /\ watch.misses \in 0 .. 2
           /\ watch'.misses # 0 => watch'.wait = Interval \/ watch.misses > 0
           /\ Watched \in rd["engine"].val /\ watch.misses < 2 => watch'.misses = 0
           /\ watch.misses = 0 => watch'.misses \in {0, 1}
<1>1. watch.misses \in 0 .. 2
  BY CacheBasics DEF CacheInv, Cache!Judge, PassFits, Cache!verdict, WatchType, Cache!Gone
<1>2. CASE Watched \notin rd["engine"].val
  <2> DEFINE n == watch.misses + 1
             w == IF watch.misses = 0 THEN Interval ELSE 0
  <2>1. n \in 0 .. Cache!Gone /\ w \in 0 .. Interval /\ n # 0 /\ (watch.misses = 0 => n = 1 /\ w = Interval)
    BY <1>1, CacheBasics DEF Cache!Gone
  <2>2. watch' = [watch EXCEPT !.misses = n, !.wait = w]
    BY <1>2 DEF Cache!Judge
  <2> HIDE DEF n, w
  <2>3. watch' \in WatchType /\ watch'.held = watch.held /\ watch'.misses = n /\ watch'.wait = w
    BY <2>1, <2>2, CacheBasics DEF WatchType
  <2> QED BY <1>1, <1>2, <2>1, <2>3
<1>3. CASE Watched \in rd["engine"].val
  <2>1. PICK n \in {0, 1} : /\ watch' = [watch EXCEPT !.misses = n, !.wait = Interval]
                            /\ watch.misses < 2 => n = 0
    BY <1>1, <1>3 DEF Cache!Judge
  <2>2. n \in 0 .. Cache!Gone
    BY DEF Cache!Gone
  <2>3. watch' \in WatchType /\ watch'.held = watch.held /\ watch'.misses = n /\ watch'.wait = Interval
    BY <2>1, <2>2, CacheBasics DEF WatchType
  <2> QED BY <1>1, <1>3, <2>1, <2>3
<1> QED BY <1>2, <1>3

(* Every step keeps the types. *)
LEMMA CacheTypeStep == CacheInv /\ [Cache!Next]_(Cache!vars) => CacheTyped'
<1> SUFFICES ASSUME CacheInv, [Cache!Next]_(Cache!vars) PROVE CacheTyped'
  OBVIOUS
<1>1. ASSUME NEW r \in Cache!Readers, Cache!BeginRead(r) PROVE CacheTyped'
  <2>1. cache' \in CacheType /\ (~ cache'.set => cache'.val = {})
    BY <1>1, CacheTypedNow, CacheBasics DEF Cache!BeginRead, Cache!Invalidate, Cache!Nil, CacheTyped
  <2>2. [Cache!Idle EXCEPT !.pc = "check", !.held = real] \in ReaderType
    BY CacheBasics DEF ReaderType
  <2>3. rd' \in [Cache!Readers -> ReaderType]
    BY <1>1, <2>2, CacheBasics DEF Cache!BeginRead
  <2>4. [watch EXCEPT !.held = real] \in WatchType
    BY CacheBasics DEF WatchType
  <2>5. watch' \in WatchType
    BY <1>1, <2>4, CacheBasics DEF Cache!BeginRead
  <2> QED BY <1>1, <2>1, <2>3, <2>5, CacheTypedNow DEF Cache!BeginRead, CacheTyped
<1>2. ASSUME NEW r \in Cache!Readers, Cache!Check(r) PROVE CacheTyped'
  <2>1. [rd[r] EXCEPT !.pc = "done", !.val = cache.val] \in ReaderType
    BY CacheBasics DEF ReaderType, CacheType
  <2>2. [rd[r] EXCEPT !.pc = "unlocked"] \in ReaderType
    BY CacheBasics DEF ReaderType, CacheType
  <2>3. [rd[r] EXCEPT !.pc = "ask"] \in ReaderType
    BY CacheBasics DEF ReaderType, CacheType
  <2>4. rd' \in [Cache!Readers -> ReaderType]
    BY <1>2, <2>1, <2>2, <2>3, CacheBasics DEF Cache!Check, Cache!Go
  <2> QED BY <1>2, <2>4, CacheTypedNow DEF Cache!Check, CacheTyped
<1>3. ASSUME NEW r \in Cache!Readers, Cache!ReadUnlocked(r) PROVE CacheTyped'
  <2>1. [rd[r] EXCEPT !.pc = "done", !.val = cache.val] \in ReaderType
    BY CacheBasics DEF ReaderType, CacheType
  <2>2. rd' \in [Cache!Readers -> ReaderType]
    BY <1>3, <2>1, CacheBasics DEF Cache!ReadUnlocked, Cache!Go
  <2> QED BY <1>3, <2>2, CacheTypedNow DEF Cache!ReadUnlocked, CacheTyped
<1>4. ASSUME NEW r \in Cache!Readers, Cache!Answer(r) PROVE CacheTyped'
  <2>1. [rd[r] EXCEPT !.pc = "answered", !.val = real] \in ReaderType
    BY CacheBasics DEF ReaderType, CacheType
  <2>2. rd' \in [Cache!Readers -> ReaderType]
    BY <1>4, <2>1, CacheBasics DEF Cache!Answer, Cache!Go
  <2> QED BY <1>4, <2>2, CacheTypedNow DEF Cache!Answer, CacheTyped
<1>5. ASSUME NEW r \in Cache!Readers, Cache!Store(r) PROVE CacheTyped'
  <2>1. [rd[r] EXCEPT !.pc = "done"] \in ReaderType
    BY CacheBasics DEF ReaderType
  <2>2. rd' \in [Cache!Readers -> ReaderType]
    BY <1>5, <2>1, CacheBasics DEF Cache!Store, Cache!Go
  <2>3. rd[r].val \subseteq Symbols
    BY CacheBasics DEF ReaderType
  <2>4. cache' \in CacheType /\ (~ cache'.set => cache'.val = {})
    BY <1>5, <2>3, CacheBasics DEF Cache!Store, CacheType
  <2> QED BY <1>5, <2>2, <2>4, CacheTypedNow DEF Cache!Store, CacheTyped
<1>6. CASE Cache!Return
  <2>1. rd' \in [Cache!Readers -> ReaderType]
    BY <1>6, CacheBasics DEF Cache!Return
  <2> QED BY <1>6, <2>1, CacheTypedNow DEF Cache!Return, CacheTyped
<1>7. CASE Cache!Judge
  <2>1. rd' \in [Cache!Readers -> ReaderType]
    BY <1>7, CacheBasics DEF Cache!Judge
  <2>3. watch' \in WatchType
    BY <1>7, JudgeFacts
  <2> QED BY <1>7, <2>1, <2>3, CacheTypedNow DEF Cache!Judge, CacheTyped
<1>8. CASE Cache!ClearCache
  <2>1. turns' \in 0 .. CacheChanges
    BY <1>8, CacheTypedNow, CacheBasics DEF Cache!ClearCache, CacheTyped, CacheTimes
  <2> QED BY <1>8, <2>1, CacheTypedNow, CacheBasics DEF Cache!ClearCache, CacheTyped, Cache!Nil
<1>9. CASE Cache!Change
  <2>1. turns' \in 0 .. CacheChanges
    BY <1>9, CacheTypedNow, CacheBasics DEF Cache!Change, CacheTyped, CacheTimes
  <2>2. real' \subseteq Symbols
    BY <1>9, CacheBasics DEF Cache!Change
  <2>3. \A r \in Cache!Readers : [rd[r] EXCEPT !.held = rd[r].held \cap real'] \in ReaderType
    BY <2>2, CacheBasics DEF ReaderType
  <2>4. rd' \in [Cache!Readers -> ReaderType]
    BY <1>9, <2>3 DEF Cache!Change
  <2>5. [watch EXCEPT !.held = watch.held \cap real'] \in WatchType
    BY <2>2, CacheBasics DEF WatchType
  <2>6. watch' \in WatchType
    BY <1>9, <2>5 DEF Cache!Change
  <2> QED BY <1>9, <2>1, <2>2, <2>4, <2>6, CacheTypedNow DEF Cache!Change, CacheTyped
<1>10. CASE Cache!Tick
  <2>1. rd' \in [Cache!Readers -> ReaderType]
    <3> SUFFICES ASSUME NEW r \in Cache!Readers, rd[r].pc # "idle"
                 PROVE  [rd[r] EXCEPT !.age = rd[r].age + 1] \in ReaderType
      BY <1>10, CacheBasics DEF Cache!Tick
    <3>1. rd[r].age \in 0 .. Latency /\ rd[r].age < Latency
      BY <1>10, CacheBasics DEF Cache!Tick, ReaderType
    <3> DEFINE n == rd[r].age + 1
    <3>2. n \in 0 .. Latency
      BY <3>1, CacheBasics DEF CacheTimes
    <3> HIDE DEF n
    <3>3. [rd[r] EXCEPT !.age = n] \in ReaderType
      BY <3>2, CacheBasics DEF ReaderType
    <3> QED BY <3>3 DEF n
  <2>2. cache' \in CacheType /\ (~ cache'.set => cache'.val = {})
    <3>1. CASE cache' = cache
      BY <3>1, CacheTypedNow DEF CacheTyped
    <3>2. CASE cache.set /\ cache.age < TTL /\ cache' = [cache EXCEPT !.age = cache.age + 1]
      <4> DEFINE n == cache.age + 1
      <4>1. n \in 0 .. TTL
        BY <3>2, CacheBasics DEF CacheTimes, CacheType
      <4> HIDE DEF n
      <4>2. [cache EXCEPT !.age = n] \in CacheType /\ [cache EXCEPT !.age = n].set = cache.set
        BY <4>1, CacheBasics DEF CacheType
      <4> QED BY <3>2, <4>2 DEF n
    <3> QED BY <1>10, <3>1, <3>2 DEF Cache!Tick
  <2>3. watch' \in WatchType
    <3>1. CASE watch' = watch
      BY <3>1, CacheBasics
    <3>2. CASE watch.wait > 0 /\ watch' = [watch EXCEPT !.wait = watch.wait - 1]
      <4> DEFINE n == watch.wait - 1
      <4>1. n \in 0 .. Interval
        BY <3>2, CacheBasics DEF CacheTimes, WatchType
      <4> HIDE DEF n
      <4>2. [watch EXCEPT !.wait = n] \in WatchType
        BY <4>1, CacheBasics DEF WatchType
      <4> QED BY <3>2, <4>2 DEF n
    <3> QED BY <1>10, <3>1, <3>2 DEF Cache!Tick
  <2> QED BY <1>10, <2>1, <2>2, <2>3, CacheTypedNow DEF Cache!Tick, CacheTyped
<1>11. CASE UNCHANGED Cache!vars
  <2> QED BY <1>11, CacheTypedNow, CacheBasics DEF Cache!vars, CacheTyped, Cache!vars
<1> QED BY <1>1, <1>2, <1>3, <1>4, <1>5, <1>6, <1>7, <1>8, <1>9, <1>10, <1>11 DEF Cache!Next, Cache!Read
(* Passes do not overlap a wait. *)
LEMMA CachePassStep == CacheInv /\ [Cache!Next]_(Cache!vars) => HeldIsOpen' /\ PassFits'
<1> SUFFICES ASSUME CacheInv, [Cache!Next]_(Cache!vars) PROVE HeldIsOpen' /\ PassFits'
  OBVIOUS
<1>1. ASSUME NEW r \in Cache!Readers, Cache!BeginRead(r) PROVE HeldIsOpen' /\ PassFits'
  <2>1. HeldIsOpen'
    BY <1>1, CacheBasics DEF Cache!BeginRead, CacheInv, HeldIsOpen, WatchType
  <2>2. /\ watch'.wait = watch.wait /\ watch'.misses = watch.misses
        /\ r = "engine" => watch.wait = 0
        /\ \A s \in Cache!Readers : rd'[s].pc = IF s = r THEN "check" ELSE rd[s].pc
    BY <1>1, CacheBasics DEF Cache!BeginRead, WatchType, ReaderType, Cache!Idle
  <2>3. PassFits'
    BY <1>1, <2>2, CacheBasics DEF Cache!BeginRead, CacheInv, PassFits, Cache!verdict
  <2> QED BY <2>1, <2>3
<1>2. ASSUME NEW r \in Cache!Readers, Cache!Check(r) PROVE HeldIsOpen' /\ PassFits'
  <2>1. HeldIsOpen'
    BY <1>2, CacheBasics DEF Cache!Check, CacheInv, HeldIsOpen, WatchType, Cache!vars
  <2>2. PassFits'
    BY <1>2, CacheBasics DEF Cache!Check, CacheInv, PassFits, ReaderType, Cache!Idle, Cache!Go, Cache!verdict, Cache!vars
  <2> QED BY <2>1, <2>2
<1>3. ASSUME NEW r \in Cache!Readers, Cache!ReadUnlocked(r) PROVE HeldIsOpen' /\ PassFits'
  <2>1. HeldIsOpen'
    BY <1>3, CacheBasics DEF Cache!ReadUnlocked, CacheInv, HeldIsOpen, WatchType, Cache!vars
  <2>2. PassFits'
    BY <1>3, CacheBasics DEF Cache!ReadUnlocked, CacheInv, PassFits, ReaderType, Cache!Idle, Cache!Go, Cache!verdict, Cache!vars
  <2> QED BY <2>1, <2>2
<1>4. ASSUME NEW r \in Cache!Readers, Cache!Answer(r) PROVE HeldIsOpen' /\ PassFits'
  <2>1. HeldIsOpen'
    BY <1>4, CacheBasics DEF Cache!Answer, CacheInv, HeldIsOpen, WatchType, Cache!vars
  <2>2. PassFits'
    BY <1>4, CacheBasics DEF Cache!Answer, CacheInv, PassFits, ReaderType, Cache!Idle, Cache!Go, Cache!verdict, Cache!vars
  <2> QED BY <2>1, <2>2
<1>5. ASSUME NEW r \in Cache!Readers, Cache!Store(r) PROVE HeldIsOpen' /\ PassFits'
  <2>1. HeldIsOpen'
    BY <1>5, CacheBasics DEF Cache!Store, CacheInv, HeldIsOpen, WatchType, Cache!vars
  <2>2. PassFits'
    BY <1>5, CacheBasics DEF Cache!Store, CacheInv, PassFits, ReaderType, Cache!Idle, Cache!Go, Cache!verdict, Cache!vars
  <2> QED BY <2>1, <2>2
<1>6. CASE Cache!Return
  <2>1. HeldIsOpen'
    BY <1>6, CacheBasics DEF Cache!Return, CacheInv, HeldIsOpen, WatchType, Cache!vars
  <2>2. PassFits'
    BY <1>6, CacheBasics DEF Cache!Return, CacheInv, PassFits, ReaderType, Cache!Idle, Cache!Go, Cache!verdict, Cache!vars
  <2> QED BY <2>1, <2>2
<1>7. CASE Cache!Judge
  <2>1. HeldIsOpen'
    BY <1>7, JudgeFacts DEF Cache!Judge, CacheInv, HeldIsOpen
  <2>2. PassFits'
    BY <1>7, CacheBasics DEF Cache!Judge, CacheInv, PassFits, Cache!Idle
  <2> QED BY <2>1, <2>2
<1>8. CASE Cache!ClearCache
  <2>1. HeldIsOpen'
    BY <1>8, CacheBasics DEF Cache!ClearCache, CacheInv, HeldIsOpen, WatchType, Cache!vars
  <2>2. PassFits'
    BY <1>8, CacheBasics DEF Cache!ClearCache, CacheInv, PassFits, ReaderType, Cache!Idle, Cache!Go, Cache!verdict, Cache!vars
  <2> QED BY <2>1, <2>2
<1>9. CASE Cache!Change
  <2>1. /\ \A s \in Cache!Readers : rd'[s].pc = rd[s].pc
        /\ watch'.held = watch.held \cap real'
        /\ watch'.misses = watch.misses /\ watch'.wait = watch.wait
    BY <1>9, CacheBasics DEF Cache!Change, ReaderType, WatchType
  <2> QED BY <1>9, <2>1, CacheBasics DEF Cache!Change, CacheInv, HeldIsOpen, PassFits, Cache!verdict
<1>10. CASE Cache!Tick
  <2>1. /\ \A s \in Cache!Readers : rd'[s].pc = rd[s].pc
        /\ watch'.held = watch.held /\ watch'.misses = watch.misses
        /\ watch.wait = 0 => watch'.wait = 0
    BY <1>10, CacheBasics DEF Cache!Tick, ReaderType, WatchType
  <2> QED BY <1>10, <2>1, CacheBasics DEF Cache!Tick, CacheInv, HeldIsOpen, PassFits, Cache!verdict
<1>11. CASE UNCHANGED Cache!vars
  <2>1. HeldIsOpen'
    BY <1>11, CacheBasics DEF Cache!vars, CacheInv, HeldIsOpen, WatchType, Cache!vars
  <2>2. PassFits'
    BY <1>11, CacheBasics DEF Cache!vars, CacheInv, PassFits, ReaderType, Cache!Idle, Cache!Go, Cache!verdict, Cache!vars
  <2> QED BY <2>1, <2>2
<1> QED BY <1>1, <1>2, <1>3, <1>4, <1>5, <1>6, <1>7, <1>8, <1>9, <1>10, <1>11 DEF Cache!Next, Cache!Read

(* What the invariant says, field by field.                                *)
LEMMA WatchFacts ==
    ASSUME CacheInv, Watching
    PROVE  /\ Watched \in real /\ exchange.copies /\ exchange.invalidates
           /\ watch.misses = 1
           /\ rd["web"].pc = "answered" /\ Watched \notin rd["web"].val
                  => rd["web"].age + watch.wait >= Interval
           /\ rd["engine"].pc # "idle" =>
                  /\ watch.wait = 0
                  /\ cache.set => Watched \in cache.val
                  /\ rd["engine"].pc \in {"answered", "done"} => Watched \in rd["engine"].val
BY DEF CacheInv, HeldIsOpen, PassFits, Staleness, SecondPass, OneMissAtMost, Watching

(* While the second pass is under way no such answer is left.              *)
LEMMA NoStale ==
    ASSUME CacheInv, Watching, watch.wait = 0, rd["web"].pc = "answered"
    PROVE  Watched \in rd["web"].val
<1> SUFFICES ASSUME Watched \notin rd["web"].val PROVE FALSE
  OBVIOUS
<1>1. rd["web"].age + 0 >= Interval
  BY WatchFacts
<1>2. rd["web"].age \in 0 .. Latency
  BY CacheBasics DEF ReaderType
<1> QED BY <1>1, <1>2, CacheBasics DEF CacheTimes

(* No answer without the watched position survives into the second pass. *)
LEMMA CacheWatchStep == CacheInv /\ [Cache!Next]_(Cache!vars) => Staleness' /\ SecondPass' /\ OneMissAtMost'
<1> SUFFICES ASSUME CacheInv, [Cache!Next]_(Cache!vars) PROVE Staleness' /\ SecondPass' /\ OneMissAtMost'
  OBVIOUS
<1>1. ASSUME NEW r \in Cache!Readers, Cache!BeginRead(r) PROVE Staleness' /\ SecondPass' /\ OneMissAtMost'
  <2> SUFFICES ASSUME Watching' PROVE Staleness' /\ SecondPass' /\ OneMissAtMost'
    BY DEF Staleness, SecondPass, OneMissAtMost
  <2>1. watch'.misses = watch.misses /\ watch'.wait = watch.wait
    BY <1>1, CacheBasics DEF Cache!BeginRead, WatchType
  <2>2. Watching /\ watch' = watch
    BY <1>1, <2>1, CacheBasics DEF Cache!BeginRead, Watching, WatchType
  <2>3. CASE r = "engine"
    <3>1. rd'["web"] = rd["web"] /\ rd'["engine"].pc = "check"
      BY <1>1, <2>3, CacheBasics DEF Cache!BeginRead, ReaderType, Cache!Idle
    <3>2. ~ cache'.set
      BY <1>1, <2>2, <2>3, WatchFacts, CacheBasics DEF Cache!BeginRead, Cache!Invalidate
    <3> QED BY <2>2, <3>1, <3>2, WatchFacts DEF Staleness, SecondPass, OneMissAtMost
  <2>4. CASE r = "web"
    <3>1. rd'["engine"] = rd["engine"] /\ rd'["web"].pc = "check" /\ cache' = cache
      BY <1>1, <2>4, CacheBasics DEF Cache!BeginRead, ReaderType, Cache!Idle
    <3> QED BY <2>2, <3>1, WatchFacts DEF Staleness, SecondPass, OneMissAtMost
  <2> QED BY <2>3, <2>4, CacheBasics
<1>2. ASSUME NEW r \in Cache!Readers, Cache!Check(r) PROVE Staleness' /\ SecondPass' /\ OneMissAtMost'
  <2> SUFFICES ASSUME Watching' PROVE Staleness' /\ SecondPass' /\ OneMissAtMost'
    BY DEF Staleness, SecondPass, OneMissAtMost
  <2>1. Watching
    BY <1>2 DEF Cache!Check, Watching
  <2>2. CASE r = "engine"
    <3>1. rd'["web"] = rd["web"] /\ UNCHANGED <<cache, watch>> /\ (rd'["engine"].pc = "done" => Watched \in rd'["engine"].val) /\ rd'["engine"].pc # "answered" /\ rd["engine"].pc # "idle"
      BY <1>2, <2>1, <2>2, WatchFacts, CacheBasics DEF Cache!Check, Cache!Go, ReaderType, Cache!Valid
    <3> QED BY <2>1, <3>1, WatchFacts DEF Staleness, SecondPass, OneMissAtMost
  <2>3. CASE r = "web"
    <3>1. rd'["engine"] = rd["engine"] /\ UNCHANGED <<cache, watch>> /\ rd'["web"].pc # "answered"
      BY <1>2, <2>1, <2>3, WatchFacts, CacheBasics DEF Cache!Check, Cache!Go, ReaderType
    <3> QED BY <2>1, <3>1, WatchFacts DEF Staleness, SecondPass, OneMissAtMost
  <2> QED BY <2>2, <2>3, CacheBasics
<1>3. ASSUME NEW r \in Cache!Readers, Cache!ReadUnlocked(r) PROVE Staleness' /\ SecondPass' /\ OneMissAtMost'
  <2> SUFFICES ASSUME Watching' PROVE Staleness' /\ SecondPass' /\ OneMissAtMost'
    BY DEF Staleness, SecondPass, OneMissAtMost
  <2>1. Watching
    BY <1>3 DEF Cache!ReadUnlocked, Watching
  <2>2. rd[r].pc # "unlocked"
    BY <2>1, WatchFacts DEF CacheInv, PassFits
  <2> QED BY <1>3, <2>2 DEF Cache!ReadUnlocked
<1>4. ASSUME NEW r \in Cache!Readers, Cache!Answer(r) PROVE Staleness' /\ SecondPass' /\ OneMissAtMost'
  <2> SUFFICES ASSUME Watching' PROVE Staleness' /\ SecondPass' /\ OneMissAtMost'
    BY DEF Staleness, SecondPass, OneMissAtMost
  <2>1. Watching
    BY <1>4 DEF Cache!Answer, Watching
  <2>2. CASE r = "engine"
    <3>1. rd'["web"] = rd["web"] /\ UNCHANGED <<cache, watch>> /\ Watched \in rd'["engine"].val /\ rd["engine"].pc # "idle"
      BY <1>4, <2>1, <2>2, WatchFacts, CacheBasics DEF Cache!Answer, Cache!Go, ReaderType, Cache!Valid
    <3> QED BY <2>1, <3>1, WatchFacts DEF Staleness, SecondPass, OneMissAtMost
  <2>3. CASE r = "web"
    <3>1. rd'["engine"] = rd["engine"] /\ UNCHANGED <<cache, watch>> /\ Watched \in rd'["web"].val
      BY <1>4, <2>1, <2>3, WatchFacts, CacheBasics DEF Cache!Answer, Cache!Go, ReaderType
    <3> QED BY <2>1, <3>1, WatchFacts DEF Staleness, SecondPass, OneMissAtMost
  <2> QED BY <2>2, <2>3, CacheBasics
<1>5. ASSUME NEW r \in Cache!Readers, Cache!Store(r) PROVE Staleness' /\ SecondPass' /\ OneMissAtMost'
  <2> SUFFICES ASSUME Watching' PROVE Staleness' /\ SecondPass' /\ OneMissAtMost'
    BY DEF Staleness, SecondPass, OneMissAtMost
  <2>1. Watching
    BY <1>5 DEF Cache!Store, Watching
  <2>2. UNCHANGED watch /\ cache'.set = (rd[r].val # {}) /\ cache'.val = rd[r].val
        /\ rd' = [rd EXCEPT ![r].pc = "done"] /\ rd[r].pc = "answered"
    BY <1>5 DEF Cache!Store, Cache!Go
  <2>3. CASE r = "engine"
    <3>1. rd'["web"] = rd["web"] /\ rd'["engine"].val = rd["engine"].val
      BY <2>2, <2>3, CacheBasics DEF ReaderType
    <3>2. Watched \in rd["engine"].val
      BY <2>1, <2>2, <2>3, WatchFacts
    <3> QED BY <2>1, <2>2, <2>3, <3>1, <3>2, WatchFacts DEF Staleness, SecondPass, OneMissAtMost
  <2>4. CASE r = "web"
    <3>1. rd'["engine"] = rd["engine"] /\ rd'["web"].pc = "done"
      BY <2>2, <2>4, CacheBasics DEF ReaderType
    <3>2. rd["engine"].pc # "idle" => Watched \in rd["web"].val
      BY <2>1, <2>2, <2>4, WatchFacts, NoStale
    <3> QED BY <2>1, <2>2, <2>4, <3>1, <3>2, WatchFacts DEF Staleness, SecondPass, OneMissAtMost
  <2> QED BY <2>3, <2>4, CacheBasics
<1>6. CASE Cache!Return
  <2> SUFFICES ASSUME Watching' PROVE Staleness' /\ SecondPass' /\ OneMissAtMost'
    BY DEF Staleness, SecondPass, OneMissAtMost
  <2>1. Watching
    BY <1>6 DEF Cache!Return, Watching
  <2>2. rd'["engine"] = rd["engine"] /\ rd'["web"].pc = "idle" /\ UNCHANGED <<cache, watch>>
    BY <1>6, CacheBasics DEF Cache!Return
  <2> QED BY <2>1, <2>2, WatchFacts DEF Staleness, SecondPass, OneMissAtMost
<1>7. CASE Cache!Judge
  <2> SUFFICES ASSUME Watching' PROVE Staleness' /\ SecondPass' /\ OneMissAtMost'
    BY DEF Staleness, SecondPass, OneMissAtMost
  <2>1. rd'["engine"].pc = "idle" /\ rd'["web"] = rd["web"] /\ UNCHANGED cache
    BY <1>7, CacheBasics DEF Cache!Judge
  <2>2. watch'.held = watch.held /\ UNCHANGED exchange
    BY <1>7, JudgeFacts DEF Cache!Judge
  <2>3. watch.misses = 0
    <3> SUFFICES ASSUME watch.misses # 0 PROVE FALSE
      OBVIOUS
    <3>1. Watching
      BY <2>2, JudgeFacts, <1>7 DEF Watching
    <3>2. Watched \in rd["engine"].val /\ watch.misses < 2
      BY <3>1, <1>7, WatchFacts DEF Cache!Judge
    <3>3. watch'.misses = 0
      BY <3>2, <1>7, JudgeFacts
    <3> QED BY <3>3 DEF Watching
  <2>4. watch'.misses = 1 /\ watch'.wait = Interval
    BY <2>3, <1>7, JudgeFacts DEF Watching
  <2>5. rd["web"].age \in 0 .. Latency
    BY CacheBasics DEF ReaderType
  <2>6. rd["web"].age + Interval >= Interval
    BY <2>5, CacheBasics DEF CacheTimes
  <2> QED BY <2>1, <2>4, <2>6 DEF Staleness, SecondPass, OneMissAtMost
<1>8. CASE Cache!ClearCache
  <2> SUFFICES ASSUME Watching' PROVE Staleness' /\ SecondPass' /\ OneMissAtMost'
    BY DEF Staleness, SecondPass, OneMissAtMost
  <2>1. Watching
    BY <1>8 DEF Cache!ClearCache, Watching
  <2>2. ~ cache'.set /\ UNCHANGED <<rd, watch>>
    BY <1>8, CacheBasics DEF Cache!ClearCache
  <2> QED BY <2>1, <2>2, WatchFacts DEF Staleness, SecondPass, OneMissAtMost
<1>9. CASE Cache!Change
  <2> SUFFICES ASSUME Watching' PROVE Staleness' /\ SecondPass' /\ OneMissAtMost'
    BY DEF Staleness, SecondPass, OneMissAtMost
  <2>1. /\ \A s \in Cache!Readers : /\ rd'[s].pc = rd[s].pc /\ rd'[s].val = rd[s].val
                              /\ rd'[s].age = rd[s].age
        /\ watch'.held = watch.held \cap real' /\ UNCHANGED <<exchange, cache>>
        /\ watch'.misses = watch.misses /\ watch'.wait = watch.wait
    BY <1>9, CacheBasics DEF Cache!Change, ReaderType, WatchType
  <2>2. Watching
    BY <2>1 DEF Watching
  <2> QED BY <2>1, <2>2, WatchFacts, CacheBasics DEF Staleness, SecondPass, OneMissAtMost
<1>10. CASE Cache!Tick
  <2> SUFFICES ASSUME Watching' PROVE Staleness' /\ SecondPass' /\ OneMissAtMost'
    BY DEF Staleness, SecondPass, OneMissAtMost
  <2>1. /\ \A s \in Cache!Readers : /\ rd'[s].pc = rd[s].pc /\ rd'[s].val = rd[s].val
                              /\ rd[s].pc # "idle" => rd'[s].age = rd[s].age + 1
        /\ watch'.held = watch.held /\ UNCHANGED exchange
        /\ watch'.misses = watch.misses
        /\ watch'.wait = IF watch.wait > 0 THEN watch.wait - 1 ELSE watch.wait
        /\ cache'.set = cache.set /\ cache'.val = cache.val
    BY <1>10, CacheBasics DEF Cache!Tick, ReaderType, WatchType, CacheType
  <2>2. Watching
    BY <2>1 DEF Watching
  <2>r. "engine" \in Cache!Readers /\ "web" \in Cache!Readers
    BY DEF Cache!Readers
  <2>w. rd'["web"].pc = rd["web"].pc /\ rd'["web"].val = rd["web"].val
    BY <1>10, <2>r, CacheBasics DEF Cache!Tick, ReaderType
  <2>a. rd["web"].pc # "idle" => rd'["web"].age = rd["web"].age + 1
    BY <1>10, <2>r, CacheBasics DEF Cache!Tick, ReaderType
  <2>e. rd'["engine"].pc = rd["engine"].pc /\ rd'["engine"].val = rd["engine"].val
    BY <1>10, <2>r, CacheBasics DEF Cache!Tick, ReaderType
  <2>3. /\ rd'["web"].pc = rd["web"].pc /\ rd'["web"].val = rd["web"].val
        /\ rd["web"].pc # "idle" => rd'["web"].age = rd["web"].age + 1
        /\ rd'["engine"].pc = rd["engine"].pc /\ rd'["engine"].val = rd["engine"].val
    BY <2>w, <2>a, <2>e
  <2>4. /\ watch'.wait = IF watch.wait > 0 THEN watch.wait - 1 ELSE watch.wait
        /\ watch'.misses = watch.misses /\ cache'.set = cache.set /\ cache'.val = cache.val
    BY <2>1
  <2>5. Staleness'
    <3> SUFFICES ASSUME rd["web"].pc = "answered", Watched \notin rd["web"].val
                 PROVE  rd'["web"].age + watch'.wait >= Interval
      BY <2>3 DEF Staleness
    <3>1. rd["web"].age + watch.wait >= Interval /\ rd'["web"].age = rd["web"].age + 1
      BY <2>2, <2>3, WatchFacts
    <3>2. rd["web"].age \in Nat /\ watch.wait \in Nat /\ Interval \in Nat
      BY CacheBasics DEF ReaderType, WatchType, CacheTimes
    <3> QED BY <2>4, <3>1, <3>2
  <2>6. SecondPass' /\ OneMissAtMost'
    BY <2>2, <2>4, <2>3, WatchFacts, CacheBasics DEF WatchType, SecondPass, OneMissAtMost
  <2> QED BY <2>5, <2>6
<1>11. CASE UNCHANGED Cache!vars
  <2> QED BY <1>11 DEF CacheInv, Staleness, SecondPass, OneMissAtMost, Watching, Cache!vars
<1> QED BY <1>1, <1>2, <1>3, <1>4, <1>5, <1>6, <1>7, <1>8, <1>9, <1>10, <1>11 DEF Cache!Next, Cache!Read

-----------------------------------------------------------------------------
LEMMA CacheInitInv == Cache!PositionCacheAssumption /\ Cache!Init => CacheInv
<1> SUFFICES ASSUME Cache!PositionCacheAssumption, Cache!Init PROVE CacheInv
  OBVIOUS
<1>1. TTL \in Nat /\ Interval \in Nat /\ Latency \in Nat /\ CacheChanges \in Nat
  BY DEF Cache!PositionCacheAssumption
<1>2. Cache!TypeOK
  BY <1>1 DEF Cache!Init, Cache!TypeOK, Cache!Nil, Cache!Idle, Cache!Gone
<1>3. HeldIsOpen /\ PassFits /\ watch.misses = 0
  BY DEF Cache!Init, HeldIsOpen, PassFits, Cache!Idle, Cache!Readers
<1> QED BY <1>2, <1>3 DEF CacheInv, Staleness, SecondPass, OneMissAtMost, Watching

LEMMA CacheInductive == CacheInv /\ [Cache!Next]_(Cache!vars) => CacheInv'
<1> SUFFICES ASSUME CacheInv, [Cache!Next]_(Cache!vars) PROVE CacheInv'
  OBVIOUS
<1>1. Cache!TypeOK'
  BY CacheTypeStep DEF CacheTyped, Cache!TypeOK, CacheType, ReaderType, WatchType
<1> QED BY <1>1, CachePassStep, CacheWatchStep DEF CacheInv, Cache!PositionCacheAssumption
-----------------------------------------------------------------------------
(* The parts together                                                      *)

PartsInv ==
    /\ part = "cache"  => CacheInv
    /\ part = "guard"  => Guard!IInv
    /\ part = "legacy" => Legacy!IInv
    /\ part = "source" => Source!SourceInv

LEMMA PartsInit == ComponentsInit => Inv /\ PartsInv
<1> SUFFICES ASSUME ComponentsInit PROVE Inv /\ PartsInv
  OBVIOUS
<1>1. Inv
  BY ClaimInit DEF ComponentsInit
<1>2. part = "cache" => CacheInv
  BY PartsAssumption, CacheInitInv DEF ComponentsInit, PartsAssumption
<1>3. part = "guard" => Guard!IInv
  BY PartsAssumption, Guard!InitInv DEF ComponentsInit, PartsAssumption
<1>4. part = "legacy" => Legacy!IInv
  BY PartsAssumption, Legacy!InitInv DEF ComponentsInit, PartsAssumption
<1>5. part = "source" => Source!SourceInv
  BY PartsAssumption, Source!SourceInit DEF ComponentsInit, PartsAssumption
<1> QED BY <1>1, <1>2, <1>3, <1>4, <1>5 DEF PartsInv

(* A step is a step of its own part, and the others stand still.           *)
LEMMA PartSteps ==
    ASSUME [ComponentsNext]_all
    PROVE  /\ part' = part /\ [Next]_vars
           /\ part = "cache" => [Cache!Next]_(Cache!vars)
           /\ part = "guard" => [Guard!Next]_(Guard!vars)
           /\ part = "legacy" => [Legacy!Next]_(Legacy!vars)
           /\ part = "source" => [Source!Next]_(Source!vars)
<1>1. CASE UNCHANGED all
  BY <1>1 DEF all, reads, xs, from9, from11, Cache!vars, Guard!vars, Legacy!vars, Source!vars
<1>2. CASE ComponentsNext
  BY <1>2 DEF ComponentsNext, OfCache, OfGuard, OfLegacy, OfSource
<1> QED BY <1>1, <1>2

LEMMA PartsInductive ==
    Inv /\ PartsInv /\ [ComponentsNext]_all =>
        Inv' /\ PartsInv' /\ (part = "source" => Source!NotHandedBack)
<1> SUFFICES ASSUME Inv, PartsInv, [ComponentsNext]_all
             PROVE  Inv' /\ PartsInv' /\ (part = "source" => Source!NotHandedBack)
  OBVIOUS
<1>1. Inv' /\ part' = part
  BY ClaimInductive, PartSteps
<1>2. CASE part = "cache"
  BY <1>1, <1>2, CacheInductive, PartSteps DEF PartsInv
<1>3. CASE part = "guard"
  BY <1>1, <1>3, Guard!Inductive, PartSteps DEF PartsInv
<1>4. CASE part = "legacy"
  BY <1>1, <1>4, Legacy!Inductive, PartSteps DEF PartsInv
<1>5. CASE part = "source"
  BY <1>1, <1>5, Source!SourceInductive, PartSteps DEF PartsInv
<1> QED BY <1>1, <1>2, <1>3, <1>4, <1>5 DEF PartsInv

(* Every part keeps its invariant.                                         *)
THEOREM Invariance == ComponentsSpec => [](Inv /\ PartsInv)
<1>1. Inv /\ PartsInv /\ [ComponentsNext]_all => Inv' /\ PartsInv'
  BY PartsInductive
<1> QED BY PartsInit, <1>1, PTL DEF ComponentsSpec

(* Every part is type correct, for any number of traders, processes,       *)
(* messages and orders.                                                    *)
THEOREM PartsTyped == ComponentsSpec => []PartsTypeOK
<1>1. Inv /\ PartsInv => PartsTypeOK
  <2> SUFFICES ASSUME Inv, PartsInv PROVE PartsTypeOK
    OBVIOUS
  <2>1. TypeOK
    BY DEF Inv
  <2>2. part = "cache" => Cache!TypeOK
    BY DEF PartsInv, CacheInv
  <2>3. part = "guard" => Guard!TypeOK
    BY DEF PartsInv, Guard!IInv
  <2>4. part = "legacy" => Legacy!TypeOK
    BY Legacy!IsTyped DEF PartsInv
  <2>5. part = "source" => Source!TypeOK
    BY Source!SourceSafe DEF PartsInv
  <2> QED BY <2>1, <2>2, <2>3, <2>4, <2>5 DEF PartsTypeOK
<1> QED BY <1>1, Invariance, PTL

(* While the backend's row of the channel says "ready", which is what      *)
(* CheckExecution asks before new risk, no message is missing before one   *)
(* that is stored: whatever sessions are cut, resumed or replaced, answers *)
(* lost, outboxes full, pages of history too short and processes           *)
(* restarted.                                                              *)
THEOREM Gapless == ComponentsSpec => []ReadyIsGapless
<1>1. PartsInv => ReadyIsGapless
  BY Source!SourceSafe DEF PartsInv, ReadyIsGapless
<1> QED BY <1>1, Invariance, PTL

(* Once the trader has handled a revision of a message no step hands an    *)
(* earlier one over (NextDelivery takes deliveries by source time and, of  *)
(* the same source time, by id), also when an older text was stored again. *)
THEOREM Revisions == ComponentsSpec => RevisionsInOrder
<1> DEFINE Keeps == part = "source" => Source!NotHandedBack
<1>1. Inv /\ PartsInv /\ [ComponentsNext]_all => [Keeps]_all
  BY PartsInductive
<1> HIDE DEF Keeps
<1>2. ComponentsSpec => [][ComponentsNext]_all
  BY PTL DEF ComponentsSpec
<1>3. [](Inv /\ PartsInv) /\ [][ComponentsNext]_all => [][Keeps]_all
  BY <1>1, PTL
<1>4. ComponentsSpec => [](Inv /\ PartsInv)
  BY Invariance
<1>5. ComponentsSpec => [][Keeps]_all
  BY <1>2, <1>3, <1>4, PTL
<1> QED BY <1>5 DEF RevisionsInOrder, Keeps

(* The verdict of two passes (reconcileOpenTrade) means that the position  *)
(* was gone at some moment since the first, whatever other readers and     *)
(* invalidations do to the cache, for any times with Latency < Interval.   *)
THEOREM VerdictIsTrue == ComponentsSpec => []TwoMissesMeanGone
<1>1. ASSUME PartsInv PROVE TwoMissesMeanGone
  <2> SUFFICES ASSUME part = "cache" PROVE Cache!TwoMissesMeanGone
    BY DEF TwoMissesMeanGone
  <2>1. Cache!verdict => watch.misses = 3
    BY DEF Cache!verdict, Cache!Gone
  <2> QED BY <1>1, <2>1 DEF PartsInv, CacheInv, Cache!TwoMissesMeanGone, OneMissAtMost, Watching
<1> QED BY <1>1, Invariance, PTL

(* At no time may two stops of the trade reach the book, whatever requests *)
(* are lost, late or refused and however often the engine restarts         *)
(* (setStopProtection with its durable intent).                            *)
THEOREM OneStop == ComponentsSpec => []OneStopOut
<1>1. PartsInv => OneStopOut
  BY Guard!IsSafe DEF PartsInv, OneStopOut
<1> QED BY <1>1, Invariance, PTL

(* A trade that is CLOSED leaves no stop of its own behind                 *)
(* (finishTradeOrders waits for the requests it cannot account for).       *)
THEOREM Clean == ComponentsSpec => []ClosedIsClean
<1>1. PartsInv => ClosedIsClean
  BY Guard!IsSafe DEF PartsInv, ClosedIsClean
<1> QED BY <1>1, Invariance, PTL

(* The recorded stop was on the book, at the price that the trade records  *)
(* (the confirmation, retainSetProtection and adoptExistingStop).          *)
THEOREM Record == ComponentsSpec => []RecordIsReal
<1>1. PartsInv => RecordIsReal
  BY Guard!IsSafe DEF PartsInv, RecordIsReal
<1> QED BY <1>1, Invariance, PTL

(* The exit of a signal is sent at most once on a venue without client     *)
(* IDs: the row leaves INTENT before the order goes out, and no recovery   *)
(* sends behind any other row.                                             *)
THEOREM SentOnce == ComponentsSpec => []ExitSentOnce
<1>1. PartsInv => ExitSentOnce
  BY Legacy!IsSafe DEF PartsInv, ExitSentOnce
<1> QED BY <1>1, Invariance, PTL

(* A legacy trade that ended left no entry order behind, and no position   *)
(* that is not being closed.                                               *)
THEOREM Ended == ComponentsSpec => []EndedIsOver
<1>1. PartsInv => EndedIsOver
  BY Legacy!IsSafe DEF PartsInv, EndedIsOver
<1> QED BY <1>1, Invariance, PTL

(* The guard takes a working stop off the book only for one at least as    *)
(* tight (CancelStopOrder in setStopProtection), and on a venue without    *)
(* identities nothing takes the last stop from under a position.           *)
THEOREM Kept == ComponentsSpec => StopKept
<1>1. PartsInv /\ [ComponentsNext]_all => [KeepsStop]_all
  <2> SUFFICES ASSUME PartsInv, [ComponentsNext]_all PROVE KeepsStop
    OBVIOUS
  <2>1. part = "guard" => Guard!TighterOnly
    BY PartSteps, Guard!TighterStep DEF PartsInv
  <2>2. part = "legacy" => Legacy!KeepsLastStop
    BY PartSteps, Legacy!StopStep DEF PartsInv
  <2> QED BY <2>1, <2>2 DEF KeepsStop
<1>2. ComponentsSpec => [][ComponentsNext]_all
  BY PTL DEF ComponentsSpec
<1>3. [](Inv /\ PartsInv) /\ [][ComponentsNext]_all => [][KeepsStop]_all
  BY <1>1, PTL
<1>4. ComponentsSpec => [](Inv /\ PartsInv)
  BY Invariance
<1> QED BY <1>2, <1>3, <1>4, PTL DEF StopKept

=============================================================================
