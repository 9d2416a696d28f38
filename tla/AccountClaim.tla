------------------------------ MODULE AccountClaim ------------------------------
(***************************************************************************)
(* Who may trade one side of one symbol on an exchange account: admission  *)
(* of an OPEN by the engines of several traders (ExecuteOpen), the durable *)
(* claim of the account side (claimCopyTradeOwnership), and the operations *)
(* that move the ground under it: binding a trader to another account,     *)
(* replacing credentials, deleting a trader, reloading an engine, the      *)
(* manual review of a trade, the resurrection of a closed one, and the     *)
(* crash of a process.  One symbol and direction; what happens to the      *)
(* orders of a trade in between is the subject of other modules.           *)
(***************************************************************************)
EXTENDS Naturals, FiniteSets

CONSTANTS Traders, Accounts,
          Managed,      \* accounts of venues with managed orders
          Processes, Home,   \* the process that runs a trader's engine
          Ids,          \* attempts to open a trade
          None,
          MaxChanges,   \* changes of bindings and credentials
          MaxCrashes

ASSUME AccountClaimAssumption ==
    /\ Managed \subseteq Accounts /\ Home \in [Traders -> Processes]
    /\ None \notin Accounts \cup Ids \cup Traders
    /\ MaxChanges \in Nat /\ MaxCrashes \in Nat

VARIABLES
    binding,   \* traders.exchange_id; None once deleted
    key,       \* the revision of an account's credentials
    adapter,   \* the account and credentials a trader's engine was built with
    state,     \* context: none, active, ended, or reviewed (ended by review)
    by, acct,  \* its trader and account
    ckey,      \* the credentials at its creation (history)
    act,       \* its OPEN action
    linked,    \* the action names the context
    ord,       \* its order rows, as one status
    sent,      \* account and credentials its orders were sent with
    venue,     \* what the venue holds of it
    own,       \* copytrade_ownership, by account
    run,       \* what the engine of a trader is doing
    mutex,     \* admissionLock of a process, by account
    changes, crashes

setup == <<binding, key, adapter>>
trade == <<state, by, acct, ckey, act, linked, ord, sent, venue>>
vars == <<setup, trade, own, run, mutex, changes, crashes>>

-----------------------------------------------------------------------------
States == {"none", "active", "ended", "reviewed"}
Actions == {"none", "executing", "uncertain", "done"}
Rows == {"none", "planned", "unknown", "new", "over"}
Pending == {"planned", "unknown", "new"}
Unresolved == {"executing", "uncertain"}
Steps == {"idle", "claimed", "locked", "unowned", "flat", "clear", "created", "recheck"}
Access == [account : Accounts, key : 0 .. MaxChanges]

Idle == [pc |-> "idle", id |-> None, account |-> None]

Init ==
    /\ binding \in [Traders -> Accounts]
    /\ key = [a \in Accounts |-> 0]
    /\ adapter = [t \in Traders |-> [account |-> binding[t], key |-> 0]]
    /\ state = [i \in Ids |-> "none"] /\ by = [i \in Ids |-> None]
    /\ acct = [i \in Ids |-> None] /\ ckey = [i \in Ids |-> 0]
    /\ act = [i \in Ids |-> "none"] /\ linked = [i \in Ids |-> FALSE]
    /\ ord = [i \in Ids |-> "none"] /\ sent = [i \in Ids |-> None]
    /\ venue = [i \in Ids |-> "no"]
    /\ own = [a \in Accounts |-> None]
    /\ run = [t \in Traders |-> Idle]
    /\ mutex = [p \in Processes |-> [a \in Accounts |-> None]]
    /\ changes = 0 /\ crashes = 0

-----------------------------------------------------------------------------
(* Reads of the store *)
Active(a) == {i \in Ids : acct[i] = a /\ state[i] = "active"}

(* Mutant: contexts alone make an account busy. *)
Busy_ContextsOnly(a) == Active(a) # {}

Busy(a) ==
    \/ Active(a) # {}
    \/ \E i \in Ids : acct[i] = a /\ ord[i] \in Pending
    \/ \E i \in Ids : by[i] # None /\ binding[by[i]] = a /\ act[i] \in Unresolved

(* Mutant: a trade that ended releases the account whatever its orders. *)
Releasable_Ended(i) == state[i] \in {"ended", "reviewed"}

Releasable(i) ==
    /\ state[i] \in {"ended", "reviewed"}
    /\ ~(linked[i] /\ act[i] \in Unresolved)
    /\ ord[i] \notin Pending

\* Reads of the venue, with the engine's own access.
At(t, i) == sent[i] # None /\ sent[i].account = adapter[t].account
Flat(t) == \A i \in Ids : At(t, i) => venue[i] # "filled"
NoOrders(t) == \A i \in Ids : At(t, i) => venue[i] # "working"

Step(t, pc) == run' = [run EXCEPT ![t].pc = pc]

Unlock(t) ==
    IF run[t].account = None THEN mutex
    ELSE [mutex EXCEPT ![Home[t]][run[t].account] = None]

-----------------------------------------------------------------------------
(* Admission *)

\* The engine claims the action of an OPEN signal; it is not linked to a trade.  Its
\* identity is new, and which of the unused ones it is makes no difference.
ClaimAction(t, i) ==
    /\ run[t] = Idle /\ binding[t] # None
    /\ by[i] = None /\ i = CHOOSE j \in Ids : by[j] = None
    /\ run' = [run EXCEPT ![t] = [pc |-> "claimed", id |-> i, account |-> None]]
    /\ by' = [by EXCEPT ![i] = t] /\ act' = [act EXCEPT ![i] = "executing"]
    /\ UNCHANGED <<setup, state, acct, ckey, linked, ord, sent, venue, own, mutex, changes, crashes>>

Lock(t) ==
    /\ run[t].pc = "claimed" /\ binding[t] # None
    /\ mutex[Home[t]][binding[t]] = None
    /\ mutex' = [mutex EXCEPT ![Home[t]][binding[t]] = t]
    /\ run' = [run EXCEPT ![t].pc = "locked", ![t].account = binding[t]]
    /\ UNCHANGED <<setup, trade, own, changes, crashes>>

CheckOwners(t) ==
    /\ run[t].pc = "locked" /\ Active(run[t].account) = {}
    /\ Step(t, "unowned")
    /\ UNCHANGED <<setup, trade, own, mutex, changes, crashes>>

CheckPosition(t) ==
    /\ run[t].pc = "unowned" /\ Flat(t)
    /\ Step(t, "flat")
    /\ UNCHANGED <<setup, trade, own, mutex, changes, crashes>>

CheckOrders(t) ==
    /\ run[t].pc = "flat" /\ NoOrders(t)
    /\ Step(t, "clear")
    /\ UNCHANGED <<setup, trade, own, mutex, changes, crashes>>

\* The transaction that claims the account side and creates the trade.
Claimable(t) ==
    LET a == run[t].account IN
    /\ binding[t] = a
    /\ Active(a) = {}
    /\ own[a] # None => Releasable(own[a])

Create(t) ==
    LET i == run[t].id  a == run[t].account IN
    /\ run[t].pc = "clear" /\ Claimable(t)
    /\ own' = [own EXCEPT ![a] = i]
    /\ state' = [state EXCEPT ![i] = "active"] /\ acct' = [acct EXCEPT ![i] = a]
    /\ ckey' = [ckey EXCEPT ![i] = key[a]]
    /\ linked' = [linked EXCEPT ![i] = TRUE]
    /\ ord' = [ord EXCEPT ![i] = IF a \in Managed THEN "planned" ELSE @]
    /\ Step(t, "created")
    /\ UNCHANGED <<setup, by, act, sent, venue, mutex, changes, crashes>>

\* Any check, read or the transaction fails: nothing was sent.
Refuse(t) ==
    /\ run[t].pc \in {"claimed", "locked", "unowned", "flat", "clear"}
    /\ act' = [act EXCEPT ![run[t].id] = "done"]
    /\ run' = [run EXCEPT ![t] = Idle] /\ mutex' = Unlock(t)
    /\ UNCHANGED <<setup, state, by, acct, ckey, linked, ord, sent, venue, own, changes, crashes>>

\* The entry order goes out with the adapter's access, and is acknowledged, refused or lost.
Send(t, i) ==
    /\ sent' = [sent EXCEPT ![i] = adapter[t]]
    /\ \E r \in {"acknowledged", "refused", "lost"}, v \in {"no", "working"} :
          /\ (r = "acknowledged") => v = "working"
          /\ (r = "refused") => v = "no"
          /\ venue' = [venue EXCEPT ![i] = v]
          /\ act' = [act EXCEPT ![i] = IF r = "lost" THEN "uncertain" ELSE "done"]
          /\ ord' = [ord EXCEPT ![i] =
                       CASE acct[i] \notin Managed -> @
                         [] r = "acknowledged" -> "new"
                         [] r = "refused" -> "over"
                         [] r = "lost" -> "unknown"]

Submit(t) ==
    /\ run[t].pc = "created"
    /\ Send(t, run[t].id)
    /\ run' = [run EXCEPT ![t] = Idle] /\ mutex' = Unlock(t)
    /\ UNCHANGED <<setup, state, by, acct, ckey, linked, own, changes, crashes>>

-----------------------------------------------------------------------------
(* The life of a trade, as the engine of its trader drives it between signals. *)
Drives(i) == by[i] # None /\ binding[by[i]] # None /\ run[by[i]] = Idle

\* reconcileManagedEntry sends a planned order left by a crash.
Resume(i) ==
    /\ Drives(i) /\ state[i] = "active" /\ ord[i] = "planned" /\ binding[by[i]] = acct[i]
    /\ Send(by[i], i)
    /\ UNCHANGED <<setup, state, by, acct, ckey, linked, own, run, mutex, changes, crashes>>

\* An order row is settled from the venue: a planned one is cancelled unsent.
Settle(i) ==
    /\ Drives(i) /\ ord[i] \in Pending /\ (state[i] = "active" => ord[i] # "planned")
    /\ ord' = [ord EXCEPT ![i] = IF venue[i] = "working" /\ ord[i] # "new" THEN "new" ELSE "over"]
    /\ (ord[i] = "new") => venue[i] # "working"
    /\ UNCHANGED <<setup, state, by, acct, ckey, act, linked, sent, venue, own, run, mutex, changes, crashes>>

\* An unresolved action is settled: an orphan never sent anything.
ResolveAction(i) ==
    /\ Drives(i) /\ act[i] \in Unresolved
    /\ linked[i] => ord[i] \notin {"planned", "unknown"}
    /\ act' = [act EXCEPT ![i] = "done"]
    /\ UNCHANGED <<setup, state, by, acct, ckey, linked, ord, sent, venue, own, run, mutex, changes, crashes>>

\* The trade becomes terminal after a flat read; its orders may still be unsettled.
End(i) ==
    /\ Drives(i) /\ state[i] = "active" /\ venue[i] # "filled" /\ Flat(by[i])
    /\ state' = [state EXCEPT ![i] = "ended"]
    /\ UNCHANGED <<setup, by, acct, ckey, act, linked, ord, sent, venue, own, run, mutex, changes, crashes>>

\* recheckClosedTrades, on a venue without managed orders: the position of a
\* closed trade is seen again, and no other trade owns the account side ...
Recheck(i) ==
    /\ Drives(i) /\ state[i] = "ended" /\ acct[i] \notin Managed
    /\ venue[i] = "filled" /\ Active(acct[i]) = {}
    /\ run' = [run EXCEPT ![by[i]] = [pc |-> "recheck", id |-> i, account |-> None]]
    /\ UNCHANGED <<setup, trade, own, mutex, changes, crashes>>

\* ... so the trade is made active again, by a plain update.
Resurrect(t) ==
    /\ run[t].pc = "recheck"
    /\ state' = [state EXCEPT ![run[t].id] = "active"]
    /\ run' = [run EXCEPT ![t] = Idle]
    /\ UNCHANGED <<setup, by, acct, ckey, act, linked, ord, sent, venue, own, mutex, changes, crashes>>

BoundTo(a) == {i \in Ids : by[i] # None /\ binding[by[i]] = a}

\* RecoveryReview, confirmed: one transaction that holds the account's fence.
Review(i) ==
    LET a == acct[i] IN
    /\ Drives(i) /\ state[i] = "active" /\ binding[by[i]] = a
    /\ \A j \in BoundTo(a) : act[j] \notin Unresolved /\ ord[j] \notin {"planned", "unknown"}
    /\ Flat(by[i]) /\ NoOrders(by[i])
    /\ state' = [state EXCEPT ![i] = "reviewed"]
    /\ own' = (IF own[a] = i THEN [own EXCEPT ![a] = None] ELSE own)
    /\ UNCHANGED <<setup, by, acct, ckey, act, linked, ord, sent, venue, run, mutex, changes, crashes>>

\* The venue fills or ends a working order, and a position is closed.
VenueMoves(i) ==
    /\ \/ venue[i] = "working" /\ venue' = [venue EXCEPT ![i] = "filled"]
       \/ venue[i] # "no" /\ venue' = [venue EXCEPT ![i] = "no"]
    /\ UNCHANGED <<setup, state, by, acct, ckey, act, linked, ord, sent, own, run, mutex, changes, crashes>>

-----------------------------------------------------------------------------
(* What moves the ground *)

\* TraderStore.Update with another account.
Rebind(t, a) ==
    /\ changes < MaxChanges /\ changes' = changes + 1
    /\ binding[t] \notin {None, a} /\ ~Busy(binding[t])
    /\ binding' = [binding EXCEPT ![t] = a]
    /\ UNCHANGED <<key, adapter, trade, own, run, mutex, crashes>>

\* ExchangeStore.Update with other keys.
ReplaceKey(a) ==
    /\ changes < MaxChanges /\ changes' = changes + 1
    /\ ~Busy(a)
    /\ key' = [key EXCEPT ![a] = @ + 1]
    /\ UNCHANGED <<binding, adapter, trade, own, run, mutex, crashes>>

\* TraderStore.Delete: order rows are not looked at.
DeleteTrader(t) ==
    /\ changes < MaxChanges /\ changes' = changes + 1
    /\ binding[t] # None
    /\ \A i \in Ids : by[i] = t => state[i] # "active" /\ act[i] \notin Unresolved
    /\ binding' = [binding EXCEPT ![t] = None]
    /\ UNCHANGED <<key, adapter, trade, own, run, mutex, crashes>>

\* RemoveTrader waits for the engine, which is then built anew from the store.
Reload(t) ==
    /\ run[t] = Idle /\ binding[t] # None
    /\ adapter' = [adapter EXCEPT ![t] = [account |-> binding[t], key |-> key[binding[t]]]]
    /\ adapter' # adapter
    /\ UNCHANGED <<binding, key, trade, own, run, mutex, changes, crashes>>

Crash(p) ==
    /\ crashes < MaxCrashes /\ crashes' = crashes + 1
    /\ \E t \in Traders : Home[t] = p /\ run[t] # Idle
    /\ run' = [t \in Traders |-> IF Home[t] = p THEN Idle ELSE run[t]]
    /\ mutex' = [mutex EXCEPT ![p] = [a \in Accounts |-> None]]
    /\ adapter' = [t \in Traders |->
                     IF Home[t] = p /\ binding[t] # None
                     THEN [account |-> binding[t], key |-> key[binding[t]]] ELSE adapter[t]]
    /\ UNCHANGED <<binding, key, trade, own, changes>>

Admission == \E t \in Traders :
    \/ \E i \in Ids : ClaimAction(t, i)
    \/ Lock(t) \/ CheckOwners(t) \/ CheckPosition(t) \/ CheckOrders(t)
    \/ Create(t) \/ Refuse(t) \/ Submit(t) \/ Resurrect(t)
Life == \E i \in Ids :
    Resume(i) \/ Settle(i) \/ ResolveAction(i) \/ End(i) \/ Recheck(i) \/ Review(i) \/ VenueMoves(i)
Ground ==
    \/ \E t \in Traders, a \in Accounts : Rebind(t, a)
    \/ \E a \in Accounts : ReplaceKey(a)
    \/ \E t \in Traders : DeleteTrader(t) \/ Reload(t)
    \/ \E p \in Processes : Crash(p)

Next == Admission \/ Life \/ Ground
Spec == Init /\ [][Next]_vars

-----------------------------------------------------------------------------
\* A lock is held by an admission under way in its process.
LocksHeld ==
    \A p \in Processes, a \in Accounts :
        mutex[p][a] # None => Home[mutex[p][a]] = p /\ run[mutex[p][a]].account = a

TypeOK ==
    /\ binding \in [Traders -> Accounts \cup {None}]
    /\ key \in [Accounts -> 0 .. MaxChanges]
    /\ adapter \in [Traders -> Access]
    /\ state \in [Ids -> States] /\ by \in [Ids -> Traders \cup {None}]
    /\ acct \in [Ids -> Accounts \cup {None}] /\ ckey \in [Ids -> 0 .. MaxChanges]
    /\ act \in [Ids -> Actions] /\ linked \in [Ids -> BOOLEAN] /\ ord \in [Ids -> Rows]
    /\ sent \in [Ids -> Access \cup {None}]
    /\ venue \in [Ids -> {"no", "working", "filled"}]
    /\ own \in [Accounts -> Ids \cup {None}]
    /\ run \in [Traders -> [pc : Steps, id : Ids \cup {None}, account : Accounts \cup {None}]]
    /\ mutex \in [Processes -> [Accounts -> Traders \cup {None}]]
    /\ changes \in 0 .. MaxChanges /\ crashes \in 0 .. MaxCrashes
    /\ LocksHeld

\* The trade may still act on its account: it is active, or an order row or its
\* action is unresolved.  A review looks at the venue instead of rows shown as NEW.
Unsettled(i) ==
    \/ state[i] = "active"
    \/ state[i] \in {"ended", "reviewed"} /\ linked[i] /\ act[i] \in Unresolved
    \/ ord[i] \in {"planned", "unknown"} \/ (ord[i] = "new" /\ state[i] # "reviewed")

\* "The primary key enforces exclusivity across processes": two trades of
\* one account side are never both active, nor one active while side effects of
\* another are unresolved, whatever engines, processes and crashes do.
SideExclusive ==
    \A i, j \in Ids :
        (i # j /\ acct[i] = acct[j] /\ acct[i] \in Managed) => ~(Unsettled(i) /\ Unsettled(j))

\* While a trade may still act, its trader stays bound to its account and the
\* credentials it was opened with stay in place; only an ended trade can lose
\* its trader.
GroundHolds ==
    \A i \in Ids : (Unsettled(i) /\ acct[i] \in Managed) =>
        /\ \/ binding[by[i]] = acct[i]
           \/ binding[by[i]] = None /\ state[i] # "active"
        /\ key[acct[i]] = ckey[i]

\* "Account fences serialize credential/binding changes against admission": the
\* orders of a trade go to the account, and with the credentials, it claimed.
TradesWhatItOwns ==
    \A i \in Ids : sent[i] # None => sent[i] = [account |-> acct[i], key |-> ckey[i]]
=============================================================================
