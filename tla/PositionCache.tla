----------------------------- MODULE PositionCache -----------------------------
(***************************************************************************)
(* The position cache of an exchange adapter (GetPositions and             *)
(* InvalidatePositionCache of trader/<venue>) as its readers share it: the *)
(* reconciler of the copy-trading engine, which invalidates the cache and  *)
(* reads (freshPosition), the requests of the web interface, which only    *)
(* read, and the goroutine that places orders, which invalidates.  The     *)
(* lock is not held while the venue is asked, so answers and invalidations *)
(* cross.  An empty answer is a nil slice and is never served from the     *)
(* cache, whence the second symbol.                                        *)
(***************************************************************************)
EXTENDS Naturals, FiniteSets

CONSTANTS Symbols,     \* symbols with at most one position each
          Watched,     \* the symbol of the trade under reconciliation
          TTL,         \* cacheDuration, in ticks
          Interval,    \* between two passes of the reconciler, in ticks
          Latency,     \* the longest answer of the venue, in ticks
          MaxChanges   \* positions opened and closed

PositionCacheAssumption ==
    /\ Watched \in Symbols /\ IsFiniteSet(Symbols)
    /\ {TTL, Interval, Latency, MaxChanges} \subseteq Nat /\ Latency < Interval

Readers == {"engine", "web"}
Gone == 3                        \* misses that make the verdict

VARIABLES venue,       \* the adapter in use
          real,        \* symbols with an open position at the venue
          cache,       \* [set |-> nil or not, val, age]
          rd,          \* what each reader is doing
          watch,       \* the reconciler's evidence about Watched
          changes
vars == <<venue, real, cache, rd, watch, changes>>

-----------------------------------------------------------------------------
(* The adapters: does a hit copy the slice before the lock is released, and *)
(* can the cache be invalidated?                                            *)
bybit   == [copies |-> TRUE,  invalidates |-> TRUE]
gate    == [copies |-> TRUE,  invalidates |-> TRUE]
bitget  == [copies |-> FALSE, invalidates |-> TRUE]
okx     == [copies |-> FALSE, invalidates |-> TRUE]
kucoin  == [copies |-> FALSE, invalidates |-> TRUE]
binance == [copies |-> FALSE, invalidates |-> TRUE]
indodax == [copies |-> TRUE,  invalidates |-> FALSE]
Adapters == {bybit, gate, bitget, okx, kucoin, binance, indodax}

verdict == watch.misses = Gone

Nil == [set |-> FALSE, val |-> {}, age |-> 0]
Idle == [pc |-> "idle", val |-> {}, age |-> 0, held |-> {}]

Init ==
    /\ venue \in Adapters
    /\ real \in SUBSET Symbols
    /\ cache = Nil
    /\ rd = [r \in Readers |-> Idle]
    /\ watch = [misses |-> 0, held |-> {}, wait |-> 0]
    /\ changes = 0

-----------------------------------------------------------------------------
Go(r, pc) == rd' = [rd EXCEPT ![r].pc = pc]

(* Mutant: only the time stamp is dropped. *)
Invalidate_Stamp(c) == IF venue.invalidates THEN [c EXCEPT !.set = FALSE] ELSE c

(* Mutant: the reconciler reads through the cache. *)
Invalidate_Not(c) == c

Invalidate(c) == IF venue.invalidates THEN Nil ELSE c

\* A read begins; the reconciler invalidates first, where it can.  held keeps
\* the positions that stayed open ever since.
BeginRead(r) ==
    /\ rd[r].pc = "idle" /\ ~verdict
    /\ r = "engine" => watch.wait = 0
    /\ cache' = (IF r = "engine" THEN Invalidate(cache) ELSE cache)
    /\ rd' = [rd EXCEPT ![r] = [Idle EXCEPT !.pc = "check", !.held = real]]
    /\ watch' = (IF r = "engine" /\ watch.misses = 0 THEN [watch EXCEPT !.held = real] ELSE watch)
    /\ UNCHANGED <<venue, real, changes>>

Valid == cache.set /\ cache.age < TTL

\* Under the read lock: a hit is copied, or only noticed; a miss asks the venue.
Check(r) ==
    /\ rd[r].pc = "check"
    /\ IF Valid
       THEN IF venue.copies THEN rd' = [rd EXCEPT ![r].pc = "done", ![r].val = cache.val]
                            ELSE Go(r, "unlocked")
       ELSE Go(r, "ask")
    /\ UNCHANGED <<venue, real, cache, watch, changes>>

\* The slice is read again after the lock was released.
ReadUnlocked(r) ==
    /\ rd[r].pc = "unlocked"
    /\ rd' = [rd EXCEPT ![r].pc = "done", ![r].val = cache.val]
    /\ UNCHANGED <<venue, real, cache, watch, changes>>

\* The venue answers with its state of that moment.
Answer(r) ==
    /\ rd[r].pc = "ask"
    /\ rd' = [rd EXCEPT ![r].pc = "answered", ![r].val = real]
    /\ UNCHANGED <<venue, real, cache, watch, changes>>

\* The answer replaces whatever the cache holds by now.
Store(r) ==
    /\ rd[r].pc = "answered"
    /\ cache' = [set |-> rd[r].val # {}, val |-> rd[r].val, age |-> 0]
    /\ Go(r, "done")
    /\ UNCHANGED <<venue, real, watch, changes>>

Return ==
    /\ rd["web"].pc = "done"
    /\ rd' = [rd EXCEPT !["web"] = Idle]
    /\ UNCHANGED <<venue, real, cache, watch, changes>>

\* reconcileOpenTrade: a first miss is remembered for the next pass; a second
\* one in a row is confirmed by one more read before the position is gone.
Judge ==
    /\ rd["engine"].pc = "done"
    /\ rd' = [rd EXCEPT !["engine"] = Idle]
    /\ watch' = CASE Watched \notin rd["engine"].val ->
                       [watch EXCEPT !.misses = @ + 1, !.wait = IF watch.misses = 0 THEN Interval ELSE 0]
                  [] Watched \in rd["engine"].val /\ watch.misses < 2 ->
                       [watch EXCEPT !.misses = 0, !.wait = Interval]
                  [] OTHER -> [watch EXCEPT !.misses = 1, !.wait = Interval]
    /\ UNCHANGED <<venue, real, cache, changes>>

\* The goroutine that places orders clears the cache once the venue accepted.
ClearCache ==
    /\ cache.set /\ ~verdict /\ changes < MaxChanges /\ changes' = changes + 1
    /\ cache' = Nil
    /\ UNCHANGED <<venue, real, rd, watch>>

Change ==
    /\ changes < MaxChanges /\ changes' = changes + 1
    /\ \E s \in Symbols :
          /\ real' = IF s \in real THEN real \ {s} ELSE real \cup {s}
          /\ rd' = [r \in Readers |-> [rd[r] EXCEPT !.held = @ \cap real']]
          /\ watch' = [watch EXCEPT !.held = @ \cap real']
    /\ UNCHANGED <<venue, cache>>

\* Reading takes less than a pass interval; a read ages while it is under way.
Tick ==
    /\ \A r \in Readers : rd[r].pc # "idle" => rd[r].age < Latency
    /\ rd' = [r \in Readers |-> IF rd[r].pc = "idle" THEN rd[r] ELSE [rd[r] EXCEPT !.age = @ + 1]]
    /\ cache' = (IF cache.set /\ cache.age < TTL THEN [cache EXCEPT !.age = @ + 1] ELSE cache)
    /\ watch' = (IF watch.wait > 0 THEN [watch EXCEPT !.wait = @ - 1] ELSE watch)
    /\ <<rd', cache', watch'>> # <<rd, cache, watch>>
    /\ UNCHANGED <<venue, real, changes>>

Read == \E r \in Readers : BeginRead(r) \/ Check(r) \/ ReadUnlocked(r) \/ Answer(r) \/ Store(r)
Next == Read \/ Return \/ Judge \/ ClearCache \/ Change \/ Tick

Spec == Init /\ [][Next]_vars

-----------------------------------------------------------------------------
TypeOK ==
    /\ venue \in Adapters /\ real \subseteq Symbols
    /\ cache \in [set : BOOLEAN, val : SUBSET Symbols, age : 0 .. TTL]
    /\ rd \in [Readers -> [pc : {"idle", "check", "unlocked", "ask", "answered", "done"},
                           val : SUBSET Symbols, age : 0 .. Latency, held : SUBSET Symbols]]
    /\ watch \in [misses : 0 .. Gone, held : SUBSET Symbols, wait : 0 .. Interval]
    /\ changes \in 0 .. MaxChanges
    /\ ~cache.set => cache.val = {}

\* "InvalidatePositionCache forces the next position read to hit the exchange":
\* a read of the reconciler reports every position that was open throughout.
FreshRead == rd["engine"].pc = "done" => rd["engine"].held \subseteq rd["engine"].val

\* The verdict of two passes means that the position was gone at some moment
\* since the first: a stale answer of another reader cannot hide a live position
\* from both.  (Where the slice is read unlocked, or cannot be invalidated, the
\* verdict proves nothing.)
TwoMissesMeanGone ==
    (verdict /\ venue.copies /\ venue.invalidates) => Watched \notin watch.held
=============================================================================
