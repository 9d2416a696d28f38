# A TLA+ development of the Discord copy-trading engine

The repository is a Go trading terminal. Its own core is `copytrader/`: an engine that
reads the trading calls an author posts on a Discord channel and repeats them, with real
orders, on the account of a user. A crash, a timed-out request or a second delivery of a
message must never make it trade twice, lose track of an order, or leave a position
without an owner. Those promises are hard to test, because breaking one takes several
steps of several actors: the author, the process, the exchange, the network, the account
owner. This development models the engine at the level of its durable writes and exchange
calls, checks it with TLC on small instances, and proves the safety of nine of its modules with
TLAPS for every value of their constants: the submission of an order, the exit and the entry of
a trade, its protective stop and its take-profit ladder, a trade on a venue without client IDs,
the journal that executes an instruction once, the reconciler's verdict, and the claims of accounts.

Paths below are relative to `src/`. Line numbers of every definition are in
`PROJECT.json` ("map"); "hazards" there lists, line by line, what the properties are for, and section 9 those that no
property covers.

1. [The system](#1-the-system)
2. [The modules](#2-the-modules)
3. [What is checked](#3-what-is-checked)
4. [Bounds](#4-bounds)
5. [Fairness](#5-fairness)
6. [Assumptions](#6-assumptions)
7. [What is proved](#7-what-is-proved)
8. [Disagreements found](#8-disagreements-between-the-code-and-its-own-words)
9. [What is not modelled](#9-what-is-not-modelled)
10. [Plan](#10-plan)

## 1. The system

### 1.1 The path of a signal

    Discord --> collector (Python) --> discord/source.go --> store: deliveries
                                                                 |
                               dispatcher of the route  <--------+
                                          |  messageMu
    retry loop  ------------------> engine.processMessage
                                          |  e.mu
                          claimInstruction, route*      <---- reconcileLoop (5 s)
                                          |                        |
                              executor: trade context, order rows  |
                                          |                        |
                                      exchange  <------------------+

A message has revisions (the post and its edits). The collector posts them to the source,
which stores the message and one *delivery* per route. The route's dispatcher leases a
pending delivery and hands the revision to the engine, which interprets it (by rule or by
a language model), stores the interpretation, and executes its instructions one by one.
Each instruction is journaled under a stable identity before anything is sent. An
instruction works on a *trade context* (one followed trade) and on *order rows* (one per
exchange order, with a client ID chosen before the order is sent). A reconcile loop passes
every five seconds over all trades and finishes what handlers, crashes and timeouts left.

Three levels of serialisation matter:

- `messageMu` (`copytrader/engine.go:53`): one revision at a time is handled, by the
  dispatcher or by the retry loop, from reading the message to writing its outcome;
- `e.mu` (`engine.go:405`, `reconcile.go:31`): the execution of instructions and a
  reconcile pass exclude each other; asking the model does not hold it;
- the store: every state change that must be atomic is one transaction; two changes in
  two transactions have a crash between them.

### 1.2 Inventory of the copy trader

**Order rows** (`copytrader/managed_execution.go` 45-310, `store/copytrade_ledger.go`).
State: `CopyTradeOrder.Status`, `OrderID`, `ExecutedQty`, `UpdatedAt`. Operations:
`newManagedOrder`, `submitManagedChecked`, `queryManaged`, `abandonUnlandedOrder`,
`recordManagedResult`, `cancelManaged`. Hard: the answer of a submit may be lost; the
request may arrive after a lookup said the client ID is unknown; lookups lag; fills race
cancellations; the process dies between the write before the call and the one after it.
Correct when: a client ID is submitted once, a row given up has no order, a row recorded
as over is exact, an uncertain row is resolved in the end.

**Exit** (`managed_execution.go` 880-1260, 1275-1410). State: `ctx.State`,
`ctx.ClosePendingJSON` (the durable *intent*: row, generation, attempts, residual seen),
the exit rows, the journal entry of the signal that asked. Operations: `routeClose`,
`ExecuteClose`, `executeManagedCloseAmount`, `reconcileManagedCloseStep`,
`resubmitManagedExit`, `abandonManagedExit`, `supersedePartialExit`, `FinalizeExit`,
`recoverPendingActions`, and `reconcileOpenTrade` when the position is gone. Hard: an exit
whose order ended early is sent again for the rest; a full close overtakes a partial one;
position reads lag behind fills; recovery runs a half-finished action again. Correct when:
one exit at most can execute at a time and the intent names it, a partial exit does not
reduce twice, a closed trade stays closed and nothing of it can execute, and a pending
exit comes to an end.

**Entry** (`managed_execution.go` 433-880, `executor.go` `ExecuteCancel`). State:
`EntryDisabled` (a one-way latch), `EntryWorking` (ownership of the side), `Quantity`,
the rows `ENTRY_1` and `ENTRY_2`, the deadline, the take-profit progress. Operations:
`executeManagedOpen`, `reconcileManagedEntry`, `closeEntryEligibility`,
`settleManagedFills`, `enforceManagedRisk`, `revalidateDeferredMarket`, the tail of
`reconcileOpenTrade`, `finishTradeOrders` for the legs. Hard: a leg fills while it is being
cancelled, or after a deadline; a cancel reaches a trade that is open or flat again; a pass fails between two writes
and keeps only part of what it noticed; the owner trades the same side by hand. Correct
when: after the latch no leg is sent, the second leg follows only a complete and protected
first one, a cancelled trade leaves no order and no position of its own behind, ownership
is kept while a leg can execute.

**Journal and delivery** (`engine.go` 60-430 and 518-790, `pipeline.go`,
`store/discord_ingest.go`, `store/copytrade.go`). State: `DeliveryMessage.Status`,
`CopyTradeSignal.Status`, the stored interpretation, `RetryCount`, `CopyTradeAction`.
Operations: `BeginDelivery`/`FinishDelivery`, `HandleMessage`, `processMessage`,
`deferInterpretationRetry`, the TTL and source gates, `claimInstruction`, the journal
write after a route, `DueRetries`, `recoverOrphanActions`, `recoverPendingActions`,
`syncRecoveredSignal`, `ResetTraderDeliveries`, `InterruptAIRuns`. Hard: the same revision
reaches the engine again after a crash, a lost write or a wait; an edit repeats an
instruction; recovery settles an action while the message waits. Correct when: an
instruction reaches the exchange once, what is journaled as never sent was not, an
outcome is never made up, and every revision gets an outcome.

**Admission and account ownership** (`store/copytrade_ownership.go`, `executor.go` 102-146,
`entry_admission.go`, `store/trader.go`, `store/exchange.go`,
`store/copytrade_recovery_review.go`). State: one ownership row per account, symbol and
side; the trade contexts and actions it is judged by; the account a trader is bound to and
the adapter its process still holds. Operations: `admissionLock`, the three checks of
`ExecuteOpen`, `claimCopyTradeOwnership` inside `CreateManagedPlan`, release by the next
claim, resurrection, `RecoveryReview`, the guarded updates of traders and exchanges. Hard:
two processes; a rebinding between the check and the order; recovery that sends for a trade
whose side has a new owner. Correct when: two trades never own, drive or resume one side,
and the account under an open trade does not change.

**Debounce, position caches and recheck** (`reconcile.go` 258-319 and 151-245,
`protections.go` 589-601, `GetPositions` of the adapters). Two missing reads declare a
position gone; the read is meant to be fresh, through a cache that other readers share;
three passes watch a trade closed so and revert the verdict when the position is back.
Correct when: a verdict of "gone" means the position was not there.

**Stop protection** (`stop_protection.go`, `stop_history.go`, `terminal_orders.go`). State:
the recorded stop and its order, the stop intent (stage, identity, the stop it replaces,
times) saved before the exchange is touched. Operations: `setStopProtection`,
`resolveStopOutcome`, `adoptExistingStop`, `unprotectedFallback`, `finishTradeOrders`. Hard:
a request is lost or late; lists of open orders lag; the owner places a stop too. Correct
when: no two stops of a trade can reach the book, a working stop is only cancelled for one
as tight, what is recorded is real, a closed trade leaves nothing behind, a position does
not stay without a stop.

**Trades on venues without client IDs** (`executor.go`, `entry_settlement.go`,
`reconcile.go`). The same trade without the order protocol: `Execute*` of the executor,
`settleLegacyEntry`, an exit behind the durable `legacyExitIntent`, and the same reconcile
pass. Hard: an interrupted request cannot be looked up. Correct when: an exit is sent once,
a trade that ended left nothing, protection is withdrawn only from a position that is gone.

**Take-profit ladder** (`protections.go`, `tp_reduction.go`, `tp_update.go`,
`tp_split.go`). State: the plan of the levels with their fills, identities and wanted
quantities, the position it was last scaled to, the intent of an update, the exit intent of
a level. Operations: `restoreRemainingProtections` (refresh, `tpRescale`, replace, place),
`settleUnplacedTP`, `replanTP`, `ExecuteTPReduction`, `updateTakeProfits`. Hard: fills race
every step; a submission may be lost, late or refused; the position a pass has read is out
of date when it acts; three handlers work on one plan. Correct when: a level has one seller
at a time, the levels never ask for more than the position, a level that filled stays
filled, and the ladder stands again after whatever happened.

**Interpretation** (`parser.go`, `prompt.go`, `message_rules.go`, `preset_policy.go`,
`jonzi_card.go`, `validate.go` and others). Text to structured instructions: sequential.

**Collector** (`collector/worker.py`, `core.py`) and **message source**
(`discord/source.go`, `store/discord_message.go`, `store/discord_ingest.go`). State: the
outbox of captured events, the checkpoint and recovery row of a channel (SQLite in the
collector), the states of channels, messages, revisions and deliveries (the store of the
backend). Operations: capture and delivery with acknowledgement, gap recovery from the
history of a channel under a generation, the barrier that holds READY back, status frames,
`serve`, `Upsert`, `dispatch`. Hard: sessions break while history is read, acknowledgements
are lost, the outbox overflows, live events overtake recovered ones. Correct when: a
channel called ready has no hole, revisions are handled in the order they were stored, every
message is handled or its loss is reported.

### 1.3 The rest of the repository

The terminal the copy trader was added to: `trader/` (a model-driven decision loop with
throttles, grid trading, exchange adapters), `manager/` (the traders of a process),
`trader/syncloop` and `store/position_*.go` (positions rebuilt from fills), `kernel/`,
`mcp/` (prompts and model clients), `market/`, `provider/` (data feeds), `api/`, `auth/`,
`web/`, `telegram/`, `notify/`, `crypto/`, `wallet/`, `config/`, `logger/`, `hook/`,
`safe/`, `security/`, `telemetry/`. Every one is a component of `PROJECT.json` with the
reason it is not modelled.

## 2. The modules

    OrderLedger  <-- ManagedOrder --> OrderContract (refinement)
         ^
         +-- ManagedExit
         +-- ManagedEntry <-- MCEntryJournal --> SignalJournal
                                                      ^
                 TakeProfitLadder <-- MCJournalLadder +

    AccountClaim
         ^
         +-- MCAccountClaim <-- MCComponents --> StopGuard, PositionCache,
                                                 LegacyTrade, MessageSource

    M <-- M_proofs            for M = SignalJournal, StopGuard, LegacyTrade, MessageSource
    ManagedExit, ManagedOrder <-- ManagedExecution_proofs
    MC<M> <-- <M>_proofs      for <M> = EntryJournal, JournalLadder, Components

The layering is by trust. `ManagedOrder` shows what one order row guarantees, stated
abstractly in `OrderContract`; `ManagedExit` and `ManagedEntry` take single orders as that
contract allows and look at the handlers above; `SignalJournal` takes the trades as black
boxes and looks at what brings an instruction to them; `TakeProfitLadder` keeps an open trade's
take profits, with the order protocol of `ManagedOrder` taken as one row per level; `MessageSource` is what comes before
it. `AccountClaim` keeps trades apart that each of the others looks at alone. `StopGuard`
and `PositionCache` detail what `ManagedEntry`, `ManagedExit` and `LegacyTrade` take as one
step: placing a stop, and reading a position.

### OrderLedger
The statuses of an order row, grouped: `Uncertain` (the call may have had an effect),
`Voided` (given up), `Working`, `Ended`; `orderTerminal` is the code's function.

### OrderContract
Per order: a phase (intended, committed, void), the quantity executed at the exchange, the
quantity reported. Only a committed order executes; void is final; reports grow and are
real.

### ManagedOrder
One row and the exchange. `row` is durable, `at` is where a handler stands (between the
`SUBMITTING` write, the call, its answer and the lookup), `net` is the one request in the
network, `venue` the exchange's record. Its initial states, steps and specification are
`OrderInit`, `OrderNext`, `OrderSpec`: one module of proofs extends it beside `ManagedExit`.
Each branch of `submitManagedChecked` is an
action: `BeginSubmit` (the write before the call), `Send`, then `SubmitAnswered`,
`SubmitRejected` or `SubmitUncertain`. `QueryFound`/`QueryNotFound` are `queryManaged`,
with `abandonUnlandedOrder` inside the second. `HandlerStops` ends a handler anywhere: a
crash, a failed write, a failed lookup. A lookup may return an older record (`Views`).
Time is counted in ticks, because the grace period of 60 s is compared with how long a
request can be on its way.

### ManagedExit
One trade from its first exit request on. `hand` is the running handler as a small state
machine whose stages are the code's decision points: `enter` (a new exit), `submit`,
`settle` and `decide` (`reconcileManagedCloseStep`), `supersede`, `mark`/`abandoned` (the
second write of `abandonManagedExit` and the return to the handler). `intent` is
`ClosePendingJSON`. `order[i]` and `market[i]` are generation *i* in the ledger and at the
exchange; `shown` is what a position read returns, `pos` what is there. `action` is the
journal entry of each signal; `Journal` models how the end of a first execution and of a
recovery differ in what they write.

### ManagedEntry
One trade from its committed plan on. `ctx` is the stored context; `hand` holds what the
handler's copy has that the store has not: the latch in memory (`mem`), the quantity at
the start of the pass (`old`), whether a lookup failed. `latch` and `cancel` are the two
halves of `closeEntryEligibility`, which many handlers call; `then` is the caller's next stage.
`PassFails` is the deferred error handler, which stores the visible position. `ExecuteCancel`
starts wherever the code lets it: `routeCancel` on a trade that is pending, open or closing,
recovery on a terminal one too while its entry works; `Withdraw` is what follows the
cancellation of the legs. `FirstLeg` sizes a deferred market leg again, `SecondLeg` sizes the
second to what is left of the budget, and either may be revoked before it is sent (`Revoked`).
The exit a handler starts is abstract here (`closing`): `ManagedExit` is its detail, and
`ExitSettles` and `finishTradeOrders` are what it makes of the trade and of its legs. The owner
may trade the side while the trade is open and when it is flat.

### SignalJournal
One message with its revisions. `delivery`, `signal`, `interp`, `tries` and `action` are
durable; `hand` is what the holder of `messageMu` does. An action's identity is a pair:
the instruction and a key, 0 for the identity every revision computes and *r* for the one
`claimInstruction` derives when signal *r* retries. `linked` says the trade and its orders
exist (`CreateManagedPlan` commits them with the link), `sent` that an order of it
reached the exchange. `Lapse` is the TTL gate, `Gate` all the others. Recovery actions
interleave with the handling except while an instruction executes (`Executing`, which
stands for `e.mu`). `Faulty` writes fail and their caller goes on as the code does.

### TakeProfitLadder
The take profits of one open trade. `plan` is `tp_plan_json` by level: `qty`, `want`
(`DesiredQuantity`), `fill`, `prior`, `repl` (`ReplacementFilled`), `sync` (`SyncedFill`), `done`
(`Filled`), `by` (`ReplacedBy`), and whether the level has an order ID (`oid`) and a client ID
(`cid`). `synced` is the position it was scaled to, `upd` and `exit` the two durable intents,
`row` and `ord` the order of the level's present identity in the ledger and at the venue. `run`
is the handler: `op` is a pass, an update, an exit, the settlement of an exit or its undoing,
`pc` the place in `restoreRemainingProtections` or its callers, `l` the level, `q` the position
it has read. `held` are levels that `tpRetryAt` or the price band keeps back. `Forget` records what
leaves the plan: `old` the lots an identity sold, `stray` the orders that were still alive or
had fills the plan did not know (history). One action per write or call: a pass is `StartPass`,
`ReadPosition`, `Refresh`, `Rescale`, then for each level one of `LevelStands`, `FillChanged`,
`ReplaceOrder`..`RetireOrder`, `BelowMinimum`, `HeldBack`, `PlanOrder`, `Submit`, `Row...`
(`settleUnplacedTP`, by the status of the row), and `Stamp`. The looking up of all levels at
once (`refreshTPProgress`) is one step, because fills of two levels commute.

### AccountClaim
One symbol and side per account; several traders, each in a process (`Home`). `run[t]`
is the trader's running admission (`ExecuteOpen`), one action per read or write of something
others change: `Lock`, `CheckOwners`, `CheckPosition`, `CheckOrders`, `Create`, `Send`.
`state`, `by`, `acct`, `act`, `ord`, `own` are durable; `binding` and `key` are what the store
says of traders and exchanges; `adapter` is the account and key a running engine was built
with; `sent` and `ckey` record with what a trade was sent and created (history). `Create` is the transaction of `CreateManagedPlan` with `Claimable` and the release of
a dead claim; `Rebind`, `DeleteTrader`, `ReplaceKey` carry the guards of the store;
`Resume`, `Settle`, `ResolveAction` and `Recheck`, `Resurrect` are how an old trade acts
again, `Review` how an operator ends one. A crash loses `run` and the locks of one process,
not of the other, and its engines are built anew.

### PositionCache
The verdict of `reconcileOpenTrade` over the position cache of an adapter. Seven adapters are
named at the top of the module by the two things in which their caches differ: is a hit
copied before the lock is released, and can the cache be invalidated? None holds the lock
while the venue is asked, so that an answer asked for before an invalidation can be stored
after it. Two readers, the pass and the web interface; `real` is what is open at the venue,
`cache` what the adapter keeps, `watch` the misses the reconciler has counted (a second one
is confirmed by a third read).

### StopGuard
The protective stop of one LONG trade. `ctx` is the stored context with its `intent`, `pc`
the place in `setStopProtection` and its callers, `stops` every stop by identity: in the
network, on the book, fired, ended or refused. `Views` is what a list of open
orders may show. Stages of the intent and each early return are actions (`RetainStop`,
`PlanStop`, `RejectedStop`, `ResolveStop`, `ResumeStop`, `CancelOld`, `BeginSubmit`, `Send`,
...); `FinishLook`, `FinishCancel`, `FinishClear`, `MarkClosed` are `finishTradeOrders` and
its caller. The owner may place a stop; the stop may fire; the venue may refuse with -4130.

### LegacyTrade
One trade on a venue without client IDs, from its first signal to the end of its recheck.
`ctx` and `rows` are durable, `act` the journal, `sends` counts what left the process for
each signal (not a variable of the program), `mkt` is the position with the lots of others, `eng`
the running handler. The handlers of signals, recovery, the reconcile pass and the recheck
are chains of actions from one read or write to the next.

### MessageSource
Messages 1..N of one channel, one of which may be edited, from Discord to the route's
handler. Of a text it is known whether it is the first or the edited one and whether it carries
the stamp of the edit: a copy of a message (`Hydrated`, which is `hydrate` and `merge_message`) can
be the first text under that stamp. A recovery reads a card in one step (`RecoveryRead`) and
appends it in a later one, behind whatever was captured in between. `gw`, `missed` are the Gateway session; `q`, `ckpt`, `anchor`, `cache`, `st` the
collector's SQLite; `rc`, `sched`, `retry`, `barrier`, `onReady`, `dl`, `wst`, `isReady` its
tasks; `link`, `sock`, `ack` the socket; `row`, `db`, `dlv`, `gst`, `dp`, `seen` the backend.
When an event leaves the outbox (`Pop`), its copies on the socket become `Old` frames: the backend
knows their `event_id`, and nobody waits for the answer. The action names are those of `worker.py`, `core.py` and `source.go`.

### The MC modules
They only give constants their values, except `MCComponents`, `MCEntryJournal` and
`MCJournalLadder`: components that share no state, explored in one run. `MCJournalLadder` has the
journal twice, as `Journal` (a message that opens and reduces, in a format that needs no model)
and as `Asked` (an entry alone, read by the model). `part` says which one a
behaviour is of; `x1`, `x2`, ... are the variables of the instances, in the order in which each
module declares its own, and 0 where a part has fewer; only the position cache of `MCComponents`
has variables of its own, for its actions are not fair. A violation of one part is a violation of
that part's module alone. The fairness of the parts is stated together: a behaviour never changes
its part, so one conjunct can serve one action of each, and is stated over the variables those
actions change (`WF_xs`). Where a part has proofs the instance is of the module of its proofs
(`Guard == INSTANCE StopGuard_proofs`, say), so that its lemmas can be cited of the instance.

## 3. What is checked

| run | module | states | question |
|---|---|---|---|
| `ManagedOrder` | ManagedOrder | 0.13 M | does one order row keep the order contract, is an uncertain submission resolved, does the ledger converge? |
| `ManagedExit` | ManagedExit | 4.2 M | do a full close, a partial exit and recovery ever work against each other? |
| `ManagedExitPartial` | ManagedExit | 80 k | does a resubmitted partial exit reduce too much, and does an exit end? |
| `EntryJournal` | ManagedEntry, SignalJournal | 2.9 M | does a two-leg entry respect its latch, its order and its cancellation? is an instruction sent once, across edits, retries, crashes and lost writes? |
| `ManagedEntryLive` | ManagedEntry | 29 k | does a two-leg entry past its deadline end? |
| `JournalLadder` | SignalJournal, TakeProfitLadder | 0.29 M | does every revision get an outcome, and is "never sent" true? does the ladder never oversell, never forget a fill, and stand again? |
| `Components` | AccountClaim, PositionCache, StopGuard, LegacyTrade, MessageSource | 0.62 M | does each of these five keep its promises? |
| `ManagedExitReopen` | ManagedExit | violation | does a closed trade stay closed? |
| `ManagedEntryReduce` | ManagedEntry | violation | does a manual reduction end the entry? |
| `SignalJournalSwallow` | SignalJournal | violation | is a revision never swallowed by a crash? |
| `SignalJournalReduce` | SignalJournal | violation | does an edit never reduce again? |
| `TakeProfitReduce` | TakeProfitLadder | violation | does a level that is taken off at market come off? |

What the passing properties say, and how they could have failed:

- **SubmitOnce** - one `SubmitManagedOrder` call per client ID. A recovery that treats
  `UNKNOWN` like `PLANNED` breaks it.
- **VoidedNeverLands** - a row marked `REJECTED` or `ABANDONED` has no order at the
  exchange and none on its way. Without the grace period it fails.
- **SettledIsExact** - a row recorded as over has the exchange's final status and
  quantity, whatever raced the cancellation.
- **ContractSpec** - `ManagedOrder` implements `OrderContract`; a lagging lookup recorded
  without the comparison of cumulative fills breaks it.
- **SubmissionResolves**, **LedgerConverges** - the two things the reconcile loop is for.
- **OneExitInMarket** - among all generations of all exits of a trade one at most can
  still execute. A `supersedePartialExit` that does not wait for the order breaks it.
- **ExitAccounted** - that order is the one the intent names, and the trade is then
  `CLOSE_PENDING`: a crash never leaves an exit nobody looks for.
- **ClosedIsOver** - `CLOSED` means no position, no exit order and no entry order left.
- **PartialNotRepeated** - all generations of one partial exit together execute no more
  than the largest of them asked for; a resubmission of the original size breaks it.
- **ExitResolves** - a pending exit is finalised, abandoned or superseded.
- **LatchIsOneWay** - once `EntryDisabled` is stored no leg is sent, also after a crash
  between the latch and the cancellations.
- **SecondLegProtected** - the second leg is sent only after a complete first fill and
  with a stop that covers the recorded quantity.
- **CancelledIsOver** - a trade called `CANCELLED` or `EXPIRED` has no leg that can still execute
  and no position of its own; it executed only if it is `CANCELLED`, had opened and was flat
  again when it was cancelled (disagreement 13 is what the code does not keep).
- **WorkingIsTrue** - `EntryWorking` is down only when no leg can execute; it is what
  keeps the ownership of the side.
- **EntryResolves** - an entry past its deadline leaves `ENTRY_PENDING`.
- **ExecutedOnce** - two journaled actions of one instruction reach the exchange only if
  one of them was given up (`rejected`) in between.
- **ExecutedIsReal** - a signal ends `executed` only with an action of that very revision
  that is done.
- **RejectedNeverSent** - an action journaled `preflight_rejected`, which a later revision
  may claim again, was not sent.
- **NeverOversold** - two facts. A level has one seller: an order that may still execute leaves
  the plan only through an update of the ladder (disagreement 9 below), and the market exit of a
  level is sized only after its order ended. And after a pass has rescaled the levels, they
  together ask for no more than the position it read. It fails when one not-found answer is
  believed, or when the guard of `tpRescale` is dropped.
- **FillsKept** - what the identities a level gave up have sold are its prior fills, exactly,
  however often it was replaced, refused or resubmitted.
- **SignalsAndLadderSettle** - of two parts. Every received revision gets an outcome, through
  failing models, waits and restarts (`Resolves` of `SignalJournal`). And again and again, with
  no intent pending, every level of an open trade has its order with the right quantity, or is
  known not to get one, or waits for its price (`LadderStands`); `Trapped` names the three places
  where the code stays for ever (disagreements 8, 10 and 11), so any other way of getting
  stuck fails the property: a level that waits and ends the pass keeps the next one out of the
  book. For a revision the one exception, a revision left unattended, is the subject of
  `SignalJournalSwallow`; the exception is a definition (`Unattended`), so the property
  still fails for any other way of getting stuck.
- **SideExclusive** - two trades on a managed account never own, drive or resume the same
  side: not two admissions in two processes, not an admission and a recovery that sends for
  an ended trade. Releasing the claim of a trade because it ended breaks it.
- **GroundHolds** - while a trade is not over, or an action of it is unresolved, its account
  is the one its trader is bound to and the credentials are those it was admitted with.
- **TwoMissesMeanGone** - when two passes in a row saw no position, there was a moment since
  the first without one, although a single read may be stale. Without the invalidation it
  fails; it is stated for the adapters that copy a hit under the lock and can be invalidated
  (Bybit, Gate): for the others the verdict proves nothing, see section 8.
- **OneStopOut** - of all identities a trade ever gave a stop, one at most can be on the
  book or reach it. It needs the consecutive not-found answers and the time they span.
- **RecordIsReal** - a recorded stop was on the book, at the recorded price: neither a lost
  acknowledgement nor an adoption records an order that did not exist.
- **ClosedIsClean** - no stop of a closed trade is out, or will be.
- **StopKept** - a working stop is cancelled only for one at least as tight (venues with stop
  identities; `TighterOnly` speaks of steps that move the handler on, because the owner may
  cancel a stop of his own while the handler stands before its cancellation), and the last stop of a position that is still there is not withdrawn (venues
  without).
- **ExitSentOnce** - without client IDs, the exit of a signal leaves the process once.
- **EndedIsOver** - a trade that ended has neither a working entry order nor a position.
- **ReadyIsGapless** - while the backend's row of the channel says ready, no message is
  missing before one that is stored. It rests on the order of status frames and events, on
  the barrier after READY and on the generations that outdate a recovery.
- **RevisionsInOrder** - the revisions of a message are handed to the route in the order in which
  they were stored, also when two have the same source time: once a later one was handled, an
  earlier one is not handed over any more. That the last of them has the newest text is not
  promised (disagreement 14).
- **Reprotected** - while a trade holds a position, it is again and again true that a stop
  stands or the position is gone, on venues with stop identities and without: no position
  stays without a stop, be the trade open or being closed. A trade can also leave the
  question by ending, and then `EndedIsOver` and `ClosedIsClean` speak of what it leaves. A
  market entry of the legacy path that stays `NEW` (section 8) holds no position in its books.
- **Concluded** - again and again every posted message is handled or its loss is reported
  (a gap, a halted collector), and a trade whose position is gone is closed, unless the
  owner's own stop keeps the cleanup waiting.

Each passing property has a mutant in `PROJECT.json`: a plausible slip in the code it is
about, under which TLC finds it violated. The mutated definitions stand next to the real
ones in the modules and are marked as such.

`OrderInv` of `ManagedOrder` contains that module's type invariant; the other modules' are `TypeOK`, or
conjuncts of `PartsTypeOK`.

Deadlock is not checked in the runs of any module but `ManagedOrder`: a trade that is closed, or a message that has its outcome and whose TTLs have
passed, is over and the model stops. In `ManagedOrder` time goes on for ever.

## 4. Bounds

| constant | value | why it is enough |
|---|---|---|
| `Rows` | one MARKET, one LIMIT | rows only meet in `NoHandler`; MARKET rows alone are queried at once |
| `Qty` | 2 | none, part and all of an order executed |
| `Grace`, `MaxDelay` | 2, 1 | the least values with a request that outlives one tick |
| `Signals` | one full, one partial | the two kinds of request that treat each other differently |
| `StartQty` | 2; 4 for the partial exit | half a position that can itself execute in part |
| `LateFill` | 1 | the rest of an entry that fills during the exit |
| `MaxResubmits` | 1 (the code: 3) | one below and one at the limit |
| `MaxOrders` | 3 | original, resubmission, and the exit that supersedes or follows |
| `MinLot` | 1 | a half of one lot is below it: dust |
| `MaxOpens`, `OpenQty` | 1, 1 | one position of the owner after the trade is over |
| `Split`, `LegQty` | TRUE, 2; 1 for liveness | partial fills of either leg |
| `Foreign` | 1; 0 for liveness | one lot of the owner inside the position |
| `Text` | a message and its edit; a message with two instructions | edits repeat; instructions of one message differ in outcome |
| `Known` | {2} or none | revisions that need a model and that do not |
| `MaxStops`, `MaxFaults` | 1, at most 1 | each fault at each write; two independent crashes are not explored |
| `Traders`, `Accounts`, `Processes` | 2, 2, 2 | one managed account and one of another venue; a trader per process. The traders are interchangeable: of the two ways to bind them to different accounts one is explored |
| Adapters | those that can invalidate their cache | of the seventh (Indodax) `TwoMissesMeanGone` promises nothing |
| `MaxChanges`, `MaxCrashes` | 1, 1 | one rebinding, deletion or new key between any two steps |
| `TTL`, `Interval`, `Latency` | 3, 2, 1 | the cache outlives a pass interval and a request spans a tick, as 15 s, 5 s and less do |
| `CacheChanges` | 2 | a position that is opened and closed once between two reads |
| `Prices`, `MaxIds`, `GuardMoves` | 2, 4, 1 | one move of the stop, and identities for each renewal of it |
| `Grace`, `Alert` (stop) | 1, 2 | the least values with an alert after a convergence |
| `Closes`, `Reduces`, `Cancels`, `Moves` | one each | every kind of signal, in any order |
| `Size`, `MaxOwner` | 2, 1 | part of a position, and one lot of somebody else |
| `N`, `Card`, `Page`, `Capacity` | 2, 2, 1, 4 | two pages of history, the edited message on the newest; recovery and live events together fill the outbox |
| `Buffer` | 2 | frames on the socket beyond which the collector waits: a status behind an event and an event behind a status |
| `Recipe`, `StartQty` (ladder) | <<1, 2>>, 3 | two levels, one of which can fill in part; every lot of the position is offered |
| `Ratios` | <<50, 50>> | an update that moves a lot between the levels |
| `MarketMin` | 2 | one lot cannot be sold at market: the exit is refused, undone or abandoned |
| `Asks` | update and reduce | both orders of the author's two requests |
| `MaxFaults` (ladder) | 1 | one lost or refused call, failed lookup, crash, or action of the owner, at any step |
| `GuardFaults`, `LegacyFaults`, `SourceFaults` | 1 | each fault at each step |

Larger instances of the parts of `Components`, one part at a time, also passed: two faults
and two moves of the stop (0.37 M states), three changes of the position (0.34 M), and two
faults of a trade without client IDs (0.52 M).

The ladder also passed with two separate budgets, one fault and one action of the owner (0.54 M
states). `PartsTypeOK` of `JournalLadder` and of `EntryJournal` bound the same journal with
different texts.

`MaxOrders` also bounds `ExitResolves`: the bounded model refuses the order after the last,
so the property excuses a state in which `made = MaxOrders`. With `MaxResubmits = 1` a
single partial exit creates two, and a third when recovery runs it again.

## 5. Fairness

Only the reconcile loop, running handlers, the network and the clock are fair; authors,
owners, crashes and failures never are.

- **Handlers** are weakly fair: every exchange, model and store call has a timeout, so a
  handler goes on or ends with an error.
- **The reconcile loop** is a ticker (`reconcile.go:21-47`) and takes `e.mu` in turn. In
  `ManagedExit` its passes are weakly fair; in `ManagedEntry` strongly, because signals
  can keep taking the lock but never for ever.
- **Lookups, reads and cancellations** may fail, but not every time: strong fairness on
  their successful outcome (`QueryCurrent`, `QueryAll`, `ConfirmAll`, `SettleQueries`...).
- **Requests** arrive or are lost; a market exit fills or expires. A limit entry need not.
- **Dispatch and retry** are strongly fair: `messageMu` is not withheld from one of the two.
- **The clock** passes every TTL and deadline. A TTL of 0 switches the gate off; then a
  signal may wait for ever, and `Resolves` is not claimed.
- **A stopped engine** is started again (`Stopped`, `Start`).
- **The ladder**: passes and running handlers, the arrival of requests and the market exit are
  weakly fair; `RowAged` is strongly fair, for a row that stays unknown becomes older than the
  grace period. Fills, the owner, prices and the second try of a level are not fair.
- **Components**: handlers, passes, the collector's tasks and the loops of the backend are
  weakly fair, for each blocks only on calls that time out; the clock of the stop is strongly
  fair, because in the model it waits for a running handler. Authors, owners, faults, the
  firing of a stop and entries' fills are not fair. `Reprotected` and `Concluded` each state the
  liveness of two parts in one formula, which TLC checks together.

## 6. Assumptions

1. No request stays in the network as long as the grace period (`GraceAssumption`); that is
   what the 60 s are chosen for.
2. The exchange keeps a client ID's record for as long as it is looked up, and refuses a
   second order with a known client ID, on which no property here relies.
3. In `ManagedExit` a position read may lag behind a reduction, but not for the 10 s of
   `exitResidualConfirmAfter`. Growth is visible at once. In `ManagedEntry` reads are fresh.
4. Exit orders are reduce-only and never execute more than the position.
5. A new process does not run while an old one still handles a message of the same trader.
6. An instruction of a message always correlates with the same trade.
7. Writes fail or succeed entirely; a transaction is one step.
8. `PositionCacheAssumption`: a venue answers a position read in less than the interval of
   the passes.
9. In `StopGuard` the trade is LONG and stops are `closePosition` stops, of which the venue
   holds one of the trade per side; an identity the trade has given up is reused by the
   model (`Fresh`), so that four are enough. A list of open orders lacks at most the order
   that was just accepted.
10. In `TakeProfitLadder` reads are fresh, the entry is complete, the clock that ends an unknown
    submission outlives a request on its way (as in 1), and a market exit, once sent, executes:
    its submission is `ManagedExit`'s. Lots are the venue's quantity step.
11. In `LegacyTrade` reads are fresh (`PositionCache` is their detail); a market order
    executes before `confirmFill` gives up; exits are reduce-only; a take profit that fills is
    a step of `OthersTrade`.
12. In `MessageSource` there is one channel and one configuration; a status frame is applied
    as one copy of the channel's state; the retry of a recovery is scheduled after the
    backend has read and answered what was sent; `gap` also stands for `forbidden`; one
    message is edited, once, and none is deleted. The edit takes nothing of the faults' budget.

## 7. What is proved

Every safety property and every action property of a passing run is proved. Proofs are in modules
of their own, which extend the module they are about; `ManagedExecution_proofs` extends two,
`ManagedExit` and `ManagedOrder`, the two models of `managed_execution.go` it takes. Each
has the same shape: an inductive invariant (`IInv`, `OrderInv`, `SourceInv`), the lemma that it
holds initially, one lemma per action (or per group of actions that leave the same things alone)
that it is kept, and a theorem per property. Every one of these invariants was checked with TLC on the instance of a run before it was proved.

Three runs explore several components side by side, and their theorems are about what these runs
check: `EntryJournal_proofs`, `JournalLadder_proofs` and `Components_proofs` extend the MC module of the
run, hold the proofs about the component that module extends (`ManagedEntry`, `TakeProfitLadder`,
`AccountClaim`; `Components_proofs` those about `PositionCache`, too) and take those about
an instance from the module of its proofs. A step of the composition is a step of one
part that leaves the others alone (`PartSteps`), so that the conjunction of the parts' invariants is
inductive.

| module | assumption | theorem | statement |
|---|---|---|---|
| ManagedExecution_proofs | `ExitAssumption` | `TypeCorrect` | `Spec => []TypeOK` |
| | | `Accounted` | `Spec => []ExitAccounted` |
| | | `OneExit` | `Spec => []OneExitInMarket` |
| | | `Closed` | `Spec => []ClosedIsOver` |
| | | `NotRepeated` | `Spec => []PartialNotRepeated` |
| | | `ExitKeepsContract` | `Spec => OrdersKeepContract` (refinement) |
| EntryJournal_proofs | `EntryAssumption`, `JournalAssumption` | `Over` | `Spec => []CancelledIsOver` |
| | | `WorkingTrue` | `Spec => []WorkingIsTrue` |
| | | `Latched` | `Spec => LatchIsOneWay` (action property) |
| | | `SecondProtected` | `Spec => SecondLegProtected` (action property) |
| | | `PartsTyped` | `PartsSpec => []PartsTypeOK` |
| | | `Once` | `PartsSpec => []ExecutedOnce` |
| | | `Real` | `PartsSpec => []ExecutedIsReal` |
| JournalLadder_proofs | `LadderAssumption`, `JournalAssumption` | `TypeCorrect` | `PartsSpec => []PartsTypeOK` |
| | | `NeverSent` | `PartsSpec => []RejectedNeverSent` |
| | | `Oversold` | `PartsSpec => []NeverOversold` |
| | | `Fills` | `PartsSpec => []FillsKept` |
| Components_proofs | `AccountClaimAssumption`, `PartsAssumption` | `TypeCorrect` | `Spec => []TypeOK` (`AccountClaim`) |
| | | `SideIsExclusive` | `Spec => []SideExclusive` |
| | | `GroundIsHeld` | `Spec => []GroundHolds` |
| | | `PartsTyped` | `ComponentsSpec => []PartsTypeOK` |
| | | `Gapless` | `ComponentsSpec => []ReadyIsGapless` |
| | | `Revisions` | `ComponentsSpec => RevisionsInOrder` (action property) |
| | | `VerdictIsTrue` | `ComponentsSpec => []TwoMissesMeanGone` |
| | | `OneStop` | `ComponentsSpec => []OneStopOut` |
| | | `Clean` | `ComponentsSpec => []ClosedIsClean` |
| | | `Record` | `ComponentsSpec => []RecordIsReal` |
| | | `SentOnce` | `ComponentsSpec => []ExitSentOnce` |
| | | `Ended` | `ComponentsSpec => []EndedIsOver` |
| | | `Kept` | `ComponentsSpec => StopKept` (action property) |

`SignalJournal_proofs`, `StopGuard_proofs` and `LegacyTrade_proofs` state the same properties of the `Spec`
of their own modules, each with the module's assumption as a hypothesis; `ForTighter`
(`CancelsForTighter`) and `StopBehind` (`ClosedBehindStop`) are the halves of `StopKept`.
`MessageSource_proofs` does the same with `Invariance`, `ReadyGapless` and `RevisionsOrdered`. The theorems
about `ManagedOrder` are below.

The assumptions are those of the modules: numbers are natural, quantities of an order are positive,
`FullClose` is a set of signals, a text is a sequence of sequences of instructions. Four carry a
fact: `GraceAssumption` and `PositionCacheAssumption` say that a request or an answer is younger
than what outlives it (section 6, 1 and 8), `StopGuardAssumption` that 0 < Grace < Alert, and
that there are identities enough for a fresh one. `MessageSourceAssumption` only asks that
the message that may be edited is one of the N, and that the outbox, the socket and a page of
history hold at least one. Where a module is
also instantiated, its assumption is a definition that the module of the run assumes of each
instance, and a hypothesis of the theorem.

### ManagedExit (ManagedExecution_proofs)
`IInv` is `TypeOK`, `ExitAccounted` and `ClosedIsOver` with

- `OverIsOver`: a row that the ledger calls over has an order that cannot execute;
- `IntentIsLatest`: the durable intent names the row created last, or nothing;
- `HandlerFits`: whether an intent is pending, by the stage of the running handler, and that a
  handler about to submit stands on a row still `PLANNED`;
- `ReadsLag`: a position read is never ahead of a reduction, and the position is bounded.

`OneExitInMarket` says nothing of the intent, so it is not inductive; it follows from
`ExitAccounted`, which is kept because a new row is created only when no intent is pending or its
row is over. That a closed trade is flat rests on `ReadsLag`: a read of zero means zero.

`PartialNotRepeated` bounds what executed; inductive is a bound on what still *may* execute
(`Budget`): of each partial exit, what all generations executed and what the latest can still
add is within what one of them asked for. `EnterCreates` starts it from a signal of which nothing
executed, a fill moves a lot from one side to the other (`TotalChanges`), and `Resubmit` asks for at
most what the last generation left. The handlers see rows and not orders, so this needs `RowsFit` (a row
that is over was read exactly, an order executes no more than its quantity, and nothing before it
arrived) and `FullFits`: only an intent of a full close is full, so that a partial one is resubmitted with
its rest and not with the position. Sums over the generations are a recursive function on
`0 .. MaxOrders`, as in `TakeProfitLadder`.

`ExitKeepsContract` closes the layering of section 2. The module takes single orders "as the contract
allows"; `OrdersKeepContract` is `OrderContract` with the generations for its rows, the row's status for
the phase, and the two executed quantities. Creating a row is a stutter (`CreationUnseen`: the slot was an
intent already), the submission commits or voids it, a fill executes, a lookup reports or voids
(`ExitMoves`). It needs of `RowsFit` that the ledger is never ahead of the venue, and of `OverIsOver`
that nothing void executes. With `ImplementsContract` both modules meet in one specification, the lower
one as its implementation and the upper one within it. `ManagedEntry` has no such theorem: its `Submitted`
commits, executes and reports in one step, and its lookups move several legs at once, each of which is
more than one step of the contract. No run checks `OrdersKeepContract` on its own.

### ManagedEntry (EntryJournal_proofs)
`IInv` is `TypeOK` with

- `LegsFit`: what a row of the ledger says of the venue's side of its leg;
- `CtxFits`: with `entry_working` down, or the trade cancelled or expired, all legs are over; a
  cancelled or expired trade has no position of its own, and executed only if it had opened;
- `PassKnows`: a pass works on a copy of the context; where that copy may be older than the
  latch, and what it knows at each stage before it sends a leg;
- `CancelKnows`: what the end of a cancellation establishes for the handler that called it: one
  that goes on to call the trade `CANCELLED` has settled the fills, and found none or a flat
  position;
- `PosBounded`: the position is no larger than what the legs and the owner put there.

A latch is one-way although the pass decides on its own copy: every stage at which a pass goes
on with an older one is before the comparison that reads the latch again (`PassKnows`).

### SignalJournal
`HandFits` says that an instruction under way has its own row at `executing`; `JournalFits` that of two
rows of one instruction only one is active, that a sent row is no `preflight_rejected` one, and that a
sent entry is linked; `RanIsReal` that an instruction counted as executed has a row of this
very revision that is done. `ExecutedOnce` compares rows of several revisions, and follows because
a row is claimed only when none of the same instruction is active. It is proved for
every text, so for messages with any number of instructions and any number of edits.

### StopGuard
`Holders` is the heart: whichever stop may still trigger is named by the durable context - by the
recorded identity when no intent is pending, by the old identity of the intent until it is
cancelled, by the new one once it may have been sent - and by nothing at the stages before a
submission and after a cleanup. It needs `Flights` (a request on its way is young and is the
intent's), `BookFits` (an identity that ever had a stop is named, or has fired),
`IntentFits` and `HandlerFits` (the stage of the intent at each place of the handler).
`OldIsLooser` carries the comparison of prices made in `PlanStop` to the cancellation, several
durable writes later: `CancelsForTighter` rests on it.

### LegacyTrade
`EngFits` says which operation may be where, `SendsFit` what the row of an exit says of what left the
process (a row at `INTENT` was not sent; the handler about to send has it at `SENDING`),
`EarlyFits` that nothing acts before the context says the entry stands, `StateFits` what
the stored state says of the entry order and the position, `SettledFits` what an operation knows once
it has settled the entry. `ClosedBehindStop` follows step by step from the same invariant.

### PositionCache (Components_proofs)
The argument is about ages. `Staleness`: while the watched position stays open, an answer without it
was asked for before the first miss, so it is at least `Interval` old when the wait is over;
answers younger than `Latency < Interval` only are stored. `SecondPass`: hence neither the cache nor
the pass after a miss has it wrong, for adapters that copy under the lock and can be
invalidated. `OneMissAtMost` then bounds the evidence, and the verdict is out of reach while the position stays.

### MessageSource (MessageSource_proofs)
`ReadyIsGapless` is about one row of the backend and its table of messages; what makes it true is
spread over the queues of two processes. The argument follows an event. Behind the messages that are
stored stands the outbox, and behind the outbox what a cut session will replay: together the
`Line`. `SourceInv` is the typing of the state with

- `Known`: an event or a copy says no more than what was posted and edited;
- `Heading`: every event in transit is the head of the outbox, and the head leaves only once it
  is stored;
- `Anchored`: all that is before the anchor of the recovery row is stored, and that row is there
  while a recovery is due or under way;
- `Caught`: without a recovery row nothing is missing (`Good`): nothing posted is outside the
  stored messages and the line while a session is there, and storing the line event by event never
  leaves a hole. A recovery that read the whole history leaves it so once what it read is stored
  (`Covers`), whatever is captured behind it meanwhile;
- `Announced`: from any frame on the socket that says "ready", or the row that does, to the next
  state, the events in transit leave no hole (`Backed`); and while the last state told is "ready" and no
  barrier is up, nothing is missing;
- `Stamped`: the stamp of an edit does not go back, neither in the collector's copy nor from
  there to the backend's;
- `Handed`: the revisions of a message that carry the stamp are its last ones, and none is begun
  before those that precede it are over.

Eight lemmas follow the parts through all steps (`TypedStep`, `KnownStep`, `StampedStep`, `HeadingStep`,
`AnchoredStep`, `CaughtStep`, `AnnouncedStep`, `HandedStep`). Queues are sequences: the work is in
lemmas about prefixes of a line (`OrderedConcat`, `OrderedTail`, `OrderedStore`), which need no
induction because a prefix is the set of what its positions name (`Firsts`). `RevisionsInOrder` is
part of `HandedStep`: `NextDelivery` takes deliveries by source time and then by id, a revision
stored later carries the stamp when an earlier one does, and two that carry it have one source
time, so that their ids decide.

### TakeProfitLadder (JournalLadder_proofs)
Neither property is inductive. `IInv` is the typing of the state (`LadderTyped`, finer than `TypeOK`: a handler
has read no more than the position the trade began with) with

- `LevelsFit`: for each level, what its plan, its ledger row and its order have to do with each
  other - an order ID only over a known row, a row that never left only without an order,
  `fill <= exec <= qty`, an order on the book only while something of it is left, and no order at the
  venue under a status the ledger gives up;
- `StageFits` and `ExitFits`: at which level a handler works, what it has read, and which
  intent stands behind it; that a level sold at market has been marked as replaced and has no
  order on the book, from the sizing of the exit on;
- `StraysFit`: only an update leaves an order alive that the plan no longer knows;
- `PriorFits`: the prior fills of a level are what its earlier identities sold;
- `WantFits`: with a position recorded, what the open levels want is no more than it.

That a level has one seller follows from `LevelsFit` wherever an identity is given up: `replanTP` runs
only where the row or the venue says that the order is over (`RetireOrder`, `RowRejected`, `RowAged`). `WantFits` is
where the sums are. `tpRescale` cuts each level to at most `(rem * q) \div Total`, and the sum of
these is at most `q`: `SumScales` and `SumMono`, by induction on the number of levels, cited in `RescaledFits`. The
library's induction theorems take an operator as a parameter, so the induction is made with the
well-foundedness of `<` on the naturals, for the *set* of lengths at which a sum does not have the property
(`LessIsWellFounded`); for this the module writes its sums as a recursive function over
`0 .. Last`. Afterwards a level only loses wants: it fills, is done, or is taken off. An update
of the plan clears the recorded position, and the next pass scales again before it places.

### ManagedOrder (ManagedExecution_proofs)
The last part of `ManagedExecution_proofs.tla` holds, for **every** set of rows, quantity, grace period and
delay that satisfy the assumptions of `ManagedOrder`:

| theorem | statement |
|---|---|
| `OrderInvariance` | `OrderSpec => []OrderInv` |
| `OrderTyped` | `OrderSpec => []OrderTypeOK` |
| `SubmittedOnce` | `OrderSpec => []SubmitOnce` |
| `VoidedIsVoid` | `OrderSpec => []VoidedNeverLands` |
| `SettledExactly` | `OrderSpec => []SettledIsExact` |
| `ImplementsContract` | `OrderSpec => ContractSpec` |

None of the safety properties is inductive alone. `SubmitOnce` needs to know that a
handler about to send stands on a row whose request does not exist yet; `VoidedNeverLands`
needs that no request is in flight when the grace period ends, a fact about clocks; and
`SettledIsExact` needs that what the ledger knows is a lower bound of what happened.
`OrderInv` adds, row by row:

- `HandlerInv`: where a handler may stand, given the durable status;
- `RequestInv`: `calls` is 0 or 1 with the request, and an order exists exactly when the
  request landed;
- `KnowledgeInv`: a known row landed, reports at most what executed, and is exact once over;
- `VoidInv`: a void row has no request, and while an uncertain row's request is in flight
  the row is no older than the flight (`age <= flown`). With `flown <= MaxDelay < Grace`
  an abandoned row therefore has none: this is where `GraceAssumption` enters.

The proof follows the actions: `Frame` reduces a step to the one row it touches, each
action is then examined at that row for types and for the four conjuncts, and `Tick`,
which touches all rows, on its own. The refinement goes the same way: `MappedStep` shows
that a step moves the contract's tables at one row only, `MappedCases` that the row either
stutters or takes one contract action, and each action is mapped to its case.

`OrderInv` is also an invariant of the run `ManagedOrder`, so TLC agrees with what is proved.

### AccountClaim (Components_proofs)
The theorems `TypeCorrect`, `SideIsExclusive` and `GroundIsHeld` hold for **every** set of traders, accounts, processes and
attempts, every assignment of traders to processes, and any number of changes and crashes.

`SideExclusive` speaks of trades, the transaction only of the ownership row. What connects
them is `RowHeld`: a trade of a managed account that is unsettled holds the row of its side,
and two trades cannot both hold it. It is inductive together with what an attempt is before
its trade exists (`Attempts`) and with how an engine's step fits its attempt (`Runs`): a
claim replaces the row only of a trade that is settled, and no step unsettles a settled
trade of a managed account, because resurrection refuses there, recovery only sends what is
planned, and an action is linked once. `GroundHolds` is inductive with the same facts and
`KeysCounted`: the guards of `Rebind`, `DeleteTrader` and `ReplaceKey` read the very rows
that an unsettled trade has (`Busy`), in the transaction that makes the change.

### Only model-checked
- Liveness (`SubmissionResolves`, `LedgerConverges`, `ExitResolves`, `EntryResolves`,
  `SignalsAndLadderSettle`, `Reprotected`, `Concluded`): fairness and `ENABLED` are
  outside what TLAPS proves.
- The properties of section 8, which the code violates.

Recursive operators do not occur in any module.

## 8. Disagreements between the code and its own words

Five runs end in a counterexample to a sentence of the repository: 1 to 4, and 8. The others have
no run of their own.

1. **A closed trade can be reopened** (`StaleNeverReopens`; `state_machine.go:40`, "A stale
   event must never reopen a trade"). The close of a trade is uncertain; the stop closes
   the position, reconciliation marks the trade `CLOSED`; the owner opens a position on the
   same symbol and side; recovery (`managed_execution.go:1283`, reached through
   `recoverOrphanActions`) executes the old close again and `CreateExitOrder` writes
   `CLOSE_PENDING`. Ownership keeps another *copied* trade out while the action is
   unresolved, so it takes a position the engine does not own. The one sanctioned reopening,
   `recheckClosedTrades`, is not involved: it refuses on a venue with managed orders
   (`reconcile.go`, `resurrectionRefusal`).
2. **A manual reduction can be forgotten** (`ReductionEndsEntry`; `reconcile.go:323`). The
   decrease is found by comparing with the quantity read at the start of the pass. A pass
   that stores the smaller quantity and then fails before the latch loses it.
3. **A revision can be swallowed** (`NeverSwallowed`; `store/copytrade.go:510`). The retry
   loop works on a revision whose delivery is already done; if the process dies after the
   signal left `retry_wait` or `execution_wait`, nothing selects it again.
4. **An edit can reduce again** (`ReducedOnce`; `pipeline.go:84`). An exit abandoned after
   part of it executed is journaled `rejected`, which a later revision may claim anew.

Three are properties of the modules that TLC refutes in a single-part instance. They
have no run of their own; the definitions stand in the modules, and each counterexample is
short enough to be read here.

5. **An abandoned close sells somebody else's position** (`LegacyTrade`, `NeverSellsOthers`;
   `state_machine.go:40`, and `reconcile.go:176`, "Never claim a position this trade cannot
   prove is its own"). A close fails before it is sent, so its intent may be retried; the
   stop closes the trade; another trade opens the side; `recoverOrphanActions` hands the
   terminal trade to `recoverPendingActions` (`managed_execution.go:1299`), which retries the
   close on the position it sees. This is disagreement 1 on venues without client IDs.
6. **A trader may trade on an account it does not claim** (`AccountClaim`,
   `TradesWhatItOwns`; `store/copytrade_ownership.go:18`, "Account fences serialize
   credential/binding changes against admission"). Rebinding an idle trader is allowed while
   it runs; until the HTTP handler has reloaded it (`api/handler_trader.go` 815-850), an
   admission claims the new account and its adapter sends to the old one.
7. **A read after an invalidation may be stale** (`PositionCache`, `FreshRead`;
   `trader/bybit/trader_positions.go:12`, "InvalidatePositionCache forces the next position
   read to hit the exchange"). A request of the web interface that began before the
   invalidation stores its answer after it; the reconciler's read is served from the cache.
   For Bybit and Gate the second miss repairs it (`TwoMissesMeanGone`). In the other adapters
   a hit reads the shared slice after the lock was released, or there is no invalidation at
   all (Indodax), and the verdict can be wrong.

The take-profit ladder has five places where an intent is written before the code has looked
whether it can go on, or where a submission is believed not to exist:

8. **A level cannot be taken off at market while its submission is unconfirmed**
   (`ReductionEnds`, run `TakeProfitReduce`; `protections.go:345`, "A TP that cannot be confirmed
   or was refused must never block the stop, other levels, exits or finalization").
   `ExecuteTPReduction` stores its intent, then finds the level's identity pending
   (`tp_reduction.go:107`) and returns. Every pass calls it again instead of the protections, so
   that `settleUnplacedTP`, which would confirm or give up the identity, is never reached.
9. **An update forgets an order that is still out** (`managed_execution.go:220`, "Any ambiguous
   response is recovered by client ID"). `cancelTrackedTPs` skips a level without an order ID
   whose status is `PLANNED`, also when its submission is unconfirmed
   (`entry_settlement.go:121`); the new plan drops the identity. If the order did arrive, the
   level has two. In the model such orders are `stray` with the reason `update`, which
   `OneSellerPerLevel` and `FillsKept` except by name.
10. **An update of a ladder that has nothing left stays pending** (`tp_update.go:86`). The intent
    is durable before `remainingTPAllocation` finds no unfinished level; each pass fails there
    and goes on to the next trade (`reconcile.go:83`).
11. **An update waits for ever for an order that is over, or was never placed**
    (`entry_settlement.go:127` and `:133`). A level `BELOW_MINIMUM` has no order ID; an order that
    filled or was cancelled since the last pass cannot be cancelled. Both are errors before the
    refresh that would record what happened.
12. **A fill between the read of the position and the refresh shrinks the other levels**
    (`protections.go:451`, "they must not shrink the other levels"). The pass stamps the fill as
    already reflected by a position that was read before it; the next pass takes the smaller
    position for a sale of the owner and scales the rest down, in the model down to nothing.

8, 10 and 11 are the disjuncts of `Trapped`.

Two more are properties that TLC refutes in the single-part instance; the runs check what the
code does keep:

13. **A trade that executed may be called cancelled** (`CancelledBeforeFill` of `ManagedEntry`;
    `state_machine.go:16`, "entry cancelled before fill"). `routeCancel` (`engine.go:1569`) lets a
    cancel through to a trade that is open while its entry works, recovery
    (`managed_execution.go:1354`) to one in any state; when the position is flat by then,
    `settleManagedFills` stores quantity 0 (`managed_execution.go:607`), and `executor.go:676`
    marks the trade `CANCELLED` although a leg executed and its position was closed.
    `CancelledIsOver` is what remains true: nothing of it is left at the venue.
14. **An edited text can be rolled back** (`NeverRolledBack` of `MessageSource`; `source.go:743`, "Do
    not allow replayed older updates or CREATE to roll back newer content"). A recovery reads an
    open card (`worker.py:480`); the card is edited and the edit captured; then the older text
    is appended behind it (`worker.py:483`). It has no `edited_timestamp`, so `merge_message`
    (`core.py:114-124`) puts the older text over the newer one under the newer stamp, and the
    backend takes it for an update that is not older: the first text becomes the last revision,
    and is handed to the route after the edited one.

Smaller ones seen while modelling, reachable in the models: the TTL gate runs before the
journal is consulted, so a signal whose action is unresolved may end `skipped`
(`engine.go:552`, `docs/copytrade/gateway-fresh-deployment.zh-CN.md:146`); a handling may
write `parsed` over an outcome recovery committed (`engine.go:172`); an exit abandoned inside
the handler of its own signal is journaled `uncertain` over `rejected` (`engine.go:725`); a
failed entry pass stores the position of the side, lots of the owner included
(`managed_execution.go:624`); an entry that recovery settles as cancelled is reported as
executed when its signal is retried; the tracked size of a trade without client IDs follows
the position of the side downwards, whoever sold (`reconcile.go:346`, `SizeTracked` of
`LegacyTrade`).

### Hazards no property covers

`PROJECT.json` lists the hazards with their properties. Others are
real, at the lines given, and have no property because the code promises nothing that could
be stated, or because they need an operator; disagreements 5, 6, 7, 9, 12, 13 and 14 belong here too:

- an abandoned exit is two writes, and a crash between them lets recovery journal a close
  that left a remainder as done (`managed_execution.go:1211`); a revision that waits is
  handled after a later one of the same message (`engine.go:239`); a second retry of a
  rejected instruction by one signal collides with its own identity and waits for its TTL
  (`pipeline.go:144`); an `UPDATE_SL` of a trade that ended stays unresolved
  (`managed_execution.go:1286`);
- a recorded stop that is neither listed nor in the venue's history is an error on every
  pass, without re-protection or alert (`stop_protection.go:189`);
- a close of an unfilled entry whose cancellation fails is never retried
  (`engine.go:1536`); a market entry whose answer was lost stays `NEW` for manual review
  (`reconcile.go:130`); an accepted emergency close marks the trade `CLOSED` at once
  (`executor.go:330`);
- deleting a trader does not look at order rows (`store/trader.go:206`); a wallet address or
  private key may change while the account is busy (`store/exchange.go:338`); the
  resurrection of a trade is a plain update after a separate read (`reconcile.go:186`);
- the dispatcher reads the states of the channels and then picks a delivery
  (`discord/source.go:566`), while a channel may begin to recover; an edit of a message that is
  not an open card, lost between two sessions, is not read again (`collector/worker.py:477`);
  a configuration that cannot be reloaded is only logged (`source.go:231`); a Gateway task that
  ended waits for the next configuration (`worker.py:524`); events captured before a trader's
  activation carry the old routes (`source.go:765`).

## 9. What is not modelled

Inside the modelled files: prices, sizing and the risk budget (quantities are choices), the split
of an entry's recipe into levels, take-profit and breakeven orders of trades without client IDs,
the journal of SL and TP updates, the aliasing of partial
closes and reductions in `claimInstruction`, author filters, events and notifications; in the
collector and the source, messages that are deleted (`MESSAGE_DELETE`: from the Gateway, or when a
card or a message that is read turns out to be gone), several channels, changes of routes, the monthly expiry of its message cache, the
import of checkpoints and failures of authentication. Outside them: the components of 1.2
that the plan lists, and those of 1.3, which are I/O, display, configuration or third-party
protocol, and keep no state the copy trader's promises depend on. The exchange, the network,
the clock and the language model are external actors, modelled from how the code uses them.

Most of the repository's lines are of that second kind (a data terminal, its indicators,
eleven exchange clients and prompt texts), so that the map covers a small share of the
implementation, though most of the copy trader's control.

Two simultaneous crashes, two engines of one trader, and two managed trades on one side with
the full detail of their orders are beyond the present modules.

## 10. Plan

In order of importance; the first ten are done.

1. `ManagedOrder` with `OrderContract` and proofs: every order goes through it.
2. `ManagedExit`. 3. `ManagedEntry`. 4. `SignalJournal`.
5. `AccountClaim` with proofs. 6. `StopGuard`. 7. `PositionCache`. 8. `LegacyTrade`.
9. `MessageSource`.
10. `TakeProfitLadder`: identities of levels, updates, and `ExecuteTPReduction`, which joins the
    ladder to the exit intent. What is left of it: an entry that still fills while the ladder
    stands, and the stop that moves with the levels that filled.
11. `TraderManager`: load, start, stop and reload of traders; with `AccountClaim`'s
    `Reload` it would tell how long disagreement 6 can last.
12. Routes: their generations, activation and `CheckExecution`, on top of `MessageSource`.

Proofs: none is left of the safety properties that the runs check. The modules of 11 and 12 come
with their own.
