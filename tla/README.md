# Verification of the liquidation bot

TLA+ specifications, model-checking configurations and machine-checked proofs
for the bot under `src/src/` (TypeScript, one Node.js process per chain). Line
numbers in the modules and below are those of the files as they are in the
repository.

A word on the concurrency model, which every module shares: the process has one
thread, so code between two `await`s is atomic, and every `await`, timer or
callback is a point where anything else may run. A module has one action per
such piece of code.

## 1. Inventory

| Component | State it keeps | Operations | Meets | Hard part |
|---|---|---|---|---|
| `executors/safeTransactionExecutor.ts` | none of its own; one `execute()` per request | preflight, stages, send, replace, receipt, resync | nonce manager, breaker, transports | concurrent executions, failure at every await, ambiguous sends |
| `executors/nonceManager.ts` | `Map` key -> `NonceState` {nextNonce, released, active, initialized} | reserve, release, resync | executor | a state object captured before an await and replaced meanwhile |
| `executors/simFailureCircuitBreaker.ts` + the registry of `config/chainRegistry.ts` | failure count, timer, breaker status | recordSimFailure, recordSuccess, timer | orchestrator, executor | late failures of executions in flight, re-armed timer |
| `orchestrator/pipelineOrchestrator.ts` | dead-letter list | runOnce, runLoop | all of detection, gate, queue, executor | five callers of `runOnce()` and no in-flight guard |
| `orchestrator/liquidationCandidateGate.ts`, `utils/borrowerCooldown*.ts` | account -> blocked until | filterCandidates, recordDeadLetter, isBorrowerBlocked | orchestrator, executor's gates | a block that starts while a plan is under way; which account is keyed |
| `monitors/arbitrageScanner.ts`, `mirror/`, `arbitrageOpportunityQueue.ts` | poll with its workers, signatures, pool states, bounded queue, ids seen in the last minute | poll, quote, approve, push, drain, prune, stop | orchestrator | two windows that start at different times, overflow, stop during a poll |
| `monitors/wsEventLayer.ts`, `positionCheckpointStore.ts` | ids seen, checkpoint on disk or in Redis | live log, gap fill, save | event-purity stack, WebSocket client | overlapping gap fills, several writers of one checkpoint, crash between applying and saving |
| `monitors/eventPurityStack.ts`, `localPositionModel.ts`, `tieredConfirmQueue.ts` | positions, prices, reserve indices, accounts to confirm | apply event, reconcile, confirm, flashblock tick, evict | event layer, orchestrator | reads from the chain that end after newer events were applied |
| `monitors/partialBootstrapSweep.ts`, `onChainBorrowerDiscovery.ts`, `bootstrapSnapshotStore.ts`, `bootstrapDiscoveryCache.ts` | two files, the sweep in progress | discover, filter, seed, save | event-purity stack | chunks, retries, clients, crash between any two steps, a file that says more than it should |
| `oracle/aaveOraclePrice.ts`, `healthyPegAsset.ts`, `pegPriceNormalizer.ts`, `oracleCoverage.ts` | none of their own: the model's prices and feeds | gap fill, refresh, peg | local position model, feed poll | refreshes that overlap each other and feed updates |
| `monitors/shadowValidator.ts` | budget, concurrency, buckets | sample | local position model | counters at their limit over a change of day |
| `monitors/nearLiquidationAcceleratedPoller.ts` | samples by account | poll, project | orchestrator | polls that overlap, samples out of order |
| `monitors/eventDrivenWatchlist.ts`, `watchlistCoordinator.ts`, `boundedWatchlist.ts`, `utils/blockCursor.ts` | watched borrowers, cursor | live logs, gap replay, sweeps | detection, orchestrator's staleness guard | cursor against a replay in flight, reorg-safe depth, sweeps that overlap |
| `monitors/flashblocksWsClient.ts`, `MultiWsEventSource.ts` | sockets, subscriptions, timers | connect, subscribe, reconnect, promote | event layer, detection | timers that stack, requests lost with their socket |
| `monitors/hybridDetectionPipeline.ts`, `reserveAwareBorrowerCache.ts`, `rescanCircuitBreaker.ts` | snapshots with an index by reserve, breaker copies | reserve event, poll, prune | orchestrator | refreshes that end out of order, breakers that never close |
| `utils/singleInstanceLock.ts`, `GracefulShutdownCoordinator`, `scripts/ensure-single-bot.mjs` | a file; hooks | acquire, release, stop all | start-up, shutdown | several processes between two file operations, pids used again, crashes |
| `utils/priceOracleCache.ts` | prices, reads in flight | get, batch, poll, invalidate | profitability, scanner | shared reads against invalidation |
| `orchestrator/liquidationCandidateGate.ts` (decisions), `profitability/`, the builders of `executors/` | the router's cache | filter, build a request, select a lender | orchestrator, executor | a price that cannot be read, a cached answer for another request, subtractions where a negative result is zero |
| `protocols/` | the cursor over the subgraph's borrowers | list a page, read an account | detection | a page at a time, a choice of one reserve pair |
| `index.ts`, `bot.ts`, `config/` | the wiring | start, shutdown hooks | everything | which account, which callback, which breaker is passed |

What makes the components correct, in one line each:

* nonces: two executions in flight never hold the same nonce, one that was
  broadcast is not handed out again, and a nonce that was not broadcast comes
  back, so that no gap blocks the later transactions;
* breaker: it opens on a run of failed simulations, is always going to close,
  and closes only after a full pause;
* pipeline: failures of a borrower do not turn into a storm of retries, an
  arbitrage is worked on once, an open breaker stops new executions;
* ingestion: after a restart no event at or below the checkpoint was missed,
  a gap fill brings what was lost while disconnected, and an event is applied
  once;
* positions: no account is judged by half of its balances, a health factor stays
  near what the chain said last, risky positions are kept, and one that falls
  below 1 is confirmed with the chain;
* prices: a position is judged with one dollar, and who forces a refresh gets a
  price read after the call;
* watchlist: a replay leaves no event behind, an answer that comes late brings
  nobody back, the list outgrows its limit only by what is recent;
* sources: somebody is listened to while the source runs, a delivered log is
  reported, and the endpoint that answers ends up subscribed;
* detection: the index says what the snapshots say, and who recovered stops
  being a candidate;
* bootstrap: who owes and was named by an event of the lookback is seeded;
* process: one holder of the lock;
* scanner, poller: an approved opportunity is not lost, nobody is urgent whose
  health factor never fell;
* economics: what is kept pays for itself, what is answered is the best route,
  and a liquidation that pays is executed.

`PROJECT.json` lists every component with its status, and the hazards with the
line each bites at and the properties that would notice it.

## 2. Plan

Done, in this order; each with its runs:

1. `NonceManager`, `SafeExecutor` and their proofs.
2. `ExecutionBreaker`, `Pipeline` and their proofs.
3. `EventIngestion` and its proofs: event layer, checkpoint, crash and restart.
4. `PositionModel`: first touch, snapshots, eviction, tiers, the confirm queue.
5. `Watchlist`: cursor, gap replay, sweeps.
6. `Detection`: snapshot cache with its index, breakers, rescans, the paged scan.
7. `EventSource` and `WsTransport`, which implements it.
8. `Lifecycle`: the instance lock, shutdown, the script that stops a bot.
9. `OracleCache`, `Bootstrap`, `ArbScan`, `NearLiquidation`, `Shadow`.
10. `Profitability` and its proofs, `PegPrices` and its proofs.
11. Proofs of `PositionModel`, and of `Watchlist`, `Bootstrap`, `Lifecycle` and
    `ArbScan` (`MonitorsProofs`); `DedupWindow`, `CheckpointNotAhead`,
    `GapsAreRecoverable`, `AtRestOnlyBroadcastReserved`.
12. Proofs of `OracleCache`, `Detection`, `NearLiquidation`, `Shadow` and of the
    steps of `WsTransport`.
13. Types of `Watchlist`, `Bootstrap`, `ArbScan` and `Profitability`, and the
    composition `MCMonitors`: every invariant and every safety property of a passing
    run is now a theorem. `NoLiquidationSelected`: a finding for all constants.

Left:

* the disk backend of the checkpoint as file operations, next to the Redis one;
* reconnects of the flashblocks client with their backoff and the requests lost
  with a socket.

## 3. Modules

| Module | Models | Composition |
|---|---|---|
| `NonceManager` | `nonceManager.ts`, and what its callers may do | abstract specification of the next |
| `SafeExecutor` | `execute()` and everything under it | extends `NonceManager`; property `NonceSpec` |
| `ExecutionBreaker` | `simFailureCircuitBreaker.ts` with its timer | abstract specification of the next |
| `Pipeline` | `runOnce()` by concurrent callers, gate, cooldowns, queue | extends `ExecutionBreaker`; property `BreakerSpec` |
| `EventIngestion` | event layer, stores, start-up, crash | stands alone; what an event does is in the next |
| `PositionModel` | `localPositionModel.ts`, `eventPurityStack.ts`, reconciliation, confirm queue, tiers | stands alone |
| `PegPrices` | prices without a feed: gap fill, refresh, the peg of USDbC | stands alone; feeds in general are in `PositionModel` |
| `Watchlist` | `watchlistCoordinator.ts` and the list, cursor and sweeps it owns | with the wiring that has no event-purity stack |
| `Detection` | hybrid pipeline, borrower cache, rescans, paged scan of `aaveV3.ts` | with the wiring that has no event watchlist |
| `EventSource` | what a source of pool events promises | abstract specification of the next |
| `WsTransport` | `MultiWsEventSource.ts` | property `SourceSpec`: `INSTANCE EventSource WITH` |
| `OracleCache` | `priceOracleCache.ts` | stands alone |
| `Bootstrap` | `partialBootstrapSweep.ts`, discovery, both files | stands alone |
| `Lifecycle` | lock file, `main()`, shutdown, `ensure-single-bot.mjs` | stands alone |
| `ArbScan` | scanner, quotes, mirror, opportunity queue | `Pipeline` drains the queue |
| `NearLiquidation` | accelerated poller, regression | stands alone |
| `Shadow` | `shadowValidator.ts` | stands alone |
| `Profitability` | decisions of the gate, request builders, engine, router | `SafeExecutor` has the rest of an execution |
| `...Proofs` | theorems about the module of that name; `PipelineProofs` also about `ExecutionBreaker` | extends it |
| `MonitorsProofs` | theorems about `Lifecycle`, `Bootstrap`, `ArbScan`, `Watchlist`, `OracleCache`, `Detection` and `NearLiquidation` | extends them |
| `MCMonitorsProofs` | theorems about `WsTransport`, `Shadow`, `PegPrices`, the types of `Watchlist`, `Bootstrap` and `ArbScan`, and the composition | extends `MCMonitors`, `MonitorsProofs`, `ProfitabilityProofs` |
| `MC...` | constants for TLC | extends it |
| `MCMonitors` | one instance of each module from `Watchlist` on, and of `PegPrices` | each behaviour exercises one of them |

`MCMonitors` runs eleven modules that share no variable: they meet through values
that each takes as inputs. The product of their states would say nothing that
the parts do not, so the variable `part` picks one of them for a behaviour, and
the others stay where they start.

A definition named `D_Something` next to a definition `D` is a mutant: what `D`
would be with a plausible bug. No specification uses one; each is there because
replacing `D` by it breaks the property that `PROJECT.json` pairs it with.

### NonceManager

The `Map` of the manager has one key per wallet and chain; the model has one
key. A `NonceState` object is an identity of its own (`Gens`), because
`reserve()` keeps the object it captured across an await while `resync()` or a
failed initialisation puts another one into the Map. `cur` is what the Map
holds; `phase` is the promise `initialized`; `nextNonce`, `released`, `active`
are the fields of each object. `released` is a set: the code keeps the array
sorted and takes its smallest element. An execution's reservation is `lease`
with `gen` (the captured object) and `nonce`.

`ReserveCall` is `reserve()` up to its await, `InitAnswer` and `InitFails` end
the pending-nonce read, `TakeReleased` and `TakeNext` are the rest of
`reserve()`, `Release` is the reservation's `release()`, `Resync` is
`resync()`. `Keep` is a caller that never gives its nonce back.

### SafeExecutor

`execute()` of one request is a counter over its awaits (`step`):
`preflight` (nonce, route and gas price in one `Promise.all`) ->
`unwinding` when one of the three failed, to give the nonce back ->
`checks`, the stages between preflight and the send in the order the code has
them (`Checks` lists the configured ones; each can reject and all but the final
simulation can throw) -> `send` -> `replace` / `receipt` /
`replaced_receipt` -> `resync` when a send failed. A send that throws may have
reached a mempool (`onWire`), which the code cannot know. The chain's pending
nonce, `VisiblePending`, is any value between the mined nonce and what the
mempools hold.

Left out: gas price arithmetic, calldata, metrics. The receipt never reports
"underpriced" with `ViemExecutionClient`; the branch is modelled because the
interface allows it.

### ExecutionBreaker and Pipeline

Time passes in ticks. `RecordSimFailure`, `RecordSuccess`, `TimerFires` are the
methods of the breaker and its timer's callback.

`Pipeline` has a program counter per caller of `runOnce()` (`stage`), the
opportunities its stage has still to look at (`todo`) and those that passed
(`kept`). What a cycle finds and how an execution ends are nondeterministic;
`Finish` is `recordExecutionResult` with both of its effects, breaker and dead
letter with cooldown. `rejectBeforePreview` of a liquidation is two steps with an
await between them: `CheckCooldown` (or `RejectBlocked`) looks at the cooldown,
and the stage `preview` waits for the gas cost, which ends in `FailGasCost`,
`RejectDust` or `PassPreview`, the start of the simulation. `RequestAccount` is
the account in an execution request, any one for the proofs; the runs use
`WalletRequests`, the wiring of `index.ts` (1487, 1501, 1518, 1851). `penance`
and `retries` are history: for how long the last failure of a borrower counts,
and how many simulations of it began in that time.

### EventIngestion

The chain announces logs in flashblocks and mines them into blocks; the two
subscriptions put copies of a log on the socket's wire, with different
deduplication keys when a pending copy has no block number (`Numbered` are the
logs whose copy has one). `Deliver` is `handleRawLog` up to its await,
`HandlerDone` what follows. A gap fill is a record with its program counter:
`BeginFill` loads the checkpoint, `ReadHead`, `FetchLogs`, then per log
`SkipSeen` or `TakeLog` and `LogDone`, `ChunkDone`. Several fills run at once
when connections follow each other. `StartRefresh` and `RefreshDone` are the
reserve-index refresh of the flashblock clock, which also writes the
checkpoint. `BootFromChain` and `BootFromSnapshot` are
`EventPurityStack.start()`; `Crash`, which is no code, keeps the two stores only.

Only the number of times a log is counted is modelled, not the balance it
changes. Reorganisations are outside: `handleViemLog` ignores `log.removed`.

### PositionModel

Two reserves, one collateral whose price moves and one debt of price 1, are what
a health factor needs. The chain has balances, price and head; pool events wait
on `wire` and are handled in order, one task at a time or several
(`eventPurityStack.handleEvent` awaits). `HandleFirstTouch`, `HandlePoolEvent`,
`HandlePrice`, `HandleLiquidation`, `HandleIndex` are the handlers;
`ReadTotals`, `ReadBalances`, `FinishSeed` the reconciliation at the first touch,
in which totals and balances are read at different blocks; `StartAggregates`,
`FinishAggregates` the multicall of the flashblock tick, `ConfirmRow` one answer
of a confirmation; `StartPoll`, `FinishPoll` the feed poll; `FailTask` a request
that throws, and what it loses. `MemoryPressure` evicts. The health-factor policy
(local value against the last one of the chain) and the tiers are operators.

### Watchlist

`cursor` is what the cursor store holds, `watchlist` the bounded list,
`replay` the gap replay in flight with its chunk bounds, `sweeps` the sweeps in
flight, of which the code lets several run (`pollBorrowers` bypasses the
guard). `Discover`, `Seed`, `LookbackDone`, `StartPrune`, `Prune`,
`ColdSweepDone`, `LoadCursor`, `Watch` are `start()`; `handled` is a history
variable. The staleness guard of the orchestrator calls `pollBorrowers`; it is
`CycleSweep`, at any time.

### Detection

`borrowerCache` holds the snapshots, the order of the Map (`before`, the pairs of
accounts of which the first was put in earlier), who is older than the time to
live, the index by reserve and the count, each updated where the
code updates it. `ReserveUpdated` is a reserve event (list the accounts of the
first reserve pair on the current page, refresh each with the pair that is best
for it), `PollFallbackStarts` the poll (a page of the subgraph from the cursor
on, with the first pair), `RescanStarts` a rescan behind its breaker. `TaskMoves`
is the next await of any of them. `breakers` are the copies the hybrid pipeline
makes; nothing closes them.

### EventSource, WsTransport

`EventSource` is what `PipelineDetectionSource` relies on. `WsTransport` counts
watcher sets that are open, those whose stop function is still known, timers
and intervals by provider, because the code replaces and forgets some of them.
Delays are free: a timer that is armed may fire at any time. `Alternate` is the
first endpoint of another URL, of another host if there is one. `EventSource!Steps` are the promise without its liveness, `EventSource!Spec`
with it.

### OracleCache, PegPrices

A price in `OracleCache` is the round it comes from, with its age; a call is a
record with its program counter (`GetUsdPrice`, `BatchGetUsdPrices`,
`ForceRefreshUsdPrices`, then the answers). A request is a set of tokens, whose
feeds and fallbacks are read in any order. `inFlight` maps a token to the reader
whose promise others share, so that a read that was dropped by a forced refresh
can still end and store what it has.

`PegPrices` has the gap fill at the start, refreshes of a timer that overlap
(`RefreshStarts`, `PricesFetched`, `PegFetched`), updates of the USDC feed, and
the recomputation of a position with USDbC. `judged` holds the two prices that
the last recomputation used.

### Bootstrap, Lifecycle

`boot` is where the sweep of the process is, `snapshot` and `discovery` are the
files, `Stops` is a crash or an exit between any two steps. `scan`, `steady` and
`unread` are history variables.

`Lifecycle` has one step per file operation of `acquire` and `release`; a file
that is unlinked while it is open is written to in vain. `PidOf` gives two
processes the same pid, one after the other. `contended` remembers who was at
the file while another was.

### ArbScan, NearLiquidation, Shadow

`ArbScan` is one poll at a time with its workers; every await of a worker
(`TakeRoute`, `QuoteAnswers`, `Simulated`, `PriceAnswers`, `Evaluated`) is a step.
What quotes, simulations and the engine say is free. `NearLiquidation` computes
the regression of `hfLinearRegression.ts` in integers over a common denominator;
its sums are a recursive function on the length of the sequence (`SumOf`).
`Shadow` has the sampler's rates, budget and cap; it has no property of its own
beside its types, where the budget and the cap are ranges.

### Profitability

One execution passes the gate (`GateStarts`, `DebtPriced`, `GateEnds`), becomes
a request (`BuildRequest`, or `ArbitrageDrained` from the scanner) and asks the
router, which answers from its cache or tries each lender
(`RouteCached`, `RouteStarts`, `EvaluateLender`, `LenderUnquoted`, `RouteEnds`).
Dollars are divided into `Bps` parts, so that rates are exact; the code has 8
decimals and rounds down.

## 4. Runs

| Run | Bounds | Shows |
|---|---|---|
| `executor_safety` | 3 executions, 4 `NonceState` objects, pending nonce up to 3, one stage of each kind | held nonces are unique unless a resync overlapped another execution; a reusable nonce was not broadcast; one broadcast per nonce until a send fails; gaps below a broadcast nonce can be filled; at rest exactly the broadcast nonces are reserved; `execute()` implements `NonceSpec` |
| `executor_liveness` | 2 executions, all seven stages | reservations settle, executions end |
| `unique_nonces` | as the first | violated: see findings |
| `pipeline` | 2 cycles, 2 borrowers of which 1 is the operator, 1 arbitrage, threshold 2, pause 1 tick, cooldown 2 ticks | overshoot bounded, pause long enough, fewer retries of a failed borrower than cycles, `Pipeline` implements `BreakerSpec`, an open breaker closes, cycles end |
| `borrower_cooldown` | 2 cycles, 1 borrower | violated: see findings |
| `ingestion_safety` | 3 logs in 2 blocks, 2 gap fills at once, chunks of 2 blocks, window of 2 keys, 1 drop, 1 restart | a gap fill leaves nothing uncounted behind it; a log is counted again only after its key was evicted; only the clock puts the checkpoint past the head |
| `restart_loses_nothing` | the same with a window of 3 | violated: see findings |
| `positions_safety` | 2 accounts, cap of 1 position, 2 tasks, 2 events, 3 prices | no health factor from partial balances; the local one stays near the last of the chain; a risky position is not evicted for being quiet |
| `positions_liveness` | 1 account, 2 tasks that cannot fail, 2 events, 3 prices | who falls below 1 is confirmed with the chain in the end |
| `monitors` | the eleven parts, below | what section 1 says of each of them |
| `profitable_selected` | 2 executions, 1 liquidation, 2 lists of lenders | violated: see findings |
| `sole_holder` | 3 processes of which 2 have one pid, the script, 1 hook | violated: see findings |

The parts of `monitors`:

| Part | Bounds | Properties |
|---|---|---|
| watchlist | 2 borrowers, a list of 1, 1 sweep, 1 change of a health factor | `ReplayCovers`, `NewEntriesUnread`, `OverfullIsRecent` |
| transport | 2 endpoints, batches of up to 2 logs, window of 1 key, 1 timer counted | `SourceSpec`, `FailsOver` |
| detection | 2 accounts, 2 reserve pairs, pages of 1, cache of 1, 1 task, 1 change on the chain | `RecoveredIsDropped` |
| oracle | 2 tokens of which 1 has a feed, 2 callers, 1 new round | `OraclePromise` |
| bootstrap | 2 debtors, 3 blocks in chunks of 2, 2 clients, 2 attempts, restarts without bound | `SweepMissesNone` |
| lifecycle | 3 processes of which 2 have one pid, the script, 1 hook | `SoleUnlessContended` |
| arbitrage | 1 route, 2 probes, 2 workers, queue of 1, 2 ticks | `ApprovedIsAccounted` |
| near | 2 accounts, 2 polls at once, 2 samples | `UrgentHasFallen` |
| shadow | rate, cap and budget of 2, 2 days | types |
| profit | 2 executions, 1 liquidation, 2 arbitrages with one loan, 2 lists of lenders, 1 tick of the cache | `KeptPaysOff`, `AnswerIsBest` |
| pegs | 1 asset of the Aave oracle, 2 prices, 2 refreshes at once, 2 hours | `JudgedAtPeg` |

Why the bounds are enough. Three executions are what a stale release needs: one
holds, one resyncs, one reserves from the new object. Four objects allow two
resyncs and a failed initialisation. Two cycles give every race of the
pipeline, since it has pairwise conflicts only (one drains what the other
looks at, one fails while the other is in preflight or has just looked at the
cooldown), and a threshold of 2 tells a run of failures from a single one. With
the wiring of `index.ts` the gates that ask for the borrower's own account can
only block the operator's own position, which nothing keeps off the watchlist:
it is the second borrower. The cooldown outlasts the pause, as the defaults do
(600 s and 60 s). A log before and two logs in the
second block give chunks with and without logs, two logs with one block number,
and a checkpoint in the middle; a window of 2 for up to five keys evicts while
gap fills run. The proofs below lift the bounds for the properties they cover.

Two accounts and a cap of one make every insertion an eviction; prices 19, 21
and 38 are one below, one just above and one far above what makes a full debt
liquidatable; from 38 to 19 is the fall past both bands. Two arbitrages that
borrow the same, of which one is rejected by every lender, tell a cached answer of
the one from an answer for the other. A list, a cache, a page and a window of one reach their limits with
the second entry, which is all the code distinguishes. Two callers, polls,
workers or refreshes are enough for a pair to overlap, and the properties are
about pairs. Watchlist has one sweep and
Detection one task in flight in this run, to keep it within minutes: an answer
that was read before and lands after an eviction, a prune, a live event or a
change on the chain is there, two answers that overtake each other are not. Three
processes are what the lock needs for one to take a stale file from a second
while a third starts.

`CHECK_DEADLOCK FALSE` is set where the system may stop: when all executions
have ended, when the chain has reached its last block or the clock its last tick
with nothing left in flight, or when processes have stopped.

## 5. Fairness

`SafeExecutor`: weak fairness on every await of an execution that started. RPC
reads and sends end by the transport's timeout, `waitForReceipt` by its own.
Nothing is assumed of when executions start, nor of mining.

`Pipeline`: weak fairness on each cycle's next step (the same awaits), on the
timer's callback and on time. Nothing is assumed of how often cycles start or
what they find.

`EventIngestion` states no liveness property.

`PositionModel`, for `positions_liveness` only: weak fairness on the handlers'
awaits and strong fairness on the aggregate refresh of the flashblock tick. In the
code a tick starts its refresh whatever else is in flight; the slots of the model
(`Tasks`) are a bound, and polls, which come one after the other, leave one free
again and again but not for good. Requests do not fail in that run (`MayFail =
FALSE`): of a dead node nothing is claimed.

`WsTransport`: weak fairness on a log of a batch in progress, on silence (a
provider that does not answer is not heard of), on heartbeats, which are
intervals, and on reconnect timers. Nothing is assumed of endpoints; `FailsOver`
has its condition in the formula.

`Detection`: weak fairness on awaits, on the cycle that lists snapshots (the run
loop), on the cooldown of the rescan breaker and on ageing. Reserve events and
polls need not come.

## 6. Proofs

All theorems hold for every value of the constants that satisfies the named
assumption of their module.

`NonceManagerProofs`. The inductive invariant `IInv` adds to the types which
object the Map can hold while one initialises (`GenInv`), that handed-out
nonces of an object lie below its `nextNonce` and are active or released but not
both (`PoolInv`), and that unless a resync overlapped another execution
everyone in flight works on the Map's object (`LiveInv`). Uniqueness alone is
not inductive: a nonce could be in `released` and held at once.

`SafeExecutorProofs`. `SpecRefines` maps every step of `execute()` to a step of
`NonceSpec`, so that the theorems above carry over. `ExecInv` adds where an
execution is against what it holds, and follows a nonce after its execution
ended: who has it on the wire still owns it. `GapsAreRecoverable` needs in
addition (`GapInv`) that an active nonce of the Map's object has an owner unless an
execution threw, and that what the chain waits for below the object's first nonce
is in a mempool; `AtRestOnlyBroadcastReserved` follows from the same invariants.

`PipelineProofs` (with the breaker's own proofs in front). The breaker's invariant is that a
pending timer and the time since the last failure add up to the pause. The
pipeline implements the breaker's specification, which gives `OpenIsTimed` and
`OpenLongEnough` for any number of cycles. The overshoot is bounded because
failures counted plus executions in flight never exceed what they can be when
the breaker is closed (`FlightBound`): a failure moves one unit from the second
to the first, and nothing enters while the count is full.
`ArbitragesExclusive` is inductive with the types. `RetriesStayBounded` holds for
any `RequestAccount`: its invariant (`RetryInv`) says that the account of a
borrower's requests cools down for as long as its failure counts, and that the
simulations begun in that time, together with the cycles that had looked at the
cooldown and still wait for the gas cost (`Checked`), are fewer than the cycles.
The cycle that failed is in neither; a simulation moves one unit from the second to
the first; and nobody joins the second while the account cools down. Neither part
is inductive without the other.

`EventIngestionProofs`. `FillCovers` speaks of a fill between two awaits; its
invariant `FillSound` also says what is left of the current chunk, that a
remembered key stands for a counted log (`SeenCounted`, which eviction cannot
break), and that a process that is off has no fill (`OffIsIdle`), so that the
start block of a fill does not change under it. `DedupWindow` counts: a
log that was counted has its key in the window as far from the end as marks were
made since (`SeenInv`), so that it goes only when `DedupCap` others have come.
`CheckpointNotAhead` needs that what is confirmed on the wire, handled or fetched is
of a block there is (`BehindHead`).

`PositionModelProofs`. `PositionInv` has the types, with those of what is on the wire and
of the answers that tasks carry across an await, and says of every position that it
is `Sound`: not judged before it was seeded, and near the chain's health factor
after. Each way a handler builds a position is a lemma (`JudgedSound` is the last of
them). `AtRiskKept` looks at each place that deletes: who is evicted for being quiet
is healthy, and the hard cap takes no more than exceed it.

`MonitorsProofs` has a section for each component; they share no state.
*Lifecycle*: `LifeInv` says of a process nobody was at the file with
that what it read or wrote is what the file has, and of one that holds the lock
that the file says its pid and nobody is about to change it.
*Bootstrap*: `BootInv` follows the accounts a scan owes from stage to stage: in the
events still to ask for (`LogsAsked`), in the list or the rows or the model
(`Carried`), or in the file the next process starts from (`SnapshotCovers`,
`DiscoveryCovers`).
*ArbScan*: `ArbInv` says that no two candidates of one tick have one signature
(`FlightsDiffer`), that no candidate on its way is known to the queue
(`FlightsUnknown`), and that whoever has a signature of this window has it in
`signed`. The proof showed that the property fails once `stop()` was called: it
clears the signatures while workers go on, two of them can then approve one
signature in the same tick, and the queue keeps one. The history variable
`stopped` is in the property since.
*Watchlist*: `WatchInv` is the types and `ReplayCovers`; `NewEntriesUnread` and
`OverfullIsRecent` are one relation between the list before and after (`Grows`),
proved of a single `add()` and of a run of them. `ListAll` says what a run of
`add()` leaves, for any order, without recursion; TLC has shown it equal to the
loop for limits from 1 to 4.
*OracleCache*: a forced call keeps the rounds there were when it was made (`since`).
`OracleInv` says that what a call has read but not scaled is no older (`Recent`),
nor is what it has got (`GoodAnswer`), and that who waits for the promise of another
call asked for no round: a forced refresh has dropped the promises there were. With
only the cache dropped the invariant fails, as the mutant of `Dropped` does. A cached
price of a feed is older than `maxStaleMs` by no more than the time it was held.
*Detection*: `CacheOK` joins the index and the count (`IndexOK`) with the order:
`before` is a strict total order of the accounts that have a snapshot. `IndexAlwaysMatches`
needs only the first; that the cache is never over `maxEntries`
(`CacheStaysBounded`) needs the order, since what is evicted is counted by rank:
of those that stay the earliest has all that go before it (`ExcessIsEnough`). Runs
of `upsert` are a recursive function; that it is the one its equation says, and
that it keeps the cache, is shown by induction (`CachesFollow`).
*NearLiquidation*: `FallsMeansFell` is the inequality of Chebyshev. The numerator of
the slope of k samples grows with sample k + 1 by the sum over i of
(t - t_i)(h - h_i), of which no term is negative while neither times nor health
factors fall (`RisingTogether`); so the line falls only if some sample is below an
earlier one. `NearInv` has what this needs of the clock: samples are in the order
of their times, and there are never more than `MaxSamples` (`TracksBounded`).

The library's induction over numbers takes an operator as a parameter. Where an
induction was needed (the two recursive functions above) it is stated for a set
instead (`NumbersFollow`), and proved from the well-foundedness of `<`: the least
number outside the set would follow one inside.

`SourceKeepsSteps`, in `MCMonitorsProofs`: every step of `WsTransport` is one of
`EventSource` or a stutter under the mapping of `Abstract`. `SourceInv` adds to the
types that the sets of watchers that are open are those it can stop, at most one of
each provider, that one is open while the source runs (`Listens`), and that a source
that does not run has no timer left that could open one (`AtRest`).

`ShadowCapsHold`, in `MCMonitorsProofs`: the types of `Shadow` are its promise,
the cap and the budget; they are inductive with the shape of the buckets.

`PositionsJudgedAtPeg`, in `MCMonitorsProofs`, needs to know of every state, whatever
gap fills are in flight, that USDbC has no price while USDC has none, and that
the USDC price which a refresh has kept across its request is a real one: a
refresh writes the price of then to USDbC, which may be old, but a recomputation
aligns it first. `JudgedAtPeg` alone says nothing of the prices between two
recomputations.

`ProfitabilityProofs`. `GateInv` carries the debt of a candidate from the price it
was computed with to the floors; that five quarters of the costs are less than
the bonus implies the property by arithmetic, also where there are no costs,
since the dust filter leaves no debt of zero. `RouteInv` is the loop invariant of
the router (the answer so far is the best of the lenders so far) together with
what the cache holds: the best of all lenders for the request it is keyed by.
The key must be the whole request for this to be inductive.
`NoLiquidationSelected` is the finding of `profitable_selected` for all constants:
the bonus is at most the loan, which is among the costs, so nothing is left of it,
and no lender approves (`NoLenderApproves`). `BuiltInv` carries from the gate to the
answer that the request is that of an offer, and that all lenders had quoted.
`ProfitTypeCorrect`: each lender tried, answered or cached is one of the chain's.

`MCMonitorsProofs`. The types of `Bootstrap` (`BootBounds`) are a count: seeded
accounts, rows that wait and what is still to do are together no more than the
borrowers there are (`SeedsCounted`), so that nobody is counted as seeded twice. For
`ArbScan` the bound of the queue comes from `ArbInv`, those of the times from the
clock. For the composition, `PartsStep` says that a step of `MCMonitors` is a step of
one component and leaves the variables of the others alone;
`PartsKeepSpecs` concludes that every component keeps its own specification,
`MonitorsTypeCorrect` and `MonitorsKeepPromises` that the invariants and safety
properties of the run hold of the composition.

`OpenIsTimed`, the disjoint pools of a `NonceState`, the deletion of its own state
by a failed initialisation, `ArbitragesExclusive` and `IndexMatches` are proved and no
longer among the properties of a run.

Only model-checked: the liveness properties (`ReservationsSettle`,
`ExecutionsEnd`, `BreakerCloses`, `CyclesEnd`, `BelowOneIsConfirmed`, `FailsOver`,
`RecoveredIsDropped`, and of `SourceSpec` that what is pending is reported in the
end), since liveness under fairness is out of the prover's reach; and the five
violated properties, each of which is a counterexample.

## 7. Findings

Each is a run that TLC ends with a counterexample.

* `unique_nonces`: `resync()` replaces the state of the key whoever else is in
  flight (`nonceManager.ts:58`). Another execution then holds a nonce that the
  new object hands out again, against
  `test/integration/safeTransactionExecutor.chaos.test.ts:38` ("preserves
  unique nonces"). `UniqueUnlessOverlap` is what does hold, and is proved.
* `borrower_cooldown`: the dead letter blocks `request.account`, which
  `index.ts` sets to the operator's address; the failed borrower is not
  blocked, and the preview gate of every liquidation is
  (`pipelineOrchestrator.ts:429`, against `borrowerCooldownPolicy.ts:1`).
* `restart_loses_nothing`: the bootstrap snapshot is written once and reused
  for `cacheTtlHours`, while the checkpoint moves with every log. A restart in
  between seeds old balances and fills from the new checkpoint
  (`partialBootstrapSweep.ts:214`, `wsEventLayer.ts:113`).
* `profitable_selected`: the request of a liquidation has the bonus as revenue and
  the whole loan as cost (`liquidationExecutionAdapter.ts:60-61`), so that its net
  profit is zero and every lender rejects it, against `README.md:305`. The run shows one
  such liquidation; that all are rejected is the theorem `NoLiquidationSelected`.
* `sole_holder`: the lock file is created empty and written afterwards
  (`singleInstanceLock.ts:45,51`). A second start that reads it in between finds no
  pid, unlinks it and creates its own: both run, against `singleInstanceLock.ts:16`
  ("exclusive"). `SoleUnlessContended` is what does hold, and is proved.

Seen while modelling; each is in the model, or follows from the lines named, and
is not the subject of a run:

* Executor: a stage that throws after preflight keeps its nonce reserved
  (`safeTransactionExecutor.ts:261-264`, `Leaked`). The preflight of the health
  factor reads the operator's account, not the borrower's
  (`index.ts:746-765`). A gas cost of zero makes the capital zero and the request
  rejected.
* Pipeline: a cooldown that starts while the preview waits for the gas cost is not
  seen any more (`index.ts:731-735`); `RetriesBounded` says how often that can be.
* Positions: a position known to the model that one price takes from above the
  watch band to below 1 has the tier "liquidatable", which `handleTierChanges` does
  not queue (`eventPurityStack.ts:524-530`). The refresh of every 1800th tick
  confirms it (`BelowOneIsConfirmed`), and hands it to nobody
  (`eventPurityStack.ts:640-697`).
* Breaker: in live mode nothing resets the count of failed simulations, since
  `recordSuccess()` is called for dry runs only (`pipelineOrchestrator.ts:392`).
* Ingestion: the gap fill of `start()` replays the lookback on top of balances
  read from the chain, which contain it (`wsEventLayer.ts:113`). A log mined between
  the head read of a gap fill and the activation of the subscription reaches
  neither. The clock saves `head + 1`, so that a later gap fill can skip that
  block. A reconnect whose subscriptions failed leaves an open socket that
  receives nothing.
* Prices: `applyFeedPriceUpdate` accepts an older round than it has. Refreshes of
  the gap fill overlap (`index.ts:1241-1250`) and may write older prices over newer
  ones. Prices of the Aave oracle and of the peg are never too old, so that a
  USDbC position is judged with a USDC price that is refused for USDC itself
  (`localPositionModel.ts:944`). A refresh recomputes no tier, although
  `aaveOraclePrice.ts:216` says that a tier is recomputed when a price lands. When
  a feed was stale at the start, the flag that prices are there is never set
  later. The sanity gate compares the oracle with itself (`index.ts:615-617`).
* Watchlist: accounts that only a sweep finds below 1 are not put into the
  detection cache (`index.ts:860-868`, `watchlistCoordinator.ts:144-146`), against
  `docs/VALIDATION_RUNBOOK.md:91`.
* Detection: a reserve event lists only the accounts of the first reserve pair on
  one page, so that an event of another reserve lists nobody; a poll reads one
  page per call, so that a borrower enters the cache when the cursor reaches its
  page; polls store the first pair, refreshes the best one; the breakers of
  detection open and never close (`hybridDetectionPipeline.ts:60,182`).
* Sources: with three endpoints, two dead ones can name each other as alternates
  for ever.
* Flashblocks client: the promise of a `connect` settles in its socket's open
  handler only (`flashblocksWsClient.ts:97-108`). When the first socket closes before it
  opens, a later one serves, but `start()` never returns.
* Scanner: it polls on after `stop()` during a poll (`arbitrageScanner.ts:210-211`).
  The mirror is asked with the router of a dex while its pools are keyed by the
  address of the pool (`quoteEngine.ts:77-106`). A signature is taken before the
  opportunity is approved, so that a rejected one is not tried again within the
  window.
* Lock: two starts that meet a stale file can both get it as well
  (`singleInstanceLock.ts:35-50`); `contended` covers that case too. It is released at the
  signal, before the hooks are done (`index.ts:1903`).
* Economics: an arbitrage is approved only if its gain exceeds stake and costs.
  The fee of a lender is a flat amount in USD per basis point
  (`index.ts:1224-1234`). A candidate without a bonus is judged with 500 basis
  points by the gate and with none by the builder. `uniswapV3` among
  `FLASH_LOAN_PROVIDERS` has no fee quote and makes every route throw
  (`LenderUnquoted`).
* Contracts against the bot: the adapter encodes seven fields with the route type
  first (`liquidationFlashLoanReceiver.ts:4-27`) where `LiquidationFlashReceiver.sol`
  decodes five (98-99); readiness requires receiver version 1 while the contract
  says 2 (51).

## 8. Not modelled

`PROJECT.json` gives the reason for each component. In short:

* `HealthFactorMonitor`, `LiquidationExecutor` and the `LiquidationBot` of `bot.ts`:
  the older path, which the pipeline is wired without.
* `FlashblockPrimaryLoop`: `index.ts` starts it only without the event-purity
  stack, and the flag that enables it creates that stack.
* The adapters for Morpho and Moonwell: no callers.
* Ranking scores and drift figures: floating point, or only reported. In
  `Pipeline` the order they induce is a choice.
* Calldata, decoding of RPC answers, logging, metrics, run summaries.
* The disk file of the checkpoint: it is one register, so that a torn write is
  outside; so are the path of the bootstrap that skips the discovery of logs, and
  the backoff and the request timeouts of the flashblocks client.
* Reorganisations: the code ignores `log.removed`; the reorg-safe depth of the
  cursor is in `Watchlist`.
* Contracts keep no state between two transactions; the Rust hot path, the
  scripts but one, and deployment are separate programs.
