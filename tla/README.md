# Verification of the funding-rate arbitrage bot

TLA+ modules, TLC runs and TLAPS proofs for the bot in `src/`. The bot earns perpetual
funding by holding a *hedge* (long spot, short perp). What can go wrong is therefore not a
crash but an account whose two legs no longer match. These modules are about that.

`PROJECT.json` gives, for every definition, the source lines it stands for.

## 1. Inventory

| Component | State it keeps | Operations | What is hard about it |
|---|---|---|---|
| **Execution jobs** `worker/execution/` | local variables of one async function | `executeEnterHedge`, `executeExitHedge`, `confirmOrderFill`, `completePartialFill`, `correctDrift` | two legs that cannot be atomic, orders that outlive the job polling them, lost answers, retries |
| **Circuit breaker** `lib/rate-limiter/circuit-breaker.ts`, `worker/execution/execution-circuit-breaker.ts` | state, failure count | `execute`, `isOpen`, `getState` | leaves OPEN lazily, only inside `execute` |
| **Serial queue** `worker/queue.ts` | p-queue, job map | `enqueue`, `cancel`, `cancelAll`, `waitForIdle`, `getPendingCount` | cancelling a running job; promises nobody handles |
| **Evaluation loop** `worker/evaluator/`, `worker/start-worker.ts` | re-arming timer, flags | startup sequence, tick (health, risk, strategy), shutdown | decides on a store that lags the exchange |
| **State store and account reads** `worker/state.ts`, `data-plane.ts`, `reconciler/`, `freshness.ts` | balances, positions, ticker, funding, timestamps | two pollers, overwrite of the store, freshness, reconciliation report | torn, overlapping, failing and late reads; timers that outlive a stop; thresholds that must fit the intervals |
| **Position derivation** `domains/position/` | none | `derivePosition`, `reconcilePosition`, metrics | placeholders (`entryTime`, `marginBufferBps`) |
| **Risk engine** `domains/risk/` | none | `evaluateRisk`, sizing, emergency | which action outranks which |
| **Strategy engine** `domains/strategy/` | none | `evaluateStrategy`, entry and exit signals, trend | thresholds |
| **Order and hedge lifecycles** `domains/state/` | order and hedge records | transition functions | which events are legal when; not called by the worker yet |
| **WebSocket connection** `worker/websocket/websocket.ts` | state, generation, socket, three timers, send queue, stored promise | `connect`, `disconnect`, `send`, socket and timer callbacks | callbacks of old sockets, timers whose handle is lost, promises; not wired into the worker yet |
| **WebSocket data path** `message-queue.ts`, `message-parser.ts`, `health-monitor.ts` | queue and size counter | `enqueue`, `clear`, parse, staleness | a bounded queue at its limit; duplicates told by a cache that forgets |
| **Request policy** `lib/rate-limiter/` | token bucket, breaker, backoff | `execute` with rate limit, timeout, retry | concurrent callers, timeouts that race answers |
| **Scheduler and collectors** `worker/scheduler.ts`, `data-collector.ts` | task map, timers | schedule, cancel, stop, go/no-go check | runs that overlap, an id scheduled twice; percentiles at their boundaries |
| **Exchange adapters** `adapters/` | paper: balances, positions, orders | the `ExchangeAdapter` contract | everything behind it moves on its own |
| **Persistence** `lib/db/` | PostgreSQL | order repository | pure I/O |
| **Server, environment, logging** | none | health endpoints, parsing | no trading decision depends on them |

**How they interact.** `startWorker` builds all of it in one Node process. A timer re-arms
an evaluation two seconds after the last one ended. An evaluation is synchronous: it reads the
store, derives the position, asks health, risk and strategy in this order, and may put ONE job
on the serial queue, whose promise it drops. While the queue holds a job, evaluations do
nothing. A job places orders through the adapter and polls them. Meanwhile the account poll
(30 s) and the reconciler (60 s) each read the account and overwrite the store. Nothing is
persisted, and a rejected promise ends the process.

**What makes each part correct.**

- *Jobs*: a successful entry is hedged; retries cannot multiply the exposure without limit; an
  exit cannot flip the position; the caller can tell from the result which legs were touched.
- *Breaker*: it opens after consecutive failures, stops orders, and recovers as documented.
- *Evaluation loop*: no entry on top of a position; failures stop the entries.
- *Store*: it converges to the account; what is decided on it is safe while it lags; a healthy feed
  never looks stale; nothing goes on after a stop; what a reconciliation overwrites, it reports.
- *Risk, strategy, position*: decisions follow the documented priorities for every input.
- *Lifecycles*: terminal states are final, fills never exceed quantities.
- *WebSocket*: one live socket, callbacks of older generations are inert, it reconnects,
  its queue is bounded.
- *Request policy*: the limit holds for concurrent callers, and a request that has timed out is
  not in effect twice.
- *Serial queue, scheduler*: one at a time, every job settles, a cancelled task stays cancelled.

## 2. Modules

| Module | Models | Built on |
|---|---|---|
| `CircuitBreaker` | the consecutive breaker as a value and operations on it | |
| `HedgeExecution` | one execution job against the exchange | `CircuitBreaker` |
| `Worker` | the process: reads, store, evaluation, crash, restart; composes the job | `HedgeExecution` |
| `WebSocketManager` | the connection manager with every socket, listener, timer and promise | |
| `RequestPolicy` | concurrent calls of `execute()`: token bucket, breaker with its test request, timeout, retry | `CircuitBreaker` |
| `JobSequence` | what a serial queue promises: jobs run one at a time, in order, and settle | |
| `SerialQueue` | queue.ts on p-queue, shown to implement `JobSequence` | `JobSequence` |
| `MessageQueue` | the bounded queue of inbound messages and its counter | |
| `Scheduler` | the task scheduler: intervals, retries, cancel, stop | |
| `HealthMonitor` | staleness of the streams and its report | |
| `OrderLifecycle`, `HedgeLifecycle` | the two state machines of domains/state, fed by an exchange | |
| `DataPlane` | start, stop, intervals, polls in flight, the ticker, every timestamp and `isStateFresh` | |
| `FreshnessGate` | what an evaluation does with data that is fresh or stale | `DataPlane` |
| `Reconciler` | what a reconciliation reports of the store it overwrites | `BigInt` |
| `MessageParser` | handlers and de-duplication of inbound messages | |
| `ImpactAnalysis` | the go/no-go check over sampled impacts | |
| `RiskEngine` | `evaluateRisk`, position sizing, the tick's response | `BigInt` |
| `StrategyEngine` | trend analysis, entry and exit signals, intents over time | `BigInt` |
| `BigInt` | division of bigints | |
| `MCConcurrency` | the six concurrent blocks that share nothing, side by side | `RequestPolicy`, `SerialQueue`, `MessageQueue`, `Scheduler`, `HealthMonitor`, `WebSocketManager` |
| `MCSequential` | the nine components without a liveness property, side by side | `MCHedgeExecution`, the four decision modules, `DataPlane`, `MessageParser`, `Reconciler`, `ImpactAnalysis` |
| `HedgeExecutionProofs` | theorems about `HedgeExecution` | `HedgeExecution`, TLAPS |
| `WorkerProofs` | theorems about `Worker` | `HedgeExecutionProofs`, `Worker` |
| `LifecycleProofs` | theorems about the two state machines | `HedgeLifecycle`, `OrderLifecycle` |
| `DataPlaneProofs` | theorems about the data that comes in | `DataPlane`, `MessageParser`, `Reconciler` |
| `RequestPolicyProofs`, `WebSocketProofs` | theorems about one module each | `RequestPolicy`, `WebSocketManager` |
| `ConcurrencyProofs` | theorems about the queues and the scheduler, and the six blocks together | `MCConcurrency`, the two modules above |
| `SequentialProofs` | theorems about the decisions, and the nine components together | `MCSequential`, the proofs about its components |
| `MCHedgeExecution`, `MCWorker` | constant values for TLC | |

### `HedgeExecution`

Since jobs run one at a time, a job is a program counter (`pc`) plus the order of the job it is
working on (`step`). Each await is a step, and the code between two awaits is one action.

| Action | Code |
|---|---|
| `StartEnter`, `StartExit` | the queue starts a job queued by `evaluate()` |
| `EnterCheck` | enter-hedge.ts 82-123: `isOpen()`, second risk check |
| `ValidatePasses`, `ValidateRefuses` | slippage.ts: liquidity and slippage, a rejected book read |
| `ExitCheck` | exit-hedge.ts 94-107: both sizes positive |
| `CreateOrder`, `CreateRejects` | `adapter.createOrder`; it may reject although the order exists |
| `PollAgain`, `FillTimeout`, `PollRejects` | one iteration of `confirmOrderFill` |
| `Leg1Confirmed`, `Leg2Confirmed` | a terminal report for a leg |
| `CompletionConfirmed` | the order of `completePartialFill` and its retry loop |
| `CorrectionConfirmed` | `correctDrift` |
| `VerifyFlat` | exit-hedge.ts 149-177 |
| `Execute`, `LateFill` | the exchange executes a polled order, or one nobody polls any more |
| `CoolDown` | the breaker's `resetTimeoutMs` passes |

The account is `spot` and `perp`. `abandoned` is what still works on the exchange although no
job polls it; it exists because the execution code never calls `cancelOrder`. `sent`, `got`,
`perpTopUp` and `rounds` are bookkeeping for properties and bounds.

*Abstractions.* Both legs trade at price 1, so a notional is a quantity; a report may lack its
price, which drift.ts turns into notional 0. `PENDING` stands for PENDING and OPEN, `CANCELLED`
for CANCELLED, REJECTED and EXPIRED, because the code treats them alike. The order book is a
refusal or a pass, except that an entry of size zero can never pass (`estimateSlippage`
divides by the size).

### `Worker`

`phase` is the life of the process. `store` holds the two quantities the evaluator acts on.
`reads` holds the account reads in flight: each of the two requests of a read is answered with
the account at that moment, so a read may be torn, and reads may be applied in any order.
`Evaluate` is one whole tick that ends in a job. `RunJob` is a step of the job, with the
consequence the process adds: an outcome "thrown" is an unhandled rejection and the process is
"down". `Die` leaves a polled order working on the exchange. `Restart` forgets everything.

Clocks and prices are inputs: freshness (`RestFresh`, `WsFresh`), the age of a position and the
action of the risk engine are arbitrary values of sets the configuration names.

Two constants describe the caller rather than the evaluator. `evaluate()` takes its strategy
input from `deps.getStrategyInput`. The wiring in start-worker.ts passes an empty funding history
(line 180) and derive.ts leaves `entryTime` null (line 106), so the strategy, as wired today,
never signals an entry and never sees its position. `HistoryProvided` and `EntryTimeTracked` say
whether these two placeholders are filled in. The runs about entries set both: they are about
`evaluate()` with a caller that does what its types promise. `worker_stuck_leg` leaves both
FALSE: it is the process as wired.

### `WebSocketManager`

Every callback of websocket.ts runs to completion and is one action: `Opened` (`onOpen` up to
its await), `HooksDone` (the rest of it), `Failed` (`onError`), `Closed` (`onClose`), `Pong`,
`ReconnectFires`, `Ping`, `PongTimeout`, and the calls `Connect`, `Disconnect`, `Send`. A socket is
named by its generation. What decides is not in the variables of the manager alone: which
sockets still have its listeners (`heard`), which timers run although their handle is gone
(`armed`, `beats`), and which promises are unsettled (`pending`) are state of the runtime, and the
model keeps them. `Closing` is the peer, or the network. `cleanupListeners` acts on the
variable `ws`, which need not be the socket whose callback runs.

### `RequestPolicy`

A caller is in one stage of `execute()`: waiting for tokens, in its request, in a backoff delay, or
waiting for the breaker's test request. The bucket is refilled by `Tick`; a caller that finds too
few tokens computes how long to sleep and, when it wakes, subtracts without looking again
(token-bucket.ts:122), so the bucket may go negative. token-bucket.ts:45 says "If not enough tokens,
request must wait"; under concurrency what holds is `RateLimit`. A request succeeds, fails in one
of the classes of backoff.ts, or times out. cockatiel is external: while the breaker is half open the
calls that come wait for the outcome of the test request (`Resumed`).

*Abstractions.* Weights are 1 and one bucket stands for the three of exchanges.ts. `CoolDown`
presumes that a request in flight when the breaker opens is over when it half-opens (30 s reset,
5 s timeout). `RequestTimeoutError` ends a call, although request-policy.ts:9 says timeouts are
retried, because backoff.ts does not name it retryable; `successThreshold` is accepted and
ignored. `penalize`, `reset`, `resetMetrics`, `skipRateLimit` and `skipCircuitBreaker` have no caller. Only
the Coinbase adapter uses the policy.

### `SerialQueue`, `MessageQueue`, `Scheduler`, `HealthMonitor`

`SerialQueue` keeps apart the job's function, the slot it takes in p-queue and the promise of its
handle: `cancel()` of a running job frees the slot and rejects the promise while the function goes
on. `cancelAll()` clears p-queue without settling what it forgets. `ImplementsSequence` maps it to
`JobSequence`.

`MessageQueue`'s counter is not its length: a failing handler is counted down twice and `clear()`
zeroes it while handlers run, so `BacklogBounded` is relative to these events. message-queue.ts:5
says the oldest message is dropped; the code drops the one that arrives.

`Scheduler` keeps every interval ever armed beside the stored handle, because scheduling an id
again loses the first one (scheduler.ts:111), and every run with its attempt and its delay.

`HealthMonitor` has a clock of ticks. `allowSilence` holds only until the first message of a stream,
and `start()` reports a stream without a first message at once. startWorker gives it no streams.

### `DataPlane`, `FreshnessGate`

Time is counted in ticks of 10 s. A `start()` arms its two intervals in one synchronous block, so they
are one pair, named by the number of the start; `due` counts a pair down, `inFlight` is the age of
each of its polls, and `handle` is the pair whose handles are stored. `Connected` is the part of
`start()` after its only await. It stores what `adapter.isConnected()` answers, which may be false
(then the state is not fresh and `PunctualIsFresh`, which speaks of a data plane that has connected,
does not apply), and looks at nothing else: a `stop()` while `connect()` was under way
has no effect on it. The pollers then armed belong to a stopped data plane, a further `start()`
arms a second pair over their handles, and no `stop()` reaches the first. The properties name this
(`misused`) and hold otherwise. The worker avoids it: it has no handle to stop before `startWorker`
has resolved. A poll in flight writes its answer whether or not the data plane still runs.

`FreshnessGate` puts the evaluation tick on top. Since startWorker's health monitor watches no stream
it is always healthy, so `isStateFresh` alone decides, and only when a position is open. Because
`marginBufferBps` is always 0 (derive.ts:101) the answer is then always FORCE_EXIT, never
REDUCE_RISK. Worth knowing: `isStateFresh` includes the ticker and the WebSocket flag, so what the
evaluator calls `restFresh` is lost with five seconds without a ticker as well; one account poll that
fails leaves up to 60 s between two answers, beyond the 45 s threshold, and exits the position; both
built-in adapters ignore `subscribeTicker`, so today no ticker ever comes and the state is never fresh.

### `Reconciler`

The store as it was is compared with what the exchange has answered, which then replaces it. The
account is what the exchange lists: a perp position (or none) with its size, its side and its *terms*,
and a balance (or none) of each asset, the base and the quote, whose total is the equity. The terms
stand for the leverage, the margin and the liquidation price, which `updatePositions` overwrites,
`evaluateRisk` decides on (start-worker.ts:123-136) and `reconcilePosition` never looks at. An account
poll replaces the store without a word, so what it brings, the next reconciliation cannot report;
nor can one that threw (metrics.ts:113) after it had written the store.

`ReportIsExact` says exactly which differences a report depends on, measured in exact arithmetic
against the truncating divisions of the code. It says no more than that, and three cases deserve to be
known. The terms change in silence, whatever they become. A balance that appears in the list, or
disappears from it, is never reported (reconcile.ts:59 and the loop over the new list), not even an
equity that falls to 0 so. And a listed position of size 0 is reported as critical although both sides
are flat. So a report of no findings does not mean that nothing the bot decides on was replaced.
Nothing acts on a report: adrs/0001:458 speaks of a pause after two failures, for which there is no
code.

### `MessageParser`, `ImpactAnalysis`

A message is its type and its de-duplication key. lru-cache is external: looking an entry up refreshes its
rank but not its age. The key is marked before the handler runs, so a handler that throws has
still used it up, and all types share one cache.

`ImpactAnalysis` keeps, per market, the bag of impacts within the window of the check. The sampler's
estimate is a constant (2 bps for its fixed size), so today every check passes; the model lets the
table hold other values, as the check does. A market without samples does not fail it.

### `OrderLifecycle`, `HedgeLifecycle`

Nothing in the program drives these two machines yet, so their environment is the one their
events describe. The events of an order may come late, reordered, twice or never, and the bot may
time out. The orders of a hedge's legs fill or fail while entries, exits and aborts are decided
without regard to the phase. Worth knowing: a FILL that overtakes its ACK is refused
(SUBMITTED has no edge to FILLED), and such an order ends CANCELED by its timeout although it is
filled; a partial fill delivered twice is added twice; an ABORT while an order is working leaves a
leg that no phase knows of.

### `RiskEngine`, `StrategyEngine`

The decision functions, translated with their truncating divisions, over a state that moves. In
`RiskEngine` one field of the snapshot gets worse at a time, and the tick enters and exits. In
`StrategyEngine` funding rates arrive, funding periods pass, and evaluations open and close a
position that remembers its entry faithfully, or by the placeholders of `getStrategyInput`.

Not visible in the properties, because of how start-worker.ts wires the inputs: `peakEquityQuote` is
the current equity and `dailyPnlQuote` is 0 (lines 140-141), so the drawdown and loss checks never
fire; a negative equity would then have a negative utilization and be ALLOWed. A full-size entry
uses all free margin, so the next assessment PAUSEs. adrs/0014:215-217 makes a predicted rate above the
current one or the threshold, and a trend that is not decreasing, conditions of an entry; the code
lets both lower a confidence that `evaluate()` never reads. An entry on a prediction below the exit
threshold is exited at the next tick, and so is one in a decreasing trend that the position does not
remember: `NoChurn` names these cases and excludes every other.

## 3. Runs

| Run | Specification | Shows |
|---|---|---|
| `sequential` | `SequentialSpec` | the properties of the nine components without liveness: two jobs in a row, the lifecycles, the two engines, the data plane, the parser, the reconciliation report, the go/no-go check |
| `worker` | `FairWorkerSpec` | the properties about the process, with a crash, a failed read and two overlapping reads |
| `hedge_overhedge` | `Spec` | **violation** of `EntryIsHedged` |
| `breaker_recovery` | `BusySpec` | **violation** of `BreakerIsTested` |
| `worker_double_entry` | `WorkerSpec` | **violation** of `NoDoubleEntry` |
| `worker_full_stop` | `WorkerSpec` | **violation** of `FailuresStopEntries` |
| `worker_stuck_leg` | `FairWorkerSpec` | **violation** of `LeftoverIsCorrected` |
| `worker_restart` | `FairWorkerSpec` | **violation** of `RestartRecovers` |
| `concurrency` | `ConcurrencySpec` | the properties of the six concurrent blocks, each for every order of its calls, timers, failures and completions |
| `websocket_reconnect` | `FairWsSpec` | **violation** of `ReconnectsOnClose` |
| `stale_entry` | `FgSpec` | **violation** of `NoEntryOnStaleData` |
| `urgent_risk` | `RkSpec` | **violation** of `UrgentRiskExits` |

A violation run checks one sentence of the documentation or of a comment, and TLC finds the
behaviour of the code that contradicts it:

- **`hedge_overhedge`.** enter-hedge.ts measures drift on the orders as first confirmed and
  drops what `handlePartialFills` returned. A leg half filled and then completed still looks half
  filled, and is corrected a second time. The entry returns success with unequal legs.
- **`breaker_recovery`.** Entries return at `isOpen()`, and only `execute()` can half-open the
  breaker: once open, always open. (`OpenBreakerIsFinal` states, and the proof establishes, what
  the code does instead.)
- **`worker_double_entry`.** The tick after a job decides on the store from before the job.
- **`worker_full_stop`.** A failed entry ends the process and its count with it. Two failures in
  a row are never counted in one process. (`BreakerHasNoEffect` is the proved counterpart.)
- **`worker_stuck_leg`.** After the spot is sold and the perp close has failed, every later exit
  aborts at `spotSizeBase <= 0`. The reconciler only rewrites the store.
- **`websocket_reconnect`.** `onOpen` begins with `cleanupListeners()`, which takes the close, message,
  pong and error listeners off the socket that has just opened. Its close is not heard: the
  state stays CONNECTED and no timer is armed. (The bound on sockets is not the cause: none is
  asked for.) The unit test of reconnection passes because its mock ignores `removeListener`.
- **`worker_restart`.** The startup reconciliation runs before the data plane, with mark price 0.
  For a short whose liquidation price the exchange reports, `calculateLiquidationDistanceBps`
  divides by it. `startWorker` rejects, `index.ts` exits, and so does every later process, until the
  position is closed by hand.
- **`stale_entry`.** Flat, with the account polls failing and the account data past its threshold,
  `evaluateHealthResponse` returns CONTINUE, and neither risk nor strategy looks at a timestamp: an
  entry is queued. (`PunctualIsFresh` is the other side: without a failed poll this cannot happen.)
- **`urgent_risk`.** BLOCKED is the severest level, and the only one the tick answers by doing
  nothing: a position over the size or leverage limit is held, also when the liquidation buffer is gone.

### Bounds

| Bound | Meaning | Why it is enough |
|---|---|---|
| `Size`, `JobSizes` | quantities: 0 and 2 | 2 is the least quantity with a partial fill; 0 reaches the size checks |
| `MaxRetries` = 2 | completion attempts | one retry after a failure; the code's default is 3 and the loop body does not depend on the attempt |
| `MaxPolls` = 1 | polling iterations | a report or a timeout; further iterations change nothing |
| `MaxRounds` | jobs whose first order may reach the exchange | 2: what a job leaves behind meets the next job |
| `MaxCrashes` = 1 | crashes other than by a rejected job | orders left behind meet the next process |
| `MaxReadFailures` = 1 | failing reads per process | reads are stateless: after a failure the state is as before |
| `Reads` = 2 | reads in flight | enough for one to overtake another |
| `MaxGenerations` = 3 | sockets ever created | an old, a current and a next one; 4 was explored once, with two attempts, without a difference |
| `MaxSends` = 2 | messages | two can be put out of order |
| `Callers` = 3, `MaxTokens` = 1 | concurrent calls, size of the bucket | a caller that takes the token, one that sleeps, one that overtakes; symmetric roles beyond that |
| `MaxRetries` = 1, `MaxExecutes` = 3 | retries of a call, calls ever made | a retry that meets another caller's outcome |
| `MaxJobs` = 4 | jobs ever queued | one running although cancelled, one that took its slot, one waiting, one more |
| `MaxQueueSize` = 3, `MaxDrops` = 1, `MaxUncounted` = 3 | the message queue: capacity, messages refused, errors of its counter | the counter can be off by as much as the capacity |
| `MaxSchedules` = 3 | `schedule()` calls, for two ids | one id twice, the other once |
| `StaleThreshold` = 2 | ticks to staleness | fresh, ageing, stale |
| `Quantity` = 3 | quantity of an order | two partial fills and a last one |
| `MaxEntries` = 2 | entries of one hedge | what the first leaves behind meets the second |
| `MaxEquity` = 3, `MaxPositionSize` = 5 | money | sizes below and at the limit; every check fires |
| rates {-9, 30}, predictions {2, 30} | basis points | windows of both signs, on both sides of every threshold |
| `Interval` = 3, `AccountStale` = 5, `FundingStale` = 6, `TickerStale` = 1, `MaxLatency` = 1 | ticks of 10 s | the defaults 30 s, 45 s, 60 s and 5 s, rounded up; an answer within 10 s |
| `MaxStarts` = 2 | calls of `start()` that get past their guard | an orphaned pair beside a stored one (1 in `stale_entry`, which needs no second) |
| `DedupeKeys` = 3, `MaxDedupe` = 2, `DedupeTtl` = 1 | keys, cache size, age in ticks | one key more than the cache holds; fresh, ageing, expired |
| `PerpSizes`, `Totals` | 0, 196, 197 | 1 in 196 is 51 bps and 1 in 197 is 50: each pair is on either side of the tolerance of 50 bps by its direction, for sizes (relative to the old) and balances (relative to the new) the other way round; 0 is beyond 500 bps |
| `RiskTerms`, `Assets` | two terms; base and quote | terms that change while nothing else does; one asset drifts and the other does not |
| `Impacts` = {2, 5, 8}, `MaxSamples` = 10 | bps, rows in the window | below, between and at the thresholds 3 and 8; 10 is the first length at which the ninth decile is not the maximum |
| `MaxAge` = 2, sizes {100, 2000} | funding periods, size of a position | below and above the target yield; a target that truncates to 0 |

The bounds are guards of the actions, so they restrict, and never add, behaviours. The
theorems hold for all their values.

### Fairness

`FairWorkerSpec` assumes: timers fire (`setInterval` for the reads, a re-arming `finally` for
evaluations); each call to the adapter settles (the execution code puts no limit on a call, the
HTTP clients beneath it do); the platform restarts a process that has ended. It does not assume
that a read succeeds more often than `MaxReadFailures` allows it to fail, that orders fill, or
that a crash or a shutdown ever happens. `BusySpec` adds that the evaluator keeps asking for
entries and that time passes: the documented recovery of the breaker must be given its chance.

`FairWsSpec` assumes that timers fire, that every handshake ends, that a closing socket closes and
that the connected handlers return. It does not assume that a heartbeat is ever sent, that the peer
answers it, or that anybody calls.

`ConcurrencySpec` conjoins this with the fairness of the other blocks. For the policy: time
passes, so sleepers and delays wake, a request is answered or its timeout ends it, and cockatiel
lets the waiting calls go on. For the queue: the function of a job settles (nothing in queue.ts
enforces it; the hazard list says so) and p-queue goes on to the next job. Nothing
is asked of the scheduler, whose property is safety. For the monitor: time passes and its interval
fires. `sequential`, `stale_entry`, `hedge_overhedge`, `worker_double_entry`,
`worker_full_stop` and `urgent_risk` assume no fairness: they check safety only.

## 4. Properties and theorems

All theorems are for every value of the constants, under the named assumption of each module,
which TLC evaluates in the runs. Most only say what kind of value a constant is. Those that restrict a
configuration of the program (one theorem, `HeldBlocksEntry`, has a hypothesis of its own, see below):

| Assumption | Says | In the code |
|---|---|---|
| `ThresholdAssumption` | a poll interval and an answer fit into the staleness threshold | freshness.ts:33-34; the defaults are 30 s, and 45 s or 60 s |
| `ToleranceAssumption` | the size tolerance is below 100 %, the balance tolerance at most 500 bps | reconciler/types.ts:47-51: both 50 bps |
| `DataPlaneAssumption` | a poll is answered before the next one is due | the default interval is 30 s; answers that take longer are out of the model |
| `MessageParserAssumption` | cache size and TTL are positive | to lru-cache a TTL of 0 means "never" |
| `RiskAssumption` | the size limit is positive, the mark price more than 4 | the model's liquidation prices are `Mark` - 4 and `Mark` + 4, and a price is positive |

| Property | Says | Checked by | Theorem |
|---|---|---|---|
| `ComponentsTypeOK` | types of the nine components; for the job (`TypeOK`): no negative spot, attempt counters below their limits; for the data plane: `DpTypeOK` | `sequential` | `ComponentsTypeCorrect` |
| `CleanEntryIsHedged` | a successful entry with priced, uncompleted legs and a filled correction is hedged | `sequential` | `CleanEntry` |
| `OrdersArePositive` | no order for quantity zero is ever sent | `sequential` | `PositiveOrders` |
| `ShortNeverFlips` | a short becomes a long only through the completion of an exit's perp leg, which lacks `reduceOnly` | `sequential` | `NeverFlips` |
| `ExposureBound` | a job asks for at most `MaxRetries + 2` times its size per market | `sequential` | `ExposureIsBounded` |
| `ThrownExitLeavesPerp` | an exit that throws has sent nothing to the perp market | `sequential` | `ThrownExit` |
| `OpenBreakerIsFinal` | an open breaker stays open and stops every entry order | `sequential` | `OpenIsFinal` |
| `WorkerTypeOK` | types of the process | `worker` | `WorkerTypeCorrect` |
| `BreakerHasNoEffect` | a living process has a breaker that has counted nothing | `worker` | `BreakerIsInert` |
| `HeldPositionBlocksEntry` | no entry while a position found at the start of the process is open | `worker` | `HeldBlocksEntry` |
| `StoreConverges` | when the account rests, the store comes to show it | `worker` | none (liveness) |
| `ConcurrencyTypeOK` | types of the six blocks | `concurrency` | `ConcurrencyTypeCorrect` |
| `RateLimit` | how many requests can have been sent in a time, concurrent callers included | `concurrency` | `RateIsLimited` |
| `ProbeDiscipline` | while the breaker is half open one test request runs, and who comes waits for it | `concurrency` | `ProbesAreDisciplined` |
| `OpenIsQuiet` | no request starts while the breaker is open and hot | `concurrency` | `OpenStaysQuiet` |
| `MetricsAddUp` | every call is counted once, as what became of it | `concurrency` | `MetricsAreComplete` |
| `ExecuteSettles` | every call settles | `concurrency` | none (liveness) |
| `StatusTruthful` | when the queue says nothing is pending, nothing is in effect; a status says what happened to its job | `concurrency` | `StatusIsTruthful` |
| `ImplementsSequence` | the queue implements `JobSequence` | `concurrency` | `ImplementsJobSequence` |
| `JobsSettle` | a job that is not forgotten by `cancelAll` settles | `concurrency` | none (liveness) |
| `BacklogBounded` | how far the queue may exceed its bound | `concurrency` | `BacklogIsBounded` |
| `StopIsFinal` | after the stop sequence no run begins, unless an id was scheduled twice | `concurrency` | `StoppingIsFinal` |
| `SilenceIsReported` | a stream that stays silent is reported | `concurrency` | none (liveness) |
| `SendsInOrder` | messages leave in the order of `send()`, none waits while the socket is open | `concurrency` | `MessagesLeaveInOrder` |
| `SingleFlight` | at most one socket is connecting or open | `concurrency` | `OneSocketLives` |
| `DisconnectIsFinal` | after `disconnect()` nothing is left that could revive the connection | `concurrency` | `DisconnectEndsAll` |
| `AttemptsBounded` | the timer creates at most the larger of the two limits of sockets in a row | `concurrency` | `AttemptsStayBounded` |
| `ConnectSettles` | a `connect()` that is not cut short settles | `concurrency` | none (liveness) |
| `NeverOverCounted` | without a duplicate the record never exceeds what was executed | `sequential` | `NothingIsOverCounted` |
| `InOrderIsExact` | events in order are all accepted, and the record agrees with the exchange | `sequential` | `InOrderEventsAreExact` |
| `PhaseTellsLegs` | the phase of a hedge tells its legs, unless an abort left one behind | `sequential` | `PhaseIsTruthful` |
| `SeverityNeverFalls` | a snapshot worse in one field is never judged less severely | `sequential` | `WorseIsNeverMilder` |
| `SizedEntryIsAllowed` | a position of the size the bot computes is not blocked afterwards | `sequential` | `EntriesAreNotBlocked` |
| `NoChurn` | a position is not exited in the market it was entered in, but for three named cases | `sequential` | `EntriesAreKept` |
| `VolatilityIsFloor` | Newton's method returns the whole part of the root | `sequential` | `VolatilityIsExact` |
| `PunctualIsFresh` | a feed whose polls do not fail never looks stale | `sequential` | `PunctualFeedIsFresh` |
| `StopIsComplete` | after `stop()` nothing polls, listens or looks fresh, unless it interrupted a `start()` | `sequential` | `StopLeavesNothing` |
| `DedupeIsExact` | a key passes once within the TTL unless displaced, and no message is skipped without cause | `sequential` | `DedupeIsExactAlways` |
| `ReportIsExact` | no finding exactly if side and size are the same and no listed balance drifted; critical exactly if the position changed beyond the tolerance, or a balance drifted far | `sequential` | `ReportsAreExact` |
| `GoBoundsImpact` | a go bounds the share of samples at or above each threshold, a no-go exceeds one | `sequential` | `GoIsEarned` |

`SingleFlight`, `DisconnectIsFinal` and `AttemptsBounded` carry a proviso (`misused`): they fail when
`connect()` is called while the timer's own attempt is under way, since that attempt is not stored
in `connectPromise`, or after a `disconnect()` during the connected handlers, since the `finally` of
the older `connect()` clears the newer promise. `ConnectSettles` excludes a `connect()` cut short
by `disconnect()` or by a close event before the socket opened: these never settle.

**Along which argument.** Every property but the type invariants needs a strengthening.

- *CleanEntry*. The two bookkeeping sums must be tied to the orders: `EntryInv` says, per value
  of `step`, which of `first`, `second` and `ord` make up `got`. The correction then asks for
  exactly the difference (`Accounted`), and a difference left uncorrected is within
  `NeedsCorrection`. Both notionals are quantities because the legs are priced.
- *PositiveOrders*. `DueInv`: at `place`, what comes next is positive. For a completion this is
  `isPartiallyFilled`. For a correction it is the lemma `DriftIsPositive`.
- *NeverFlips*. `FlipInv`: until the perp leg of an exit is first completed, no quantity of kind
  `perpBuy` exists anywhere (polled, or abandoned on the exchange), and `perpClose` cannot pass
  zero.
- *ExposureIsBounded*. `ExposureInv` counts, per step and attempt, how many orders of at most
  the leg's size have been sent. The correction is bounded by the larger leg.
- *ThrownExit*. `ExitInv`: while `first` is `NoOrder`, nothing was sent to the perp market.
- *OpenIsFinal*. `BreakerInv`: while the breaker is open, no entry is past `EnterCheck`. A failure
  that opens it ends its entry in the same step.
- *BreakerIsInert*. The only action that counts a failure is the one whose outcome is "thrown".
- *HeldBlocksEntry*. `HeldInv`: while `held`, in a running process the store and every position
  answer in flight show a perp position, because all were read after the process began. Assumes
  `HistoryProvided => EntryTimeTracked`: with a history but no `entryTime` the strategy would
  not see the position at all.
- *PunctualFeedIsFresh*. `SourceInv` ties three clocks together: a poll in flight is as old as the time
  since its pair last asked (`Elapsed`), the answer before it came at most an interval earlier, and
  with none in flight the last answer is younger than `Elapsed`. So no answer is ever older than
  `Interval + MaxLatency`, which `ThresholdAssumption` keeps below the thresholds (for the default
  account threshold: answers within 15 s).
- *StopLeavesNothing*. `QuietInv`: what is armed is the pair that is stored, on a running data plane
  that awaits no connection.
- *PhaseIsTruthful*. `OpeningInv`: up to ACTIVE every fill ever reported opened a leg that is still
  open, so a fill reported again after an abort and a new entry moves to a phase whose leg is
  there. `CleanInv`: with nothing astray, only the order of the phase works and only fills of
  earlier phases have been reported, so none of them is accepted a second time.
- *StatusIsTruthful*. `QueueInv`: the jobs that wait are in the order of `enqueue`, and every function that
  still runs is of an earlier job (`OrderInv`); what status and promise say of where a job is, job by
  job (`JobInv`).
- *ImplementsJobSequence*. From `QueueInv`, each action is a step of `JobSequence` or a stutter under
  the mapping: a step that cancels the running job is the abstract one that ends it, and the function
  that goes on afterwards is invisible.
- *RateIsLimited*. The tokens that sleepers will take are already owed. `DebtInv`: at every time from now
  on, counting everybody who is due by then, the debt stays below the number of callers. `SpentInv`
  then accounts for every request, and every call that waits for a test request, by a token.
- *ProbesAreDisciplined*, *OpenStaysQuiet*. `ProbeInv`, caller by caller, with the fact that nobody who
  was let through a closed circuit is at work once a test request may start. That fact is
  `CoolDown`'s presumption about the two timeouts (section 2), made visible as `StragglerInv`.
- *MetricsAreComplete*. The calls that run, as a set whose cardinality each action changes by the
  right amount, `Answer` for all the calls that its outcome releases.
- *Connection manager*. `WsInv`. `FlightInv` is the core: barring misuse, the current socket is the only
  one that lives or is heard, a socket that has not opened is heard and its promise stored, an armed
  timer excludes a socket, every running timer has its handle, and each socket the timer creates has
  been counted.
- *BacklogIsBounded*. `CounterInv`: the counter is too low by exactly `uncounted`.
- *StoppingIsFinal*. `IntervalsInv`: an interval that fires is its task's stored one, or the task was
  scheduled twice.
- *NothingIsOverCounted*. `OwedInv`: what the record has and what the undelivered reports may still add
  is within what was executed. *InOrderEventsAreExact*. `TotalInv`: the record stands at the sum up to
  the report that comes next. Both say "there is a function of running totals" where one would write a
  sum, so that no induction is needed. Both rest on `ReportsInv`, what the exchange may report when.
- *DedupeIsExactAlways*. `RecencyInv`: every key after k in the cache has been looked up since k. So an
  evicted key has as many others as the cache holds in `touched` (a count of distinct keys), which
  `EntriesInv` keeps for as long as it is recent.
- *ReportsAreExact*. `QuotientExceeds`: a truncated quotient exceeds a tolerance exactly when it
  reaches the next whole basis point; `BalanceIsExact` and `PositionIsExact` apply it to one balance and
  to the position, `BalancesAreExact` to all assets. For the critical severities the tolerances must fit
  (`ToleranceAssumption`): the attempt without it showed that a size tolerance of 100 % or more makes a
  position that has gone a warning, and a balance tolerance above 500 bps passes over a critical drift.
- *EntriesAreKept*. `PositionInv`: a fresh position was entered in a regime that is not low and remembers
  it or the placeholders; at age 0 its realized yield is 0.
- *VolatilityIsExact*. `NewtonStep`: an iteration that decreases stays at or above the root, one that does
  not has reached it. The recursion is followed down from the first guess that would fail.
- *WorseIsNeverMilder*. The assessment is the worst of nine checks (`RiskIsWorst`), so it suffices
  that each limit exceeded before is exceeded after, or that a check at least as severe is
  (`NoMilderRisk`). The truncating quotients are replaced by products. The case that needs the second
  half: a loss that turns the equity negative makes the utilization negative, and then it is the drawdown
  that is exceeded.
- *EntriesAreNotBlocked*. `SizeIsLimited`: the sized position is within the size limit and the leverage
  limit, which guard the only checks that BLOCK.
- *GoIsEarned*. `PercentileBelow`: the value at the truncated index of the sorted samples lies below a
  threshold exactly when that share of the samples does. `VerdictInv`: a verdict stands only while the
  rows it was given on do.
- *ConcurrencyTypeCorrect*, *ComponentsTypeCorrect*. A behaviour of the side-by-side specification is
  one of every block (`BlocksAreIndependent`, `ComponentsAreIndependent`).

The library's induction theorems take an operator as a parameter, which the provers cannot
instantiate. What the folds of the community modules and the recursive function of `bigintSqrt` compute
is proved instead from least elements: `LeastOfNat` (a non-empty set of naturals has a least element)
gives induction over a *set* of numbers (`NatInduces`), then over a *set* of subsets of a finite set
(`FiniteInduces`), then the existence of a fold (`FoldExists`). The sums of `StrategyEngine` and
`ImpactAnalysis` and the escalation of `RiskEngine` use these.

**Only model-checked:** the liveness properties `StoreConverges`, `ExecuteSettles`, `JobsSettle`,
`SilenceIsReported` and `ConnectSettles` (fairness and ENABLED are out of the prover's reach), and the
violation runs. Every safety invariant and every action property of a passing run, and the
refinement, is a theorem.

## 5. Plan

Order of work, the most important behaviour first.

1. *(done)* `CircuitBreaker`, `HedgeExecution`, `Worker`, and the theorems above.
2. *(done)* The concurrent blocks: `WebSocketManager`, `RequestPolicy`, `SerialQueue` with its
   abstract specification, `MessageQueue`, `Scheduler`, `HealthMonitor`.
3. *(done)* The decisions: `OrderLifecycle`, `HedgeLifecycle`, `RiskEngine`, `StrategyEngine`.
4. *(done)* Theorems about 2, 3 and 5: the refinement of `JobSequence`, `RateLimit` for any number of
   callers, the safety of `WebSocketManager`, the order lifecycle, sizing and escalation for all amounts,
   the parser, the reconciliation report, the root and the percentiles.
5. *(done)* The data plane, its composition with the evaluation tick, the reconciliation report, the
   message parser and the go/no-go check.
6. The stages of `HedgeExecution` mapped to the phases of `HedgeLifecycle`: which of them the
   job's outcomes have no name for.

## 6. Not modelled, and why

- Adapters, persistence, server, environment and logging: request formatting and I/O. The data
  collector: its jobs read and insert rows and swallow their own errors.
- Prices and clocks, except where a property is about them: inputs.
- `createSamplingCircuitBreaker`, the emergency functions of the risk engine, `updateOrderBook` and
  `reset` of the store, and the options of the request policy named above: no caller in the program.
- Profit and loss: computed, read by no decision.
- JSON, schemas and statistics of the message parser: whether a message is valid is a choice.
