# Simple-Trader in TLA+

A verification project for Simple-Trader, a Go service that publishes futures
signals, keeps a paper position for each, and closes both when prices, clocks,
news or an operator say so. The models are translated from the code under
`src/`; names are the code's where TLA+ allows it. `PROJECT.json` maps every
definition that stands for code to its lines.

## The system

One process (`cmd/trader/main.go`) holds everything; PostgreSQL and Redis are
its only partners that survive a restart.

| Component | State it keeps | Operations |
|---|---|---|
| Signal store (`internal/db/signal_store.go`) | table `futures_trade_signals`: terms, stop, status, decay state, exit, dispatched / resolved marks | insert, list ACTIVE, newest ACTIVE of a symbol, close, move stop, set decay, mark |
| Execution engine (`internal/trader/engine.go`) | `positions` by symbol, `cash`, order counter, closed trades; one mutex | open from signal, check exit, force close |
| Signal handlers (`internal/server/signal_handlers.go`) | `slotMu`, per-symbol lock `evalBusy`, semaphores | evaluate a symbol, decide one / all, manual close, reconcile, decay, tick exits |
| News crawler and scanner (`market/news_crawler.go`, `server/news_events.go`) | seen hashes, article buffer, `newsEvents` queue (512), `newsPending`, `newsLastEval` | crawl, ingest, enqueue, consume, backstop sweep |
| Market daemon (`trader/daemon.go`) | last ticks | tick: engine exit check, breaker update |
| Early exit (`trader/early_exit.go`) | judgment rows, cluster ids | cycle over open trades, close |
| Circuit breaker | peak, current equity, latched halt | update, halt, reset |
| Allocator and investor ledger (`trader/allocator.go`, `db/investor.go`) | tier cash, units, transactions | deposit, withdraw, NAV, rebalance |
| Shadow orchestrator (`trader/shadow.go`) | bounded queue, workers | judge entry / exit off the hot path |
| SSE broadcaster, Telegram bot | client channels, send queue | broadcast, send with retry, enable / disable |
| Managed parameters, decision routing, entry gate, timeframe | effective values | resolve, route, gate |
| Feeds, indicators, AI clients, auth, config, web | quotes, scores, sessions | mostly I/O and numerics |

How they interact. A headline is ingested by a crawler goroutine, which calls
the server's hook; the hook marks and enqueues the symbols it is relevant to; the
news consumer evaluates them one at a time, while a backstop sweep evaluates the
whole universe every few minutes, an HTTP request evaluates one symbol and
decide-all evaluates all of them in a pool. An evaluation that ends in a trade
inserts a row and opens a position. From then on five kinds of task can end the
trade: every market tick starts a goroutine that compares the row's levels; the
daemon compares the position's levels; the reconciler, once a minute, applies
maximum age, levels and time decay; an operator closes by hand; the early-exit
worker closes on news. None of them shares a lock with another over *row and
position together*. On start the process reconciles rows first, then opens a
position for each row still ACTIVE.

What makes it hard: the row and the position are two records of one trade,
written in two steps by concurrent tasks; reads that are stale when used; a
guard whose lock ends before the write it guards; coalescing queues that may
drop; failures of a call between two others; a restart between any two steps.
The list of hazards, each at its line, is in `PROJECT.json`.

What makes each part correct:

- engine: an order is settled once; money is conserved; a stop is honoured
  before liquidation; an open position is not replaced;
- lifecycle: a closed row says truthfully why; a position does not outlive its
  row except in ways that are known; every signal ends; a boot completes; the
  engine is only changed through its operations;
- admission: by how much the cap and "one row per symbol" can be exceeded, and
  by nothing more; scanners exclude each other; evaluations return;
- news: an event is queued once, nothing is lost by coalescing, no symbol goes
  deaf;
- early exit: the pace of the exits, over cycles, clusters and midnight;
- entry decision: a saved signal satisfies every clamp at once, and none of its
  values is a guess;
- guardian: a position whose level is crossed leaves; the equity the breaker is
  told was once true;
- ledger: units are what the transactions add up to; the reserve in memory and
  the withdrawals in the database tell one story;
- settings: what runs is what a restart would load;
- feed, stream, messenger, shadow desk: no price overtakes a newer one, a
  dashboard misses no tick for which it had room, a queued message or judgment
  is dealt with, and recorded evidence is backed by calls that answered.

## Modules

| Module | Models | Uses |
|---|---|---|
| `ExecutionEngine` | the engine: one action per method (each runs under the mutex), integer prices and cash, friction and fees by divisors | |
| `Decay` | pure operators: level resolution, break-even stop, decay decision | |
| `SignalLifecycle` | rows, ticks, manual close, reconciler, evaluators, daemon, early exit, boot and restart; one database or engine call per action | `Decay`, instance `E` of `ExecutionEngine` |
| `SlotAdmission` | what bounds the ACTIVE rows: early checks, slot guard, insert, announcement; decide-all's semaphore and deadline; scanner lock | |
| `NewsPipeline` | feed, crawler, hook, queue, consumer, sweep, restart | |
| `Guardian` | the daemon's walk over the symbols, the quote store and its fallback to the exchange, `GetTotalEquity` in its three steps, the circuit breaker | extends `ExecutionEngine` |
| `EarlyExit` | the cycle over open trades and news clusters, managed guards, verdicts, close, judgment rows, live settings | extends `ExecutionEngine` |
| `EntryRules` | pure operators: profiles, managed parameters and their clamps, stop, targets, leverage, margin, entry gate | |
| `EntryDecision` | the evaluation from snapshot to saved signal: batch, escalation, assembly, gate, insert, while settings change | `EntryRules` |
| `InvestorLedger` | abstract: accounts, journal, reserve and what it owes, each movement one balanced step | |
| `Treasury` | investors, their transactions step by step, NAV, the Tier 1 reserve, restart | instance `Books` of `InvestorLedger` |
| `SettingsRules` | pure operators: what the page accepts, what a boot accepts, `Load`, `Upsert` | |
| `Settings` | the `.env` file, the two handlers that save, crash and reboot | `SettingsRules` |
| `MarketFeed` | polls, cache, channel and the one consumer | |
| `LiveStream` | the SSE broadcaster: Redis or local, registration, snapshot, bounded channels | |
| `Messenger` | the Telegram bot: queue, workers, switch, retries | |
| `ShadowDesk` | the queue of judgments, routing, escalation, evidence rows, health counters | |
| `MCExecutionEngine`, `MCSignalLifecycle`, `MCSlotAdmission`, `MCNewsPipeline` | instances for TLC | the module named |
| `MCDesk` | instance of `Treasury`, `EarlyExit`, `EntryDecision` and `Settings` | those |
| `MCServices` | instance of `MarketFeed`, `Guardian`, `LiveStream`, `Messenger` and `ShadowDesk` | those |
| `Sums` | lemmas about sums over finite sets, of which the two ledgers make use | |
| `ExecutionEngineProofs` | engine | `ExecutionEngine`, `Sums` |
| `SlotAdmissionProofs`, `NewsPipelineProofs`, `LifecycleProofs` | admission, news, lifecycle | the module named |
| `TreasuryProofs` | ledger and reserve | `Treasury`, `Sums` |
| `DeskProofs` | early exit, entry decision, settings, and the types of the desk | `MCDesk`, `ExecutionEngineProofs`, `TreasuryProofs` |
| `ServicesProofs` | feed, guardian, stream, messenger, shadow desk | `MCServices`, `ExecutionEngineProofs` |

`MCDesk` and `MCServices` each hold several modules that share no state. The
variable `part` is chosen at the start from `Parts` and never changes: a
behaviour is one part at work, the others at rest, so one run checks each module
on its own instance and the state spaces add up instead of multiplying. The
modules that do interact are composed for real: `SignalLifecycle`, `Guardian`
and `EarlyExit` each run the engine together with what drives it.

Two specifications are abstract ones that others implement:

- `ExecutionEngine!Spec`, the engine left alone. `SignalLifecycle` composes it
  with the book through `INSTANCE`, and `EngineSpec` says that every lifecycle
  step, restart included, is an engine step or leaves the engine alone.
  `EarlyExit` and `Guardian` extend the engine and are shown to implement it as
  well (`EarlyExitImplementsEngine`, `GuardianImplementsEngine`).
- `InvestorLedger!Spec`, what ledger and reserve promise together: units are
  bought and redeemed with a journal entry for each, an account pays out only
  what it holds, and what the ledger paid is owed by the reserve until it is
  settled. `Treasury` implements it (`KeepsTheBooks`): of the steps of
  a transaction only the commit, the debit and the sweep are visible. What is
  owed is the sum over the requests between commit and debit, and over the
  debits that were refused and never caught up with; a process is counted by the
  restarts.

### How state and actions correspond to the code

`ExecutionEngine`. `positions[s]` is the map entry of `s` (or `NoTrade`); the
signal is an `Offer`. A quote of 0 is the callers' "no price", for which a
forced close uses the entry price. `closePositionLocked` credits margin plus
profit or loss less friction, floored at 0, as the code does.

`SignalLifecycle`. `book` is the table in insertion order, so a row's index is
its id. A task is a small record with a program counter naming the call it is
about to make: `closer[c]` for tick and manual tasks, `rec` for the reconciler
with the snapshot list of its pass, `eval[e]`, `early`, and `phase`/`revive`
for the boot. `owner[s]` is a history variable: the row the position was opened
for, and whether that row was already closed then. `learned` and `told` count
the outcomes fed to the sampler and the messages sent. The *stop* and *decay
state* a task uses are those of its read, as in the code, while terms never
change. Ages count decay checkpoints; `Pass` is the clock.

The lists a reconciler pass or a boot works off are functions from row ids to
snapshots of rows, newest first (`Newest`, `Current`, `Remaining`): the order is
that of the query, and a snapshot is as old as the query.

`SlotAdmission`. `pc[t]` walks `check`, `guard`, `cap`, `insert`, `announce`,
`mark`: the guard's two reads are two actions under `slotMu`, and the insert is
outside it. The decision in between is a free choice.

`NewsPipeline`. The crawler's handling of one headline is cut at every point
another goroutine can see: hash, article stored, hook marking a symbol, hook
sending it. The consumer clears the mark, debounces, takes the symbol lock and
only then reads the latest headlines. `weighed` and `skipped` are history
variables: which headlines an evaluation of a symbol has read, and which were
given up by a counted drop or a rule of the code.

`Guardian`. One tick is a walk: `BeginTick` asks the breaker, `TickPrice` and
`TickExit` handle one symbol, `ReadNeeded`, `FetchPrice` and `Value` are the two
locked sections of `GetTotalEquity` and the fetches between them. Quotes, opens
and closes of others are actions of their own and fall between any two steps.

`EarlyExit`. Of each exit `exits` keeps whether a save of the settings fell in its
cycle (`torn`) and whether the counters its guards read could be read (`blind`:
a failed read counts as none, `early_exit.go:646-654`). `ZoneOffset` is how far
the clock of the process is ahead of UTC; the code counts a day from local
midnight taken as UTC. One worker: `BeginCycle` copies configuration and open trades,
`PickStory` and the core's answer, the guards, `CloseNow` and the row are steps;
other positions open and close in between. The configuration is copied by value
but its map of managed guards is the live one, as in Go: `CycleConfig` reads the
map when it is used.

`EntryDecision`. An evaluator is snapshot, question, answer, perhaps an
escalation, assembly, gate, insert. What it asks (`EntryQuestions`) comes from
the settings at that moment, what it makes of the answer (`Resolve`) from the
settings then. Numbers are scaled integers; `EntryRules` keeps the order in which
the code's clamps are applied, and its rounding: a negative expected value gives the
risk floor, and a bare conviction score is rounded to a hundredth of a percent
(`ToTenThousandth`) where an expected value is not.

`Treasury`. A deposit whose units round to zero books nothing. `call[c]` walks a handler: reserve read, equity read, row lock, sum
of units, commit, debit. Between commit and debit the database and the allocator
differ. `booked` is what the transactions table adds up to per investor.

`Settings`. `save[r]` walks read, replace (or cut and rewrite when the file is a
mount), live application. `Reboot` runs `Load` over what the file holds then.

`MarketFeed`. A price is the number of the poll that fetched it, so "newer" is
`>`. The first batch blocks when the channel is full, later sends drop.

`LiveStream`. Ticks are numbers too. A client is registered, sent the snapshot,
then reads its channel; the broadcast goes over Redis or, when that fails,
locally, and a publish reported as failed may have been delivered.

`Messenger`. `Work(w)` is a worker's take, attempt, answer or failure, plain-text
retry, give up. `UpdateConfig` starts a worker when it turns the bot on and
stops none when it turns it off.

`ShadowDesk`. `Judging(j)` is a worker's judgment, from the queue through Jev and
the model to the row; `Counted` is what the health counters see of each call.

## Runs

| Run | Instance | Question |
|---|---|---|
| `MCExecutionEngine` | two symbols, long and short, 276K states | settlement, conservation, order of levels |
| `LifecycleRaces` | two signals of one symbol, tick, reconciler, evaluator, 1.8M | races of in-flight closers with the next signal |
| `LifecycleCrowd` | one short signal, all five closers, 1.7M | every pair of closers; row's and position's levels agree |
| `LifecycleLiveness` | one failing call, one restart, daemon, 126K, with fairness | ends and boots; refinement of the engine |
| `SlotsMixed` | decide request and scanner, cap 2, one fault, 1.0M | bounds on overshoot and duplicates |
| `SlotsBatch` | two workers, two scanners, cap 1, one fault, 203K, with fairness | the guard's mutex, the scanner lock |
| `NewsOverflow` | two symbols, two headlines, one place, 2.2M | coalescing and drops |
| `NewsLiveness` | one symbol, two headlines, one fault, one restart, 195K, with fairness | settled in the end |
| `MCDesk` | four parts, 1.0M with symmetry on requests, saves and evaluators | ledger against the abstract one, early exit, entry decision, settings |
| `MCServices` | five parts, 131K, with fairness | feed, guardian, stream, messenger, shadow desk |

The two runs named `Find…` in `PROJECT.json`, `FindOrphanAfterBreakeven` and
`FindGuardOff`, expect a violation and are described under *Disagreements*.

Bounds. Every hazard in the lifecycle needs at most two rows of one symbol and
two tasks; symbols interact only through cash, which `MCExecutionEngine` covers
with two. Prices are picked for their position relative to the levels (at the
stop, between stop and entry, in profit by less than half the risk, at the
target), so one price per region is enough. `AgeBound` passes the horizon.
`MaxFaults` and `MaxRestarts` are 1: the properties with two faults in their
statement (`faults \div 2`) are proved for any number. The catalogue has about
123 instruments and the queue 512 places, so `NeverFoundFull` is about the
regular case and `NewsOverflow` about the other.

In the lifecycle the order counter may run past `MaxOrders` while positions are
rebuilt after a boot (by one order a signal): a rebuilt position is a new order.

The instances of `MCDesk` and `MCServices`:

| Part | Instance | Why that is enough |
|---|---|---|
| treasury | two investors, two requests at once, one failing transaction, one restart | the races are between two handlers at the same reserve or row |
| early exit | one symbol, one cluster, two cycles, a day of two units, one store fault, one save of the guards | pace is a matter of two exits; midnight and the cooldown fall inside |
| entry | two evaluators, seven snapshots on both sides of each limit, seven answers (sound, weak, out of range, about other timeframes), three escalations, one save, one fault | each clamp is the binding one for some pair of snapshot and answer |
| settings | two saves, a mounted file, one file fault, one reboot, eight payloads | overlap needs two, a crash one; a mount is the harder of the two ways to write |
| feed | three assets, two of one exchange and one of another, channel of 2, four polls | a full channel, a dead exchange and its return |
| guardian | a long and a short, two quote changes, drawdown of 30% | each quote ends one and leaves the other; losses reach the limit |
| stream | two dashboards, channel of 1, two ticks, one Redis fault | one dashboard full, the other not; each way of delivery |
| messenger | three messages, queue of 1, two workers, three switches | off and on again with a message queued, one in work, one refused |
| shadow | two cycles, queue of 1, one worker, one panic, one change of the threshold | a full queue, a threshold that moves during a judgment |

`MarketFeed`, `Settings` and `LiveStream` compare things by equality and order
only. `EntryRules` is arithmetic: the snapshots were picked at and around the
limits of `MCEnv` and the profiles, and what they do not reach is not shown.

Each property is paired with a mutant of the code in `PROJECT.json`: the
operator before the original, with a comment starting "Mutant".

### Fairness

- `SignalLifecycle!FairSpec`: weak fairness of the reconciler's own steps (its
  ticker fires every minute and its loop never blocks on another task), of the
  boot's steps, and of time. Nothing is assumed of ticks, requests, evaluators,
  the daemon or the early-exit worker.
- `SlotAdmission!FairSpec`: a goroutine that can go on repeatedly does; Go's
  mutex hands over to a starving waiter, hence strong fairness.
- `NewsPipeline!FairSpec`: the crawler and the consumer keep running, the feed
  keeps listing its headlines.
- `Guardian!GuardianFairness`: weak fairness of the daemon's own steps. The feed
  calls `ProcessTick` on every tick and the walk waits for nobody without a
  deadline. Nothing is assumed of quotes, of opens or of the exchange.
- `Messenger!MessengerFairness`: a worker that can go on does; each HTTP call
  has a timeout. That the operator enables the bot again is not assumed.
- `ShadowDesk!ShadowFairness`: a worker takes what is queued and each of its
  calls has a deadline, after which it counts as failed.

`MCServices` asks each of the last three of the behaviours in which that part
is at work.

## Proofs

TLAPS proves, for every value of the constants, each safety invariant and each
action property that a passing run checks. Every module has an inductive
invariant, named with `Inv`; the theorem follows from it by `PTL`.

Engine (`ExecutionEngineProofs`):

- `TypeCorrect`; `SettledOnce`, from every settled or open order having its own
  id no larger than the counter; `StopFirst`, from the typing of trades and the
  order of tests in `Crossed`; `NeverReplaced`, an action property.
- `Conserved`: cash and the margins of the open positions are the initial capital
  and the results realised. The sums range over symbols and trades; `Sums` proves
  what a change of one summand does to a sum (`SumChanges`), how a summand is
  taken out (`SumTakesOut`), when a sum is a natural number (`SumIsNat`), by
  taking the least number of summands for which it fails.

Lifecycle (`LifecycleProofs`):

- `ClosuresAreTrue`. Every task that is about to write a closure carries a price
  and reason that explain the row it names, and go on explaining it: a row only
  grows older, its terms stay, and its stop is the offer's or break-even and
  never wider than before.
- `ImplementsEngine`. Each action is an engine step or a stutter; with it the
  theorems of `ExecutionEngineProofs` are theorems about the composed system.
- `OrphansAreExplained` and `ExitsAreSeen`, both from `OwnersInv`: an open
  position carries the levels of the row it was opened for, and if that row is
  closed, then some task still owes the exit, or the position was opened late,
  or the row's stop was moved away from the position's. Each task in flight has
  to be shown to keep the debt until it has paid it.
- `OutcomesAreBounded`, from `LearnInv`: a row nobody closed has taught nothing,
  and afterwards outcomes plus the tasks with the row in hand are bounded.
- `TypeCorrect`, from `RoomInv`: rows plus evaluators about to insert fit the
  bound, and the engine's own typing, whose constants differ by break-even
  signals.

Admission and news (`SlotAdmissionProofs`, `NewsPipelineProofs`):

- `TypeCorrect`; `ScannersApart` (the lock table equals the symbols of busy
  scanners); `OvershootBounded` and `DuplicatesAreBounded`. The last two need a
  counting invariant: rows plus the tasks past the guard's count never exceed
  the bound, and a task that gets past a failed read is charged to that fault
  *twice checked* (once before the decision, once in the guard), which is where
  half a fault per row comes from.
- `TypeCorrect`; `PendingMeansQueued`; `NeverFull`, from the queue being without
  repetition and a pigeonhole; `NothingLost`, whose inductive part is that a
  relevant headline is settled or on its way at every cut of the crawler and the
  consumer.

Ledger (`TreasuryProofs`):

- `TransactionsAddUp`. The invariant says whose row a transaction in progress
  has locked, that what it is about to burn is no more than the row holds, that
  an investor is opened once, and that an inactive row has no units. It holds at
  any price the transaction works with, also at one another deposit made stale.
- `ReserveAgrees`: since the boot the reserve has lost exactly what the ledger
  paid, but for debits still to come or refused; `RefusalsNeedRaces`: a refused
  debit was covered when it was checked, so another withdrawal has been paid
  since. `TreasuryIsTyped` is the typing.
- `BooksAreKept`: `Treasury` implements `InvestorLedger`. Commit maps to
  `Subscribe` or `Redeem`, the debit to `Settle`, a sweep to `Credit`, a boot to
  `Reopen`, every other step to a stutter; that a redemption burns no more than
  the account has is the row lock, and that a debit is no more than is owed is
  the sum over the requests.

Desk (`DeskProofs`, four parts):

- `PaceIsHeld`, from `PaceInv`. The exits of a symbol are no more than its rows,
  the rows lost to faults and the exit under way (`Counted`); the guard has
  counted the rows of the day; and what it counted covers the UTC day provided
  `ZoneOffset <= 0`. On a host ahead of UTC the property is false
  (`FindBudgetAhead`), so the hypothesis is stated, not hidden.
- `NoGuessIsSaved` and `SavedAreSound`, from `EntryInv`: at each stage of an
  evaluation the values in hand satisfy the clamps applied by then, and later
  clamps do not undo earlier ones. The second asks for `RiskBand`, a risk floor
  of at least 0.005 % and not above the cap. The code asks only that the floor
  is positive: below that value a bare conviction is rounded to nothing, and a
  floor above the cap leaves no band to be inside.
- `RestartBringsTheSame`. The lemma is that
  `Load(Upsert(Load(f), e)) = Load(Upsert(f, e))` for the keys a handler sets;
  the invariant follows the only save underway from its read to its application.
- `EarlyExitImplementsEngine`, and `DeskIsTyped` for the four parts together.

Services (`ServicesProofs`, five parts):

- `FeedIsFollowed`: along cache, batch and channel the polls of an asset are in
  order, the store is behind all of them, and the last price of an asset that
  never met a full channel is on its way or there.
- `ReadingsAgree`: while nothing moves (`still`), what `GetTotalEquity` has
  collected is the quote of each position it saw. `GuardianImplementsEngine`
  asks that what the exchange answers is a price or nothing.
- `SnapshotAndEventsMeet`: for a client whose channel was never full, the newest
  stored tick is shown, waiting in its channel, in the snapshot it is about to be
  sent, or on its way in a broadcast.
- `NoAnswerWithoutCall`: the answers held by workers and those in rows are no
  more than the calls counted as answered, model by model, and each that counts
  as confident was measured against the threshold it names.
- `ServicesAreTyped`, whose hard part is the messenger: a message is in one hand
  (`OneHand`), and workers are no more than the switches account for.

### Assumptions

Those of the modules, which TLC evaluates on each run:

| Assumption | What it asks | Where the code sees to it |
|---|---|---|
| `PricesAssumption`, `MoneyAssumption`, `SymbolsAssumption`, `NoTradeAssumption` | positive prices, a capital, divisors above 1, finitely many symbols | a price of 0 is "none" to every caller; costs are small fractions; the catalogue is a list |
| `ExactSizes` | size times entry over leverage is the margin again | true of the code's fractions; a condition on offers once they are whole numbers |
| `LifecycleAssumption`, `LevelsAssumption`, `EngineAssumption` | break-even is tighter than the stop; stop, entry and target in order; liquidation past the stop | the stop and targets are percentages of the entry, and leverage is lowered until it fits (`EntryRules`) |
| `CapAssumption`, `TasksAssumption`, `BoundsAssumption`, `GroupAssumption`, `NobodyAssumption` | a cap of at least one, finitely many tasks, each symbol in a group | `config.go:225` asks for a positive cap; tasks are goroutines |
| `FiniteAssumption`, `RelevantAssumption`, `QueueAssumption`, `FaultsAssumption`, `NoneAssumption` | finite catalogue and feed, a queue and a window | constants of the code |
| `TreasuryAssumption` | positive amounts and capital, percentages, first ledgers without units in inactive rows | the handlers' checks; no row is no units |
| `EarlyExitAssumption` | a daily budget set by the operator is at least one | `config/early_exit_config.go:58`, `system_handlers.go:751` |
| `EntryRulesAssumption`, `ProfileFileAssumption` | ordered bounds of stop and target, a positive risk floor; the file's fields are numbers | `config.validateRequiredSemantics`; the decoder |
| `EntryDecisionAssumption`, `LiveSettingsAssumption`, `AnswersAssumption` | amounts are numbers; an override is in its range; answers are numbers | `config.Load`; the decoder |
| `SettingsAssumption` | values of the file and of payloads are comparable numbers | the abstraction of `SettingsRules` |
| `FeedAssumption`, `GuardianAssumption`, `LiveStreamAssumption`, `MessengerAssumption`, `ShadowAssumption` | capacities above zero, each asset with its exchange, the daemon's list without gaps, a threshold in 1..100 | constants of the code; the catalogue; `Config.RoutingThreshold` |

Three hypotheses belong to single theorems: `ZoneOffset <= 0` (`PaceIsHeld`),
`RiskBand` (`SavedAreSound`) and `Answers \subseteq Prices \cup {0}`
(`GuardianImplementsEngine`). Bounds such as `MaxFaults` are any numbers.

### Model-checked only

Liveness under fairness (`EverySignalCloses`, `BootCompletes`,
`EvaluationsReturn`, `NewsIsSettled`, `CrossedPositionLeaves`, `QueuedIsSettled`,
`QueuedIsJudged`), which TLAPS does not treat, and the counterexamples of the
next section, which are TLC's to find.

## Disagreements between texts and code

Checked by runs, each by a counterexample of the model of the code:

1. `FindOrphanAfterBreakeven`: "signals = positions" (`README.md:175`).
   Break-even moves the stop in the row only; the tick that crosses it closes
   the row, the engine sees no level crossed, and the position stays.
2. `FindGuardOff`: "hard safety caps stay code (FR-304): ... max_per_day in
   [1,10]" (`specs/019-offload-phase2/spec.md:8`). A save that takes the daily
   budget out of the core's hands (`system_handlers.go:1046`) reaches a running
   cycle through the shared map only; the cycle's own copy says zero, which
   turns the guard off for its closes.

Others were met while modelling. Their formulas stand at the end of the modules;
where a configuration is named it reproduces the counterexample (with the
`MC` module whose constants it sets: `MCSignalLifecycle`, `MCSlotAdmission`,
`MCNewsPipeline` or `MCDesk`).

| Formula | Configuration | Text | Code |
|---|---|---|---|
| `HorizonCloses` | `FindHorizonIgnored` | "the hard horizon always closes" (`futures_math.go:364-365`) | after break-even the risk distance is not positive and `applyDecayState` returns before it looks at the clock |
| `OneActivePerSymbol` | `FindDuplicateSignal` | the guard against "two OPEN signals for one symbol" (`signal_handlers.go:75-77`) | gives up its mutex before the insert |
| `HeadlinesIngested` | `FindHeadlineLost` | new headlines are ingested (`specs/005-multi-horizon-investor-ledger/spec.md:72`) | a headline is marked as seen before the classifier may fail on it (`news_crawler.go:173-182`) |
| `SignalsHavePositions` | `FindSignalWithoutPosition` | "a signal can never exist without its position" (`signal_handlers.go:179-182`) | an exit still in flight for a closed signal closes the position of the next |
| `RehydratesLiveOnly` | `FindRehydratesClosed` | "rehydration only restores genuinely live positions" (`main.go:230-232`) | the list is read before the positions are opened, and ticks run meanwhile |
| `EarlyExitClosesSignal` | `FindEarlyExitKeepsSignal` | "closed judgment row and signal status atomically" (`early_exit.go:745`) | positions carry no signal id, so the row stays ACTIVE |
| `ToldAtMostOnce` | `FindToldTwice` | "if active and not already resolved" (`signal_handlers.go:1406`) | a manual close sends unconditionally |
| `ClosingIsIdempotent` | `FindCloseNotIdempotent` | "already closed: keep the operation idempotent" (`signals.go:884`) | the status tested is that of an earlier read; the update is by id |
| `CapRespected` | `FindCapOvershot` | "limiting in-flight work … makes that impossible" (`signal_handlers.go:867`) | the free slots are counted once, and the scanners do not count |
| `NoCorrelatedPair` | `FindCorrelatedPair` | "prevent concurrent active signals across correlated assets" (`signal_handlers.go:593`) | looked at before the decision only, outside any lock |
| `AnnouncedAtMostOnce` | `FindAnnouncedTwice` | "persisted and not already dispatched" (`signal_handlers.go:236-238`) | the row handed back by the guard is announced from a stale read |
| `SavedSettingsBoot` | `FindSettingsUnbootable` | "edited in UI, persisted atomically, applied live" (`README.md:206`) | the page accepts values that `Load` refuses at the next boot: a halt window of 0, a screener volume of 0, a proxy without a host |
| `SavesDoNotInterfere` | | the write of `.env` is atomic (`README.md:111`) | read, edit and replace run under no lock; a mounted file is cut and rewritten |
| `AppliedLive` | | as above | drawdown limit, calendar window, screener volume and proxy are copied when the process builds their users |
| `DisabledStaysDisabled` | | the bot's switch | is not stored: a restart or a save of a credential turns the bot on |
| `ZeroDilution` | | "zero-dilution multi-tenant ledger" (`docs/assets/feature-ledger.svg:30`) | a deposit buys units at an equity it does not raise |
| `RedemptionsCovered` | | a withdrawal is covered by the reserve | two withdrawals that fit it alone are both paid; the refused debit of the second is dropped (`investor_handlers.go:211`) |
| `OneTreasury` | | one treasury row | counted and inserted in two statements (`db/investor.go:376`) |
| `GuardedWhenHalted`, `HaltNeedsExposure`, `SummaryTellsHalt` | | the daemon "monitors existing positions" (`main.go:258`) | a halted tick returns before the exit check, for good; the first peak is the configured capital, not the ledger's; the summary never says so |
| `NothingDropped` | | "Queue-full returns an explicit error - never silently drops" (`shadow.go:94-95`) | the caller discards the error and the judgment |
| `JudgeIsNamed` | | the column names the model that produced the record (`specs/013-jev-autonomous-trading/data-model.md:16`) | an escalated answer names jev |
| `KillSwitchHolds` | | the switch "MUST disable early-exit closes entirely" (`specs/014-jev-news-early-exit/spec.md:80`) | a running cycle keeps its copy |
| `JudgedOnce` | | "judged at most once per position" (`specs/014-…/spec.md:63`) | cluster ids are hexadecimal and parsed as decimal; where that fails the look-up is skipped |
| `PaceHolds` | `FindBudgetAhead` | "on the current calendar day (UTC)" (`early_exit_store.go:178`) | the worker passes local time and midnight of its date is taken as UTC (`early_exit.go:854`): on a host ahead of UTC, in the last hours of a UTC day, none of its exits is counted |
| `JudgedIsClosed` | | "Zero early exits bypass guards" (`specs/014-…/spec.md:94`) | the close names the symbol: a younger position is closed in its place |
| `StopFollowsRegime` | | WIDE: "expansion, wider stops and targets" (`param_registry.go:480`) | the stop is computed before the regime is applied |
| `BareIndexIsALevel` | | the score is a level index, never the value (`param_registry.go:671-675`) | a bare score outside 0..1 becomes the threshold |
| `TicksAreLive` | | "real-time live market ticks directly from the exchange" (`live_feed.go:380`) | a silent exchange is filled in from the cache, poll after poll |

Three more formulas are observations that contradict no text: `NewestLast` (a
dashboard's last shown tick may be an older one), `OneWorker` (off and on again
makes two Telegram workers) and `DeliveredOnce` (a lost answer is retried). Two
things were seen and not made a formula: the comment of the ATR stop
(`futures_math.go:180-182`) against what it does with no range, where the widest
stop results, and the event sent after an early exit, which looks up a closed
trade by symbol and may carry another one's close (`early_exit.go:920-924`).

The passing properties say what remains true all the same: `OrphansExplained`,
`BoundedOvershoot`, `DuplicatesBounded`, `CoalescingLosesNothing`, `PaceHolds`,
`ReserveMatchesLedger`, `KeepsTheBooks`, `ReloadAgrees`, `CrossedPositionLeaves`, each with the
exceptions named in its comment.

## Not modelled, and why

- Without a caller outside tests: `ExecuteOrder` and `SetTotalEquity` of the
  engine, `Start`, `Stop` and `SetCalendar` of the daemon, `Reset` of the breaker.
- The listing limits (50 rows, 100 buffered news items, 15 headlines shown) and
  Redis failures in the crawler are left out; one news feed stands for all.
- Indicators, Kelly sizing, macro regimes, similarity of headlines and the
  screener are floating-point numerics over series: no integer abstraction
  keeps what could go wrong in them. They are inputs or free choices here.
- Authentication and the rate limiter keep sessions and windows that do not
  touch the trading state.
- The backtest is a sequential replay used by a command of its own. Cache and
  database plumbing are thin wrappers, whose failures are the faults of the
  modules that call them. HTTP decoding, formatting, the web client and the AI
  transports change no state of their own.
- Panics are modelled in `ShadowDesk` only, whose workers recover; elsewhere the
  process has a recover around HTTP handlers alone. The sweep's unlock without a
  defer (`signal_handlers.go:1563`) is listed as a hazard for that reason.

Components that are partly modelled say what is missing in `PROJECT.json`.

## Plan

Done, in the order of importance: engine, lifecycle, admission, news; guardian,
early exit, entry decision; ledger; settings; delivery (feed, stream, messenger,
shadow desk); and the proof of every safety invariant and action property the
runs check, with the refinements of the engine and of the abstract ledger. Next:

1. Abstract specifications for admission (a cap and what may exceed it), the
   stream (a client is shown a subsequence of the ticks) and the messenger (a
   queue of bounded length), each implemented by its module.
2. Conservation of money across a whole life of a signal, as a theorem about
   `SignalLifecycle` by way of `ImplementsEngine` and `Conserved`; the same for
   `EarlyExit` and `Guardian`.
3. `SlotAdmission` with `EntryDecision` as its decision, so that settings change
   between a guard's read and the insert; news clusters from headline to early
   exit, across `NewsPipeline` and `EarlyExit`; the session window of
   authentication.
