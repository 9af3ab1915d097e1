# Trading robot: specifications and proofs

TLA+ models of the core of the trading robot (`src/robot/go-bot`, with the
strategy engine of `src/robot/strategy-core`) and of its backtests (with
`src/simulator`), the TLC configurations that check
them on small instances, and theorems about them checked by TLAPS.
`PROJECT.json` maps every definition to the source lines it stands for. Paths
below are relative to `src/robot/` unless they say otherwise; `.../` stands for
`go-bot/internal/`.

| file | what it is |
|------|------------|
| `Guard.tla` | the execution guard, a circuit breaker per request key |
| `GuardProofs.tla` | its theorems |
| `Backoff.tla` | how long the guard blocks a key, as functions |
| `MCGuard.tla` | rule constants for the guard's runs |
| `Ledger.tla` | rows of orders and positions, what the repositories do to them |
| `TradingPair.tla` | one pair: worker, execution service, strategy state, exchange |
| `Reconciler.tla` | the three reconciliation tasks, composed with the pair |
| `ReconcilerProofs.tla` | theorems about the composition: its rows, orders and links |
| `AccountProofs.tla` | its quantities: nobody offers more than there is |
| `LifecycleProofs.tla` | one lot, one stop order, and that it implements `Lifecycle` |
| `StoryProofs.tla` | worker, SyncOrders, rows and exchange agree on the one lot |
| `Lifecycle.tla` | the one position a pair promises to have, abstractly |
| `Workers.tla` | the goroutines of several pairs, their map, the count of positions |
| `WorkersProofs.tla` | its theorems |
| `PriceWindow.tla` | the engine's price history, as operators |
| `Engine.tla` | one strategy engine as its signal generator drives it |
| `MCEngine.tla` | price points and configurations for the engine's runs |
| `EngineProofs.tla` | theorems about the engine and its window |
| `SimulatedClient.tla` | the exchange of a backtest, as operators |
| `Simulator.tla` | the independent C++ simulator, as operators |
| `Backtest.tla` | a whole backtest: file, client, worker, engine, log |
| `MCBacktest.tla` | strategies and files for its run |
| `BacktestProofs.tla` | theorems about backtests |
| `*.cfg` | one configuration per run |

## 1. The system

A Go bot trades instruments on cryptocurrency exchanges. For each *pair*
(exchange, instrument) that is enabled, a worker goroutine asks a C++ strategy
engine for a signal once per interval and acts on it; it reaches the exchange
through a Python gateway over gRPC, and keeps orders, positions and balances in
PostgreSQL. Periodic tasks reconcile the database with the exchange.

| component | state it keeps | operations |
|-----------|----------------|------------|
| worker (`.../orchestrator/signal_handler.go`, `helper.go`) | locals of `processSignal` | one handler per signal: SearchingBuyEntry, Buy, WaitingBuyFill, TrackingSellExit, Sell, WaitingSellFill, InvalidPosition |
| worker lifecycle (`.../orchestrator/orchestrator.go`) | map of running workers | `refreshStrategies` starts workers, passes the pair's status to them; a worker stops itself |
| strategy engine (`strategy-core`) | IDLE, PENDING_BUY, IN_POSITION, PENDING_SELL; entry and highest price; rules; sliding window | Create, Init, UpdatePrice, GetSignal, RetrySignal, SetInPosition, UpdateConfig |
| signal generator (`.../components/signal_generator`) | `pendingTerminate`, engine handle, a lock | wraps the engine: warm-up, one tick per cycle, reconfiguration |
| execution service (`.../components/execution/service.go`) | none of its own | CreateOrder, CreateStopOrder, CancelOrder, GetOrder(s), GetOpenOrders, GetBalance: guard, gateway call, then a database write |
| execution guard (`.../components/execution/guard.go`) | per key: failures, penalty level, blockedUntil, probe mark | Allow, Record, Release |
| gateway (`python-gateway`) | none | translates calls and errors to ccxt / Mercado Bitcoin |
| reconciliation (`.../components/reconciliation/reconciliation.go`) | none between runs | SyncOrders (15 s), SyncPositions (1 min), SyncStopOrders (5 min) |
| portfolio (`.../components/portfolio`) | in-memory set of open positions, a lock | CreatePosition, UpdatePosition, DeletePosition, GetPositionsCount |
| risk manager (`.../components/risk`) | none | verdict on a buy: limit on positions, budget, units |
| repositories (`.../database/repository`, `go-bot/migrations`) | trading.orders, positions, balances, strategy_pairs | statements under the unique indexes and checks of the migrations |
| management API (`.../api`) | none | enables a pair, schedules it to be disabled |
| background (`.../background`), set-up (`go-bot/cmd/server`) | tickers | each task in one goroutine of its own, beside the workers |
| simulated client (`.../simulation`, `go-bot/cmd/server/backtest.go`) | candles, cash and asset, orders, the pending stop order, trades | takes the gateway's place in a backtest; its clock is the last candle served |
| simulator (`src/simulator`) | locals of `RunSimulation` | a second implementation of the strategy over the same price files |
| health, jobs, config, logging, ml engine | - | not part of the trading loop |

Interactions. A worker and the three tasks share the database and the exchange
and no lock except the portfolio's, which covers one repository call. Every one
of them reads rows, calls the gateway and writes back what it decided, while the
others go on. Between the bot and the exchange there is no transaction: a market
order has a row before it is sent (`CreateOrder`), a stop order is sent before
it has one (`CreateStopOrder`). A client order id ties the two together.

What is hard here, and what should hold:

- *Duplicate orders.* An answer can be lost, late or not storable. The pair must
  not buy twice (`NoDoubleBuy`) and must not give up an order that is on the
  exchange (`RejectOnlyUnsent`).
- *Stale writes.* Positions have four writers (worker, SyncOrders,
  SyncPositions, SyncStopOrders), all working from earlier reads. A position
  of known origin must belong to a buy that was filled (`KnownPositionBacked`),
  and an order row must not leave a final status (`RowFinal`, `MarketRowFinal`).
  That a position keeps the origin it has is not so (section 9).
- *Exits.* The lots of a position are offered once: one stop order (`OneStop`),
  and no stop order beside a market sell. The pair as a whole goes round flat,
  buying, holding, selling, one position at a time (`OnePosition`).
- *Workers.* Several goroutines are started for a pair and know each other by
  the pair's name only. Whatever panics, only the registered one has an engine
  that takes prices (`OneEngine`), and unless one panics it alone trades the
  pair (theorem `PairsTradedOnce`); one that has ended is replaced (`WorkerRestarts`), and a
  pair that is to be disabled ends (`DisableCompletes`).
- *Backtests.* The books of the simulated exchange, the engine and the database
  agree (`Agreed`, `OnlyStopOpen`, `StopKept`), the candles have no gaps
  (`GapsFilled`), the log is faithful (`LogFaithful`), it is the log of the
  independent simulator (`Parity`), and the budget outlasts as many losses as
  the capital has shares (`FundsLast`), which are ten.
- *Termination.* A pair is disabled only when it is flat (`DisabledWhenFlat`).
- *Progress.* A pending buy is resolved (`BuyResolves`); a position whose stop
  order is gone is protected again (`ProtectionRestored`); a blocked key
  recovers (`KeyRecovers`).
- *Bursts.* However many callers race, a blocked key admits one request between
  two outcomes (`NoBurst`), and its mark is owned by a live request
  (`ProbeHasOwner`).

- *Signals.* The engine forgets prices, filters them and is reconfigured while
  it runs. Forgetting must not change an answer (`EvictionInvisible`), the
  filter must not lock it on an old price (`FeedFollowed`), a position must not
  inherit the peak of an earlier one (`FreshPeak`), and signals must be given for
  the rules' reasons (`BuyJustified`, `TrailingLatched`, `StopLossBinds`).

The full list of hazards, each at its line, is in `PROJECT.json`.

## 2. The guard

`Guard.tla` is `.../components/execution/guard.go` with the way `service.go`
drives it.

| model | code |
|-------|------|
| `state[k]` | `Guard.states[key]`; `NoState` is an absent entry, which the code treats as an entry of zero values |
| `Admits`, `Admitted`, `IsProbe`, `Allow` | `Allow` (guard.go:99) |
| `RecordSuccess`, `RecordFailure` | the two halves of `Record` (guard.go:141) |
| `Released` | `Release` (guard.go:185) |
| `call[c]` | the request goroutine `c` has under way: `persist` is CreateOrder between Allow and the gateway call, `follow` CancelOrder between its two requests |
| `Succeeds`, `Fails`, `Abandons` | the outcomes `recordGuard` tells apart (service.go:82) |
| `PersistFails` | the error return of CreateOrder between Allow and the call (service.go:229) |
| `CooldownEnds` | the clock passes `blockedUntil` |
| `burst`, `healthy` | history and environment: nothing in the model's behaviour of the guard reads `burst`; `healthy` only switches failures off |

Each operation of the guard holds its mutex from start to end, so each is one
step. Durations are abstracted to what `Allow` can see: zero, in the future,
passed. The constant `RuleOf` gives every key the rule of its method, from which
the threshold `MaxFailures` and the cap `MaxPenalty` follow. How long a penalty
lasts is `Backoff.tla`: `Doubled` and `Cooldowns` are the loop of `cooldown` with
its jitter, `MaxPenaltyLevel` the other loop over the same doubling, by which
`Record` caps the level.

Runs:

- `guard` (FairSpec): two callers over a CreateOrder, a CancelOrder and a GetOrder key, threshold
  2, caps 2, 2 and 3, which are `MaxPenaltyLevel` of small rules. Checks
  `TypeOK`, `StateCoherent`, `CooldownScaled`, `NoBurst`, `ProbeHasOwner` and,
  under fairness, `KeyRecovers`. `CooldownScaled` says of every blocked key, and
  of every level of the four rules of the code, that its cooldowns lie between
  base and maximum, are longer than those of the level below whatever the
  jitter, and reach the maximum at the cap and nowhere else. Two callers are enough for
  a request admitted before the block to answer while a probe is out, which is
  where the code's interleavings are; a threshold of 2 separates "tolerated"
  from "blocked"; caps of 2 and 3 make a success clear the penalty at once or
  leave one level.
- `guard_probe_leak`: a comment of the code is not what it does (section 9).

Fairness in `FairSpec`: a request in flight is answered (every gateway call has
a timeout), the clock runs, and a caller that is admitted again and again does
call (`SF` on `Allow`): workers and tasks come back every interval. The guard's
mutex gives no stronger order. `KeyRecovers` needs failures to stop for good
(`healthy`); this is an assumption on the gateway and stated in the property.

### Theorems (`GuardProofs.tla`)

For any finite or infinite set of callers and keys, any graded rules (below),
any follow-up relation into keys without a database write:

| theorem | statement |
|---------|-----------|
| `GuardTyped` | `Spec => []TypeOK` |
| `GuardCoherent` | `Spec => []StateCoherent` |
| `CodeRulesScaled` | `RulesScaled`: every level of the four rules of `NewGuard` is scaled |
| `GuardCooldownScaled` | `Spec => []CooldownScaled` |
| `GuardNoBurst` | `Spec => []NoBurst` |
| `GuardProbeHasOwner` | `Spec => []ProbeHasOwner` |

Assumptions: `KeysAssumption`, `RulesAssumption`, `FollowAssumption` of
`Guard.tla`, which TLC evaluates on every run of `MCGuard`. `RulesAssumption`
says that a rule is `Graded`: its maximum is between 1 and 1024 times its base,
and no doubling of the base that stays below the maximum comes so close to it
that the jitter of a quarter reaches it. Without it `Scaled` is false (base 13,
maximum 30: the jitter of the second level, 26, is capped at 30, the cooldown of
the third). Lemma `CodeRules` proves it of the rules of the code.

The argument. `TypeOK` is inductive by itself once it includes that a request
under way has a key. `StateCoherent` is inductive given `TypeOK`: lemma
`EntryStep` says that every operator on an entry keeps the entry coherent, and a
step replaces at most one entry, by one of those operators. `NoBurst` is not
inductive alone: the end of a cooldown keeps the count of a key, and an admission
of a key with a stale mark would go unnoticed. It becomes inductive with
`StateCoherent`, by which a mark exists only on an expired cooldown: the
admission that counts one sets the mark (`BurstStep`), and `Allow` refuses
while it is set. `ProbeHasOwner` needs `PersistsKnown` (only CreateOrder keys
reach the step that can be left without an outcome): an owner then leaves only
through `Record` or `Release`, which clear the mark (`OwnerStep`). This is also
why the property fails on CreateOrder keys. `CooldownScaled` needs
`StateCoherent` (the penalty of a blocked key is between 1 and its cap) and what
the two loops compute. Both are recursive functions, and the library's theorems
on those cannot be applied here, so the argument is by the least counterexample
(`Least`): `LevelSolved` and `DoubledIs` show that functions with the two
recursion equations exist, `Climbing` follows both side by side (before the last
level the cooldown is the base doubled and as many levels remain as doublings
fit below the maximum; at the last it is the maximum), and `CooldownsAre` adds
the jitter.

## 3. The pair and its reconciliation

`Ledger.tla` holds the data and the statements on it, `TradingPair.tla` the
worker with everything it calls, `Reconciler.tla` the tasks and the
composition, which is the specification that is checked (`SyncSpec`,
`FairSpec`).

State: `strat` (engine), `w` (the worker: its place in `processSignal` and its
locals), `term` (the termination flag), `pair` (status in strategy_pairs),
`rows` (trading.orders), `pos` (trading.positions), `wallet`
(trading.balances), `xord` and `hold` (the exchange), and `so`, `sp`, `ss`, the
locals of the three tasks.

Steps. A step is one database statement or one gateway call, with the code up
to the next one; whatever the others do falls in between. A read-only gateway
call and the write that stores its answer are one step, except where the
answer is kept and used later (`record`, which stores a list read earlier).
Merging is sound for the properties checked: a market row that has its exchange
id is rewritten by SyncOrders alone, which reads and stores within one task
step; a stop row's stored status is read by SyncStopOrders only, which fetches
the order again before it acts; an out-of-date wallet is covered by the steps
between SyncPositions' refresh and its use.

| actions | code |
|---------|------|
| `Tick` | GetTicker, GetSignal, the Buy suppression of `processSignal` |
| `CheckPending`, `Lookup`, `GiveUp` | `checkPendingOrder` (helper.go) |
| `CheckPosition` ... `CheckBalance` | the reads at the start of the handlers, with their early returns |
| `PersistOrder`, `SendOrder`, `ConfirmOrder` | `CreateOrder` (service.go): insert, gateway call, update |
| `CreatePosition`, `SettleBalance`, `SettleQuantity` | the buy that is filled at once |
| `ClosePosition`, `DropPosition` | the sell that is filled at once, and nothing left to sell |
| `ListOpenOrders`, `RecordOpenOrder`, `DecideOnStop` | `getStopLossOrder` over `GetOpenOrders`, and what the handlers do with the answer |
| `ArmStop`, `PersistStop`, `RaisePosition` | `CreateStopOrder`, the update of the position |
| `CancelStop`, `StoreCanceled` | `CancelOrder` |
| `CheckTermination`, `ApplyDisable`, `StartWorker`, `UpdateWorker` | the deferred termination check, `refreshStrategies` |
| `Manage`: `RequestDisable`, `EnableStrategy` | the management API, and the statements behind it |
| `Orders*`, `Positions*`, `Stops*` | SyncOrders, SyncPositions, SyncStopOrders |
| `Fill`, `Trigger`, `CancelOutside`, `Deliver`, `ManualTrade` | the exchange and the account's owner |
| `Crash` | the bot dies; locals are gone, the engine is rebuilt from the database |

Abstractions. Quantities count lots, one lot per buy order; less than the
deletion threshold is no lot. Prices only decide which signal comes and whether
a stop triggers, so both are free choices; the risk manager's verdict is a free
choice. The guard's denial is the fault "gateway". One pair, so the base asset
belongs to it alone. `signalInvalid` needs a position without an entry price and
is left out. An order carries the client order id of the row it was sent for,
one that no row was written with before (the bot's stop orders), or none
(`Unnamed`). The orders of the account's owner carry none; they are of either
side and type and enter the model when they are filled (`ManualTrade`), so that
`Matches`, which looks at side and amount only, can take a stop order of the
owner for a market order of the bot. An owner's order that still rests on the
exchange is not modelled. Every error the code can meet is a named member of `Faults`
(header of `TradingPair.tla`), so that a run says which ones it allows.

Bounds: `MaxOrders` orders on the exchange (the exchange refuses more, as it
may), `MaxRows` rows (the strategy stops signalling Buy and Sell), `MaxHold`
lots after manual trades. `sync_live` takes one of these rows and one lot, which fits
all three tasks with lost answers under fairness: what must come about there
concerns one buy, its position and its stop orders; market sells are in
`sync_orders`. Three orders make buy, stop and sell, or buy, stop and
a second stop; `sync_orders` takes four of each, so that a second cycle can
begin over the rows of the first or a rejected row stands among the others. `sync_links` takes two orders and
three rows: a position and its link are about one buy and what rivals it, and
two orders are enough for a row to be linked to the wrong one. `StopsLock` says whether an open
stop order locks the base asset on the exchange; the runs take the weaker
exchange, which does not.

### Runs that pass

| run | faults | tasks | what it shows |
|-----|--------|-------|---------------|
| `sync_orders` | gateway, lost, cancel, part, disable | orders | with lost answers, refused calls, cancellations with and without a part filled, and the pair being disabled and enabled at any time: one lot at most is ever bought, no row is given up whose order is on the exchange, no row leaves a final status, a pair is disabled only when flat, and the whole implements `Lifecycle` |
| `sync_links` | db, gateway, link, late, manual, crash | orders, positions | however badly the link between row and order goes, with restarts, trades of the owner, orders that arrive late, and adoption, adjustment and deletion racing the creation of the position: a row is never linked to an order the bot sent for another row nor a market row to a stop order of the bot, and a position of known origin has a filled buy behind it |
| `sync_tasks` | cancel, crash | positions, stops | the worker with the tasks that act on positions, with restarts and cancellations: one stop order, and the whole implements `Lifecycle` |
| `sync_live` | lost, cancel, part | all three | under fairness: a pending buy is resolved, whether its answer was lost or its order canceled, also with a part filled; then the handler finds a balance without a position and waits for SyncPositions to adopt it (signal_handler.go:393-396); a position whose stop order has vanished gets another; and no market row leaves a final status with three writers at work |

`Lifecycle.tla` is what a pair promises, seen from the exchange: flat, buying,
holding, selling, with at most one stop order, which is placed on held lots only
and gone before they are sold in the market. `Reconciler!OnePosition` is
`L!Spec` with `stage` read off the lots held and the open orders (`Stage`) and
`protected` off the open stop orders; every step of the worker, the tasks and
the exchange is a step of it or a stutter. The mapping uses nothing of the bot's
own records, so that it holds whatever those say.

Fairness in `Reconciler!FairSpec`: the worker's ticker, the three tasks'
tickers and the strategy refresher go on (weak fairness on the step each would
take next: no step of theirs can be blocked), and the exchange fills each open
market order in the end. No fairness on faults, on prices (which signal comes)
or on stop orders, which may rest for ever.

`ProtectionRestored` names the exceptions it needs: the exchange refusing more
orders (the bound), and the worker resting in `raise`, where it writes back the
flag it read. An execution in which the price makes a new high in every interval
keeps the worker raising, and every raise undoes the reset of SyncStopOrders
(section 9).

### Theorems (`ReconcilerProofs.tla`, `AccountProofs.tla`, `LifecycleProofs.tla`, `StoryProofs.tla`)

| theorem | holds unless `Faults` has one of | statement |
|---------|---------|-----------|
| `Consistent` | | `SyncSpec => []IInv` |
| `PositionsBacked` | | `SyncSpec => []KnownPositionBacked` |
| `LinksFaithful` | | `SyncSpec => []LinkFaithful` |
| `AccountsKept` | | `SyncSpec => []Accounted` |
| `SyncTyped` | | `SyncSpec => []SyncTypeOK` |
| `RejectsOnlyUnsent` | link, late | `SyncSpec => RejectOnlyUnsent` |
| `NeverDoubleBuy` | link, late, manual | `SyncSpec => []NoDoubleBuy` |
| `StopsUnique` | link, late, manual, db | `SyncSpec => []OneStop` |
| `LifecycleImplemented` | link, late, manual, db | `SyncSpec => OnePosition` |
| `DisabledOnlyFlat` | link, late, manual, db, crash | `SyncSpec => []DisabledWhenFlat`, without SyncPositions |
| `MarketRowsFinal` | link, late, manual, db, crash | `SyncSpec => MarketRowFinal`, without SyncPositions |
| `RowsFinal` | link, late, manual, db, crash | `SyncSpec => RowFinal`, without SyncPositions and SyncStopOrders |

They hold for any bounds, either kind of exchange and, but for the last three, any
tasks. The assumptions of the modules only say of which type the constants are;
the faults a theorem excludes are its hypothesis. Between them they cover every
safety property of the pair's passing runs, with weaker hypotheses than the runs: `RejectOnlyUnsent`
and `NoDoubleBuy` are checked under some faults and tasks and
hold under all but the excluded ones. Section 9 lists executions in which an excluded fault breaks one
of the properties; the theorems say that no other failure and no order of steps does.

The argument goes in layers, each an invariant on top of the earlier ones.

*The book.* `KnownPositionBacked` is not inductive: the position is written
from locals that were read long before. `IInv` says of the book (rows and
orders) that a row's exchange id is an order of the row's side, for a market row
one with the row's own client order id or none, for a stop order's row a stop
order of the bot; and that an order with the client order id of a row is a
market order of that row's side. It says of every local of the worker and the
tasks that it names rows and orders that exist, and that a row about to become a
position is a filled buy. Rows and orders are never
removed, an id is never replaced and a filled order stays filled; this is `Grown`, and
lemmas `BackedGrown`, `PositionGrown`, `WorkerGrown` and `TasksGrown` carry all
locals over any write that makes the book grow. Each statement on the book is
one lemma (`InsertedBook`, `LinkedBook`, `UpsertedBook`, `AcceptedBook`,
`SettledBook`), and each action is one lemma that combines these.

*The accounts.* Quantities are integers in `IInv`; that none is negative is
`Accounted`. The heart of it is the exchange's (`NeverShort`): the lots of all open
market sales are never more than the lots held, because a sale is admitted
against what is free and a triggered stop order against what is not offered.
All others copy: a row from an order or a balance, a position from its row or a
balance. The first part of the module describes what every step of the
specification does to one row, one order and the position (`RowWrites`,
`BookWrites`, `PositionWrites`); later proofs argue with these descriptions and
no longer with the actions.

*Sent once* (`Unsent`). No two orders carry the same client order id, and a row
about to be sent or given up has no order. With "late" the order may still be
under way when the last lookup misses it, with "link" it is found and its id not stored.

*One lot* (`OneLot`). Everything counts one lot; the row of an open market order
is open itself; a worker that has passed its checks buys only while no lot is
held or being bought, and nobody else buys or delivers in between. "manual" would
change the lots behind its back.

*One stop order* (`StopKnown`). A worker that lists the open orders and stores
them one at a time finds the stop order, if there is one, in the list or in the
rows, and a stop order it does not find is not open. With "db" an answer can fail to be
stored and is not found. `Covered` adds that a stop order covers a held lot that is
not offered otherwise; from here each step of the exchange is one of a few
(`MarketMoves`), and each of these is a step of `Lifecycle` or a stutter under the
mapping.

*One story* (`Story`). Why an idle strategy has no lot is a matter of all the
records at once: `Steering` (strategy and the handler's place), `Settling` (a final row agrees
with the exchange, and all that is still to be written of market orders concerns open rows),
`Claiming` (a filled buy becomes a position by the worker or by SyncOrders, not
by both), `Telling` (position and strategy against the lot), `Knowing` (what a
handler asked several calls ago still holds where it relies on it). None of the five is
inductive alone. Strengthening it showed
that `DisabledWhenFlat` and `RowFinal` do not hold with "db" once the bounds are
large enough (section 9), so `sync_orders` runs without that fault.
SyncStopOrders only touches stop orders, their rows and the flags of a position;
the story holds with it, except that the worker may write "open" over a stop order's
row that SyncStopOrders has closed since the worker listed the order. `RowFinal` is
false there, and `MarketRowFinal` is what remains. SyncPositions is
excluded because a deleted or adopted position is no part
of this story: it may delete the position of lots that are held (`position_deleted`).

The liveness properties `BuyResolves` and `ProtectionRestored` are checked by
TLC only; they are out of the prover's reach.

## 4. The workers

`Workers.tla` is the orchestrator over several pairs: `refreshStrategies`, the
goroutines it starts, and what their cycles have in common.

| model | code |
|-------|------|
| `g[i]` | goroutine i of `startWorker`: its step, its pair and status as they were read, the generator's termination flag, whether its engine is open |
| `signals` | `o.signals`, the map from a pair's name to the registered generator |
| `listed` | the list `refreshStrategies` has read and not worked off |
| `LoadStrategies`, `Orchestrate` | `refreshStrategies`: read once, then start or update pair by pair |
| `Register` | the end of `initSignalHandler`, or its failure |
| `Tick`, `Stop` | `runWorker` looking for its name, `stopWorker` |
| `CheckTermination`, `ApplyDisable`, `Panic` | the deferred check of `processSignal`; the recover of `startWorker` |
| `CheckEntry`, `PlaceBuy`, `CreatePosition`, `DeletePosition` | the part of a cycle that concerns the others |
| `SyncOrder`, `SyncPosition` | what SyncOrders and SyncPositions do to positions |
| `rows`, `positions`, `LoadState` | trading.positions, the portfolio's set, and its reload, which SyncPositions and SyncStopOrders do at each run |
| `usable`, `status` | the configuration and status the management API stores |

What a worker does for its own pair is `TradingPair`'s matter; there the worker
is one; here it is shown to be, as long as no goroutine panics. `Panic` is any
goroutine's, also one that initialises or that was stopped, and stops whoever
holds its pair's name. A worker that is stopped from outside in the middle of a
cycle ends that cycle beside its successor: `OneTrader` excludes panics for it,
and `OneEngine` is what remains. A later cycle of a worker whose engine was
closed is no step: the engine refuses the price, and the cycle returns.

Runs:

- `workers` (FairSpec): one pair, up to three goroutines, one failure (a
  statement, a lost answer or a panic), unusable configurations, lots bought by
  the owner. Goroutines meet under one name only, so one pair shows every
  meeting; three goroutines make a stopped worker, its successor and a late
  initialiser. The theorems cover any number.
- `limit_raced`: two pairs and a limit of one (section 9). No fault is needed.

Fairness: the refresher's ticker, the tasks' and every worker's go on. No
fairness on the management API, failures, panics or adoption.

`DisableCompletes` and `WorkerRestarts` leave out pairs whose stored
configuration no engine accepts: no worker can be started for them, and
`UpdateConfigFromPair` returns before it has taken over the flag.

### Theorems (`WorkersProofs.tla`)

For any pairs, goroutines, limits, faults and number of failures:

| theorem | statement |
|---------|-----------|
| `Registered` | `Spec => []IInv` |
| `WorkersTyped` | `Spec => []TypeOK` |
| `PairsTradedOnce` | `Spec => []OneTrader`, if nothing panics |
| `EnginesUnique` | `Spec => []OneEngine` |
| `CountsExact` | `Spec => []CountExact` |

The argument. `OneEngine` and `OneTrader` need to know of the map that whoever is
registered is alive, past its initialisation and of the pair it is registered
for (`MapIn`). Then a goroutine enters only where nobody is, so it takes nobody's
place; and what `stopWorker` closes is the one open engine of the pair. Without
panics whoever stops a worker is that worker, and no goroutine is left in a cycle
with a closed engine. The lemmas follow the ways the map can
change: `MovedMap`, `UnknownMap` and so on, and each action cites one of them.
`CountsExact` says that without lost answers the count is exact in every state:
that the limit can be passed (`limit_raced`) is a race and no miscount.

## 5. The engine

`PriceWindow.tla` is `strategy-core/src/state/sliding_window.cpp` as operators
on a sequence of price points; `Engine.tla` is the engine (`strategy.cpp`, the
rules, `api.cpp`) under the calls a signal generator makes.

| model | code |
|-------|------|
| `Admits`, `Jumps` | the refusals of `UpdatePrice` |
| `Accepted`, `Ready`, `PriceAgo` | eviction, `IsReady`, `GetPriceSecondsAgo` |
| `EntryRule`, `ProfitRule`, `TrailingRule` | `MomentumEntryRule`, `FixedProfitExitRule`, `TrailingStopExitRule` |
| `Valid`, `Init`, `UpdateConfig` | `BuildRules`, `Strategy_Create`, `Strategy_UpdateConfig` |
| `LoadPoint`, `FinishLoad` | `SlidingWindowPriceState::Init` within `Warmup`, one point of the history per step |
| `Tick` | `SignalGenerator.GetSignal`: `UpdatePrice`, and `GetSignal` when the tick was taken |
| `SetInPosition`, `ResetPosition`, `RetrySignal` | what the worker's handlers call |
| `ticks`, `feed` | history: every point the engine believed, and the newest timestamp it was offered with a price; the engine never reads them, only the bound `MaxTicks` does |

Every call of the engine runs under the generator's mutex, so each is one step.
The worker, its handlers and the refresher may call in any order; `Next` lets
them. Prices are natural numbers, and a percentage is a fraction of `Unit`: the
comparisons of the rules are multiplied out, so that they are exact where
the code rounds doubles. The code's constants (jump threshold and gap, eviction
tolerance, staleness) are CONSTANTS.

- `engine`: timestamps 0 to 5 and prices 97, 100 and 102, so that one step is
  believed and the other is a jump, and one point without a price; a window of 2
  with tolerance and staleness 1 and a jump gap of 2; four points believed. Four points
  with gaps are enough for an entry to be evicted, for the window to be ready
  with a lookback that finds nothing, and for a jump to be refused and later
  believed; three prices are enough to arm a trailing stop and to fall through it. The three
  configurations are a dummy, a profit target and a trailing stop; each may
  replace the other while the engine runs.
- `engine_config`: a configuration with a longer window is taken over while the
  engine runs (section 9).

`TradingPair` has the same machine as `strat`, with what the rules decide left
to choice: `Signals` and `AfterSignal` there allow every signal `Engine` can
give in a state.

### Theorems (`EngineProofs.tla`)

For any points, configurations, limits and window constants with
`Staleness <= Tolerance` (`WindowAssumption`, `EngineAssumption`):

| theorem | statement |
|---------|-----------|
| `Invariant` | `Spec => []IInv` |
| `EngineTyped` | `Spec => []TypeOK` |
| `EngineFollows` | `Spec => []FeedFollowed` |
| `PeaksFresh` | `Spec => []FreshPeak` |
| `EvictionUnseen` | `Spec => []EvictionInvisible` |
| `BuysJustified` | `Spec => BuyJustified` |
| `TrailingStays` | `Spec => TrailingLatched` |
| `LossesCut` | `Spec => StopLossBinds` |

The argument. `IInv` relates the entries to everything believed: both are in
the order of time (`Sorted`), the entries are the end of the history (`EndOf`),
and every dropped point is older than window and tolerance (`Outlived`).
`AcceptedKept` shows that a tick preserves this. From it `EvictionUnseen`
follows: the search for a lookback has one possible result in a sorted
sequence (`SearchUnique`); either it lies within the entries, or it was
dropped and is too stale to count, which is where `Staleness <= Tolerance` is
needed. `BuysJustified` uses that the entries are part of the history.
`FeedFollowed` is inductive: a tick is refused only for being old, without a price,
or a jump within `JumpGap` of the last one believed. `StopLossBinds` needs
arithmetic (`TrailAboveLoss`): in the trailing phase the stop is a fraction of
a peak that has passed the activation, so it lies above the loss limit when the
configuration starts it above.

## 6. Backtests

In a backtest the worker, the execution service and the database are the real
ones; the gateway is replaced by `SimulatedClient`, which replays a file of
prices, the clock is the last candle served, and no periodic task runs
(`go-bot/cmd/server/backtest.go`). `src/simulator` is a second, independent
implementation of the same strategy, whose README wants both logs to be equal.

| model | code |
|-------|------|
| `SimulatedClient`: `Loaded`, `Artificial`, `Joined` | `loadPriceHistory`, row by row |
| `SimulatedClient`: `Served`, `Bought`, `Sold`, `StopPlaced`, `Canceled`, `Closed` | `GetTicker`, `CreateOrder`, `CreateStopOrder`, `CancelOrder`, `Close` |
| `Backtest`: `ReadRow`, `StartBacktest` | `NewSimulatedClient`; the row is any of `Steps` |
| `Backtest`: `ServeCandle` | GetTicker and GetSignal of `processSignal`; the engine is `Engine` itself, `INSTANCE`d |
| `Backtest`: `SignalBuy` ... `SignalWaitingSellFill` | the handlers of the signals |
| `Backtest`: `EndOfData` | GetTicker on the used-up history: the log is written, the process exits |
| `Simulator`: `LoadPriceHistory`, `RunSimulation` | the functions of that name in `src/simulator/src/simulator.cpp`; `Read` and `Loop` are their loops, as functions of the row and the candle reached |
| `abandoned` | history: some asset was given up as too little for a position |
| `Backtest`: `Budget`, `Allowed`, `ApprovedUnits` | `EvaluateEntry`, of the stored balance in the pre-check and of the fetched one in the final check |
| `Backtest`: `FormatOrderAmount` | `formatOrderAmount` of the execution service |
| `stored` | the row of trading.balances for the cash |
| `refused` | history: a purchase was refused for want of budget |

Nothing runs beside the one worker and no call fails, so a handler is one step.
Branches that need a failing call, a second writer or an order that stays open
are left out; so are a refusal by the final check of a purchase the pre-check
has allowed, a purchase that costs more than there is and one of less than a
lot. Were one of them reachable, TLC would report a deadlock, which the run
checks for (`Exited` is the process after its end). The backtest starts from an
empty database, and no limit on the budget per trade is configured.

`stored` is the row of trading.balances for the cash. The handlers write it
whenever they fetch a balance: before a sale, not after it, and after a
purchase. The pre-check of a purchase reads it, and returns before the balance
is fetched. Every amount that is ordered is truncated to a multiple of `Lot`
(`FormatOrderAmount`, the precision of the instrument), while a purchase leaves
its amount less the fee, so that a sale leaves a remainder of less than a lot,
which the next sale sells with what was bought since.

The run `backtest` reads every file of up to five rows one or three intervals
apart, off the interval, out of order, without a price, and with jumps that the
client or the engine does not believe; a profit and a trailing strategy; a
capital whose share is below what a trade needs, just enough for it, and enough
for a later trade after a loss. Five rows make eight candles at most, enough for a
window to fill, a buy, a protected position, a sale, a second buy and the signal
for a third. A purchase takes one of `Shares` shares of the capital; the code
takes a tenth, which five rows never use up, so the run takes a half: two purchases
are made, and a third is refused. The theorems hold for any number. Amounts
are in thousandths of a unit and a lot is twenty of them, prices natural numbers,
so that fees, shares and lots round as written in the module; the log's percentages are left out.

`Parity` holds where the two programs mean the same. Their candles are equal
for every file that is not out of order beyond the period (`StopsOnce`). Their
trades are equal for a profit strategy whose target covers the taxes of both trades
(`PaysTaxes`), on candles one interval apart (`Regular`, which all price files
of the repository are), where a lot is not worth a position (`LotWorthless`,
true of the precisions and prices the instruments have), and as long as no purchase was refused for want of
budget, which the simulator does not have, and no asset abandoned, which it
cannot do. None of these can be dropped; what they leave out is in section 9.
`FundsLast` says how far the premise on the budget goes: every trade takes a
share of the initial capital, so that none of as many purchases as there are
shares is refused, whatever the earlier ones lost, and although the pre-check
does not know what the last sale brought.

`Agreed` is about books with remainders: a flat pair holds less than a lot. A
remainder that were worth a position would hide the next purchase from the
handler, which is why it needs `LotWorthless` as well.

### Theorems (`BacktestProofs.tla`)

For any file of prices, period, interval, tax, engine constants, configurations
and capitals (`ClientAssumption`, `BacktestAssumption`, `BacktestConfigs`; the engine's jump
gap is within the interval, and staleness and interval within the tolerance by
which it keeps more than its window, which in the code are 120 s and three times
300 s):

| theorem | statement |
|---------|-----------|
| `Invariant` | `Spec => []IInv` |
| `BacktestTyped` | `Spec => []TypeOK` |
| `GapsAreFilled` | `Spec => []GapsFilled` |
| `OneOpenOrder` | `Spec => []OnlyStopOpen` |
| `StoryAgreed` | `Spec => []Agreed` |
| `StopStays` | `Spec => []StopKept` |
| `LogIsFaithful` | `Spec => []LogFaithful` |
| `SimulatorAgrees` | `Spec => []Parity` |
| `FractionsLast` | `Spec => []FundsLast` |

The argument. `IInv` has three parts. `Typed` holds the books (`Books`: the only
open order is the pending stop order, the trades end where the counter says)
and the candles (`Spaced`: in the order of time, less than two intervals
apart). `GapsFilled` is a fact about one row (`JoinedSpaced`): the candles put between two
rows are one interval apart, and the last one is less than two before the row,
because a gap is less than `n + 1` intervals when `n` fit into it. `Story` ties
engine, position, trade and holdings together at every phase of a cycle; it is
`Agreed` extended to the steps between tick and handler. That a remainder does not
stop the next purchase is `NothingUnheld`: less than a worthless lot is no position. `StopKept` needs
`Protected`: after a tick a protected position has its stop order, or has been
signalled for sale at a price below the stop. The tick that cancels the stop
order is the tick at which a profit strategy's own stop loss is met at the same
price, and it cannot be refused as a jump, because candles one interval apart are further
apart than the engine's jump gap. This is where `Regular` is needed.

`LogFaithful` is about the log at the end; `Logged` says of the log at any time
that each trade starts, and each finished one ends, at a candle served by now. A
purchase writes over an unfinished trade, a sale ends the last one, nothing else writes.
The proof does without the premise `~abandoned` the property used to have: an asset
given up spoils the books, but not the order of the log.

`SimulatorAgrees` compares a reactive system with two loops over its whole
input, and goes through them together, one row and one candle at a time.
`Copied`: when the client has read so many rows of the file, its history is the
simulator's after as many (`LineSame`), but for rows after one past the period,
which `StopsOnce` makes harmless. `Beside`: when the client has served so many
candles, the simulator's state after as many (`Sim`) is the client's log with
its unfinished trade (`Match`), and between a tick and its handler what the
engine signals is what the simulator's pass over this candle does (`Told`).
Three facts carry a tick over. The engine keeps the candles from some position
on (`Kept`), and those it has dropped are older than any lookback reaches, so
that its window answers like the simulator's search of the whole history
(`AgoSame`, `EntrySame`). Its exit rule is the simulator's (`ReasonIs`). And the
reason the log derives from the result of a sale is the rule that fired
(`VerdictSame`): a sale by stop loss loses money (`SellsAtLoss`), a sale at the
target does not, which is where the taxes come in (`SellsAtTarget`). Both loops
are recursive functions, of which the proof uses the recursion equations only;
`ReadIs` and `LoopIs` show by the least counterexample that functions with these
equations exist.

`FundsLast` needs `Funded`: with `k` trades in the log the cash, and the stored
balance too, is at least all shares of the capital but `k`. A purchase takes at most
a share (`ShareIs`, `CostIs`) and stores what it leaves, and
only a purchase lowers the cash; the stored balance is never more than the cash
(`Typed`), so that what the pre-check allows the final check allows. That every purchase adds a trade to the log
instead of writing one over is `Story`, and fails for assets given up.

## 7. Mutants

Each property of a passing run has at least one mutant: an operator with the
error a change of that code might bring in, defined beside the original and
marked `mutant`, under which TLC finds the property violated with the same
configuration. They are listed in `PROJECT.json`.

## 8. Plan

Done: `Guard` with `Backoff`, `Ledger`, `TradingPair` and `Reconciler` for one
pair with `Lifecycle` as what they implement, `Workers`, `PriceWindow` and
`Engine`, `SimulatedClient`, `Simulator` and `Backtest`, with the theorems above.
Left, most important first:

1. What remains of `Story` with restarts, which leave the strategy to be rebuilt
   from the stored position; `MarketRowFinal` does not hold with them (section 9).
2. Two pairs on one base asset: SyncPositions compares each position with the
   balance of the asset.
3. A second backtest over a used database: warm-up from ticks that lie in the
   future, exchange order ids that start again at 1.
4. A trailing strategy in `Parity`, with the delayed exit as a difference that is
   stated and bounded.
5. An abstract breaker with one outstanding probe that the guard implements on
   keys without late answers.

## 9. Where the code and its words disagree

Each has a run whose property quotes the words; TLC's counterexample is the
disagreement.

- `guard_probe_leak`: "releases a probe when the request ends locally". In
  `CreateOrder` a failed insert returns between Allow and the call without Release; the
  key stays blocked until the bot is restarted.
- `position_deleted`: SyncPositions "aligns database positions with exchange
  balances". It compares a balance stored before the buy was filled with a
  position created after it, and deletes the position of lots that are held.
- `engine_config`: "IsReady() returns true once at least
  window_duration_seconds of history has been accumulated, guaranteeing that
  all configured lookbacks can be resolved". `Strategy_UpdateConfig` replaces
  the rules, whose lookbacks were checked against the new window length, but the
  window keeps the length it was created with: it says it is ready before it
  reaches back that far, and drops what the longer lookback needs.
- `limit_raced`: "MaxOpenPositions defines the maximum number of simultaneous
  positions allowed". It is checked against the positions that exist; two
  workers that ask before either has bought both buy. Between an order and its
  fill nothing counts it, so a pair whose buy is left to SyncOrders takes no
  place either.

Further disagreements, each found with a property that the project no longer
runs, or with a premise of one it runs taken away:

- UpdatePosition "updates an existing position in the database with
  selective fields based on the provided updates" (position.go:94). It reads the
  row again under the portfolio's lock, but overwrites both flags with what the
  caller read. SyncPositions adopts the lot of a buy whose position is not
  created yet, reads this adopted position, finds that the owner has traded a
  lot, and writes the quantity back with the unknown origin it read, after the
  worker has linked the position to its order; from then on nothing sells it.
- A worker is taken out of the map "so the reloader can restart
  it" (orchestrator.go:205). A panic is recovered around the initialisation too,
  and by the pair's name: a goroutine that panics while it initialises stops the
  worker that was registered meanwhile, which has not ended and finishes its cycle.
- "Check risk first using local data to avoid unnecessary
  exchange requests" (signal_handler.go:245). The local balance misses what the
  last sale brought; a refusal returns before the balance is fetched, so that the
  next signal meets the same number. In a backtest, where no task refreshes it,
  every later purchase is refused with the cash for it in hand.
- "concurrent requests for the same key remain blocked" while a probe is out
  (guard.go:97-98): a request admitted before the block answers while the probe
  is out, which takes the probe's mark back; when the next cooldown is over a second
  probe goes out beside the first.
- "Reset the stop loss active flag to allow re-arming" (reconciliation.go:254):
  a worker that raises the stop price writes the flag back as it read it
  (position.go:119). `ProtectionRestored` names it as an exception.
- "Explicit reconciliation after failures or restart" (ARCHITECTURE.md:18): when
  the bot dies between storing a fill and creating the position, the row is
  closed and nobody looks at it again; the lot is adopted with unknown origin,
  which the worker does not manage.
- "should be identical" (`src/simulator/README.md:144`): with a trailing strategy
  a sale at or below the entry price is left to the stop order
  (signal_handler.go:524) even when the price is still above the stop price, as
  it can be if the trailing stop lies below the entry price. The handler of the
  next tick cancels the stop order and takes the signal back
  (signal_handler.go:572), so that the exit comes two candles late or, when the
  price has risen, not at all, and the position goes on without a stop order.
  The log also calls an exit a stop loss by its result (simulated_client.go:225),
  the simulator by its rule. Shown by `Parity` and `StopKept` without their
  premise on the type.
- The same words on exits below the taxes: the log names the reason of a sale by
  its result, so that a sale at a target which does not cover the taxes of both
  trades is logged as a stop loss (simulated_client.go:225-228), by the
  simulator as what it was. Shown by `Parity` without `PaysTaxes`.
- The same words on files out of order: at the first row past the period the
  client stops reading (simulated_client.go:549), the simulator skips the row
  and reads on. Shown by `Parity` without `StopsOnce`.
- The same words on irregular files: of two rows at almost the same time the
  engine refuses the second as a jump while the simulator uses it; rows that are
  not whole intervals apart leave a gap longer than the staleness limit. Shown by
  `Parity` without `Regular`.

Other things the models show, not kept as runs because no document promises
otherwise or because they need rare combinations of faults:

- a pair whose stored configuration no engine accepts is never told to end, and
  stays scheduled for as long (`DisableCompletes` without its exception);
- a goroutine that initialises slowly can register for a pair that has been
  disabled in the meantime, and trades it: refreshStrategies reads enabled pairs
  only and never tells it to stop;
- a stopped worker that finds its successor under its own name goes on beside
  it until that one ends, harmless because its engine is closed, but for the
  cycle it was in: a worker stopped by another goroutine's panic trades on to the
  end of that cycle, while its successor may begin (`OneTrader` with "panic");
- when the price falls so far that a position is worth less than the deletion
  threshold, it is deleted without a sale; in a backtest its trade stays
  unfinished and is overwritten by the next, and when the remainder is worth a position again
  the buy is skipped and waits for a reconciler no backtest has (`Agreed` without
  `abandoned`);
- a stop order triggers after the worker has listed the open orders,
  SyncStopOrders stores that it is closed, and the worker stores "open" over it, as it
  read it; no fault is needed. The row is right again after the next SyncStopOrders
  (`RowFinal` with the task "stops");
- a stop order whose answer is lost and which then cannot be stored from the
  open-order list (faults db, lost) is followed by a second one (`OneStop`);
- an order that is found, but whose id cannot be stored in any attempt of the
  retry policy (link, lost), has its row rejected (`RejectOnlyUnsent`);
- an order that reaches the exchange after the last lookup (late) is followed by
  a second buy (`NoDoubleBuy`);
- a restart while a buy is open lets a pair being disabled retire before the
  fill (crash, disable, gateway: `DisabledWhenFlat`);
- after a restart the engine is in position while a market sell is open; the worker
  looks for its stop order, reads the sell as open, SyncOrders stores that it is
  closed, and the worker stores "open" over it (crash: `MarketRowFinal` and
  `RowFinal`), until SyncOrders reads the order again;
- an owner's sale right after a fill lets the worker buy again while SyncOrders
  still holds the first fill; the position created for the first order turns the
  strategy to IN_POSITION, and the worker stores the open-order list it read over
  the newer status of the second (manual: `RowFinal`);
- the same without an owner: a stop order from an earlier position, whose row
  could not be stored so that the sale did not cancel it, triggers on the lot of
  the next buy while SyncOrders still holds that fill; the worker buys again, the
  position of the first fill is created while the second buy is open (db:
  `RowFinal`, `DisabledWhenFlat`). It shows with `MaxOrders` 5 and `MaxRows` 6.

`sync_links` has the largest fault set under which its properties hold and which
fits TLC. All three tasks together with their faults do not, but for `sync_live` with one row: `sync_tasks` leaves
SyncOrders to the other runs, and the theorems of section 3 hold with all tasks, but for the last three.
`sync_orders` has the largest under which all
of its properties hold for every bound (`StoryProofs`).

## 10. Not modelled, and why

- Two pairs in the composition with the tasks: the base asset they may share in
  SyncPositions (section 8).
- Initialisation that fails after its engine was made (warm-up, "already
  exists") does not close the engine: a leak of memory, not of behaviour.
- Orders of the account's owner that rest on the exchange.
- A backtest over a used database, SIGINT (which exits without writing the log), the
  parsing of files, and the percentages of the log.
- The rounding of doubles: the rules and amounts are compared exactly. In
  `TradingPair`, whose quantities are whole lots, what truncation leaves after a
  sale is no lot; remainders are modelled in `Backtest`.
- Caps of the risk manager on budget and units a backtest does not set, and its verdict in
  `TradingPair`, where it is a choice.
- Parallel ticker fetch of SyncPositions: a ticker that is missing is a choice.
- Python gateway with its dummy exchange, gRPC client, configuration, logging,
  pool, metrics: stateless, I/O or test doubles; their outcomes are the faults.
- Market data, clean-up job, health monitor, start-up retries, ml engine:
  nothing in the trading loop reads their state.

Liveness (`KeyRecovers`, `BuyResolves`, `ProtectionRestored`, `DisableCompletes`,
`WorkerRestarts`) is model-checked only: it is out of the
prover's reach. Every safety property of the passing runs is a theorem; those
of the pair under the faults section 3 names.
