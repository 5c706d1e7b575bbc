# A TLA+ model of doomtrade

doomtrade is a trading server in TypeScript (Express 4): agents and *themes*
(strategies on a timer) trade on simulated accounts, decisions trade on a main
account that is simulated or live. Everything is kept in one SQL database,
SQLite (sql.js, in memory, written to its file on SIGINT and SIGTERM) or
Postgres (one connection, one statement at a time, persistent at once).

The program has no locks and, apart from its migrations, no transactions. What
makes it hard is therefore the same everywhere: a handler awaits the database
many times, and at every `await` another handler, another timer tick or the end
of the process may come in between. The models take **one statement, with the
synchronous code after it, as one step**. On SQLite a chain of awaits runs
through without another handler in between (its awaits are microtasks), so the
interleavings are those of Postgres; on both backends they are those of an
`await` on the network.

Paths below are relative to `src/src/` unless they begin with `docs/`.

## 1. Inventory

| Component | State | Operations | Interacts with | What makes it correct |
| --- | --- | --- | --- | --- |
| Agent account, `executor/agent-exchange.ts` | `agent_balance`, `agent_positions`, `agent_orders`; `initialized`, `priceCache` | `initBalance`, `placeOrder` (`fillOrder`), `getBalance`, `getPositions`, `recordCheckpoint` | strategies, routes, price cache, admin reset | the three tables tell one story; nothing sold short or bought on credit; reported P&L is the money made; the peak only rises |
| Main account, `executor/simulated.ts` | `sim_balance`, `sim_positions`, `sim_orders` | `placeOrder`, `cancelOrder`, `checkPendingOrders` | trade engine | as above; an order that waits has one life, whatever its id |
| Theme sub-account, `themes/theme-sub-account.ts` | `theme_subaccounts`, `sim_sub_positions`, `sim_sub_orders` | `initialize`, `placeOrder` | strategies, theme runner | as above |
| Live executors, `executor/alpaca.ts`, `ccxt.ts` | the broker's | `placeOrder`, `getBalance` | trade engine | an order that was placed is known to the application |
| Trade engines, `engine/*.ts` | `trades` | `executeDecision`: risk checks, order, log | decisions, executors, settings | limits hold for the orders that were placed, not only for the checks |
| Theme runner, `themes/theme-runner.ts`, `theme-store.ts`, `api/routes/themes.ts` | `themes`, `theme_evaluations`, `theme_signals`; `timers` and Node's intervals | create, patch, delete, tick, evaluate, `startAll` | strategies, sub-accounts | the intervals that tick are those the rows ask for, after any crash |
| Congress follower, `themes/strategies/congress-follower.ts` | `theme_signals` | `evaluate` | Bargo client, an account | each disclosure is decided once, within the limits |
| Bargo client, `themes/sources/congress-trades.ts` | response cache, quota blocks | `fetchSignals` | congress follower | the day's last requests are spared; an answer is not older than its time to live |
| Momentum rotation, `momentum-rotation.ts`, `momentum-screen.ts` | `theme_signals` | `evaluate`: screen, exits, entries | bars, indicators, an account | one trade per symbol, side and day; limits; the book follows the screen |
| Indicators, `research/indicators.ts` | none | `sma`, `ema`, `rsi`, `smaCrossover`, `combinedSignal` | momentum screens, research | equal to their definitions |
| Agent-driven, `agent-driven.ts`, `agent-signal.ts` | `theme_signals` | `evaluate` | an A2A endpoint, an account | nothing is traded that was not recorded; limits |
| Agents and their pipeline, `agent/*.ts`, `api/routes/agents.ts` | `agents`, the agents' rows in `themes`, one exchange in memory for each | seed, register, PATCH, DELETE, direct trade, `runCycle` | strategies, accounts | an agent's limits hold for what its own cycles buy, whoever else trades its account |
| A2A coordinator, `integration/a2a-trading-coordinator.ts` | none that outlives a cycle | `runCycle`: research, validate, execute | pipeline, accounts | only trades of the researcher that the review let through are copied |
| Price cache, `market/stock-price-cache.ts` | `prices`, `refreshing` | `refresh`, `get` | all agent accounts | prices only move forward |
| Dashboard cache, `api/routes/dashboard.ts` | memo cache | `get` | readers | not older than its time to live |
| Settings, `db/settings-store.ts`, `api/routes/management.ts` | `settings`, the shared config | PUT risk limits, load at boot | trade engine, boot | acknowledged limits are kept, and are those that bind |
| Database and migrations, `db/database.ts` | `_migrations`, the file of SQLite | `openDatabase`, `runMigrations`, `persistDatabase` | boot, everything | each migration whole or not at all; a server that serves has them all |
| Admin reset, `api/routes/health.ts` | fifteen tables | `POST /api/admin/reset` | all accounts | accounts start over |
| Trading mode, `api/routes/mode.ts` | `currentMode`, `modeChangedAt` | toggle | responses only | confirmation and cooldown |
| Portfolio, `portfolio/*.ts` | `portfolio_history` | snapshot, P&L, checkpoint | accounts | a checkpoint is a state the account was in |

`PROJECT.json` lists every component with its status, and the hazards of the
code at their lines.

## 2. Modules

| Module | What it is |
| --- | --- |
| `FillRules` | The arithmetic of a fill (`fillOrder`, lines 217-283): what is affordable, the cash and position rows it makes, the P&L it reports. All modules with an account use it. |
| `Ledger` | The abstract specification: an account is a list of atomic fills, each paid for by the cash the earlier ones left and, for a sale, covered by the units they bought. |
| `AgentExchange` | The agents' accounts statement by statement: two statements of `initBalance`, six of `fillOrder`, any number of callers, restarts at any of them. Refines `Ledger`. |
| `AdminReset` | EXTENDS `AgentExchange`: the wipe of the admin reset, table by table, beside the fills. |
| `SimulatedExecutors` | The main account, with orders that wait, and the theme sub-account: one module, two classes (`executor`). Refines `Ledger`. |
| `TradeEngine` | `executeDecision` on the main account: quote, four risk checks, order, trades row; overlapping requests, midnight, restarts. |
| `LiveTrading` | EXTENDS `TradeEngine`: a broker that may answer anything in place of the simulated executor. |
| `ThemeRunner` | The life of themes: rows, foreign keys, timers, requests, evaluations, boot. |
| `CongressFollower` | One theme's evaluations: the fetch, the filter against `theme_signals`, sizing, order, refresh of the snapshot, record. |
| `Indicators` | The technical indicators and signals as operators, with the reference definitions they are compared to. |
| `MomentumRotation` | One theme's evaluations: screen (with `Indicators`), exits, entries, hashes that name the day. |
| `AgentPipeline` | Agents, their routes and the pipeline's cycles with the agent-driven strategy, over accounts whose `placeOrder` is one step. |
| `A2ACoordinator` | EXTENDS `AgentPipeline`: the three roles of an A2A cycle, next to the pipeline, over the same agents. |
| `MarketCaches` | The response cache and quota of the Bargo client, the dashboard's memo cache, the price cache: slow, failing and overtaking answers. |
| `BootSettings` | Boot, migrations and risk limits of one or two servers on one database. |
| `FillRulesProofs` | Lemmas the other proofs share: the amounts of a fill, and sums over finite sets. |
| `AgentExchangeProofs`, `TradeEngineProofs`, `CongressFollowerProofs`, `SimulatedExecutorsProofs`, `A2ACoordinatorProofs` | The theorems about these modules; `AgentExchangeProofs` also has those about `AdminReset`. |
| `ThemeProofs` | The theorems about `ThemeRunner` and `MomentumRotation`, and about `Indicators`. (It extends the first two, so `MomentumRotation` has names of its own for what both have: `RotationSpec`, `step`, `Crash`.) |
| `InfrastructureProofs` | The theorems about `BootSettings` and `MarketCaches`. |
| `MC*` | Feeds, requests, symmetries and small constants for TLC. |

Three granularities are used for the same `placeOrder`, each where it is enough.
`AgentExchange` and `SimulatedExecutors` have its statements, and show that where
calls for one account take turns they implement an atomic fill. `TradeEngine`
has the order as one step between the statements of the engine, and the
strategies' modules have it as one step of a cycle.

### AgentExchange

`opened` and `balance` are `agent_balance`, `positions` is `agent_positions`.
`agent_orders` is kept as sums: `book` (units, money traded, fees, P&L for each
agent and symbol) and `flow` (the cash its rows moved), which is all its readers
derive from it. `at` is where a caller is in `fillOrder`, `seen` and `next` are
its locals. `instance` is the `initialized` promise, `priceCache` the map.

| Action | Code |
| --- | --- |
| `LookForBalance`, `InsertBalance` | `initBalance`, SELECT and INSERT |
| `RefuseOrder`, `PlaceOrder` | `placeOrder` up to the first await: quantity, price, cache |
| `ReadBalance`, `ReadPosition`, `RejectOrder` | `getBalanceRow`, `getPositionRow`, and the two checks |
| `UpsertPosition`, `CalculateEquity`, `UpdateBalance`, `RecordOrder` | the writes, and the equity read between them |
| `Restart` | the process ends; the tables stay, callers and maps go |

Money is an integer number of 1/`Scale` units and `FeeRate` is in 1/`Scale`, so
that sums are exact. The code computes with doubles and forgives 0.01; what the
models show is the arithmetic the doubles approximate, not their rounding.

`AdminReset` adds the handler's position in its list of tables (`wipe`); of the
fifteen statements three empty an agent's account, and those are its steps. It also adds
what a missing balance row does to a fill: `getBalanceRow` throws
(`ReadNoBalance`), an UPDATE of no row does nothing (`UpdateNoBalance`), and
the memory keeps saying that the account is open. `met` is history: the agents
whose fill met a wipe, or whose wipe broke off.

### CongressFollower

`Feed` is what will ever be disclosed, `published` and `expired` how far it has
come and how much of it is too old. `processed` is `theme_signals`. Each
evaluation has its locals: `todo` (fetched), `fresh` (to decide), `known`
(`seenHashes`), `equity`, `funds`, `rows` (the snapshot it checks against).
`placeOrder` is one step here: `AgentExchange` refines the atomic ledger when
the calls for one account do not overlap, and where they do, the account itself
is the problem, not this strategy. The early return for a sub-account that does
not exist is left out (see `ThemeRunner`), and the feed's cache is in `MarketCaches`.

### ThemeRunner

`row` is `themes`, with the ids not handed out yet (`Unborn`) and deleted
(`Gone`). `accounts` and `records` are the tables with a foreign key on it.
`timers` is the map of the runner and `ticking` counts Node's intervals: they are
two things, and stop can only clear what is in the map. Every request is a
handler with its step (`at`), every evaluation has a `stage`. PATCH is one
UPDATE and nothing else. `RemoveFails` is a rejected DELETE: Express 4 does not
await the handler, nothing listens to `unhandledRejection`, the process ends, and
the platform starts it again (`railway.json`, ON_FAILURE).

### TradeEngine

`at` is the await a request is at in `executeDecision`, `order` what it executes,
`failed` the checks that did not pass, `seen` the balance row `getBalance` read
before it read the positions, `result` the `OrderResult`. `trades` is the table,
kept as its readers use it: how many rows count today, and the sums of
`realized_pnl` and of the buys' fees. `placedToday` and `unlogged` are history:
what the executor took, and what a crash left without a row.

The simulated executor has the prices `createExecutor` gives it: `getCurrentPrice`
answers null, so a position counts at its entry price (drawdown is made of
realised losses and fees only), a limit order crosses its own limit and is filled
at it, and a stop order is filled at once, at the last fill of its symbol or not
at all (`FindNoPrice`: the request fails and nothing is logged). Pending orders
are therefore not reached in production.

`Slack` is what overlapping requests may add to a limit: one for each request but
one, because all may pass a check before the first is logged. The limits are
stated with it, so that the run and the theorem are about overlapping requests
and not about a discipline the code does not have.

`LiveTrading` replaces the steps that ask the executor. The broker's answers are
any; the steps of the engine itself are those of `TradeEngine`.

### SimulatedExecutors

`pos`, `balance` and `opened` are the position and balance rows, `orders` the order
table, row by row: `status` and `price`, and in `of` the row it was first placed
as, which the code carries as `clientOrderId`. `todo` is the list
`checkPendingOrders` selected. `instance`, `at`, `seen` and `next` are as in
`AgentExchange`. `TriggerOrder` and `PlaceAgain` are the two steps between which
the order has no row that counts. A cancel has two steps and may come between any two
statements; orders and sweeps take turns (`TakesTurn`), because what two fills
of one account do to each other is the subject of `AgentExchange`.

### Indicators and MomentumRotation

A number is a fraction (`Q`): averages are exact where the code has doubles. The
recursions of the code (a running sum, an EMA, Wilder's smoothing) are recursive
functions; `EmaReference` and `RsiReference` are closed forms. `CombinedSignal` is
the loop over the bars as the choice of the least lag.

In `MomentumRotation`, `step` is where the evaluation stands, `remaining` what
the current loop has left (symbols to screen, rows to sell, signals to buy),
`selected` the top N, `rows` the positions as they were read and `order` what is
being placed, with the day its hash names.
`clean` and `since` are history: did anything fail in this cycle, and when did
it begin. Midnight comes between any two steps and brings a bar for each
symbol. Reads of a theme's own rows are one step with what follows, since
nothing else writes them; whole units are bought where the code divides doubles.

### AgentPipeline and A2ACoordinator

A *runner* is one `runAgentCycle` under way: the pipeline's and the
coordinator's. `run[r].at` is its await; `equity` what it read of the balance,
`done` the hashes it recorded, `order` the signal it is placing. `queue` is the
list `runCycle` took of the agents. The answer of an agent is any list of
signals, each chosen when its turn comes (`DecideSignal`); a signal that is
skipped changes nothing and is a stutter. `extra` counts buys the limits of a
cycle cannot see: a direct trade, a copied one, one placed while another cycle
of the same agent is under way. `Seeds` are set to the agent-driven strategy, as
PATCH would; other strategies are `"unregistered"`: the cycle returns.

`A2ACoordinator` adds `stage` (the await of its cycle), `signals` and the role
histories `reviewer` and `means`. Its cycles are those of `AgentPipeline` with
the coordinator as the runner (`Begin`), and `Next` interleaves both modules.

### MarketCaches

`subject` says which of the three memories a behaviour follows; they share only
the clock. What is outside is a `version` that grows, so the age of what is
served is `began[t]`, the version at the beginning of tick `t`. `waiting` has
each caller's request: when it was asked, from which version on it may be
answered, and the place it has in the API's count (`ordinal`). `excused` and
`misled` are history: requests nothing in the code could have held back, and
whether a reply said something that is not true of today's quota.

### BootSettings

`stored` is what is on disk (Postgres' committed state, or SQLite's file),
`memory` what sql.js has; both hold the effects of migrations (`built`), the rows
of `_migrations` (`recorded`) and the row of risk limits. `phase` and `at` are
where a server is in its boot, `applied` the set it read, `tx` its open
transaction. `redundant` is the set of migrations that add a column which is
there already. A statement outside a transaction, and a COMMIT, is `Write`.
The lock Postgres takes is a guard: a statement that would do what another open
transaction has done waits for it. `put` and `written` are requests; the answers to one
server's writes come in the order they were sent.

## 3. Runs

| Run | Bounds | What it shows |
| --- | --- | --- |
| `agent_exchange_turns` | 1 agent, 2 symbols, 2 prices, quantities 0-2, 4 orders, 1 restart | Turns taken on an account: the tables agree outside fills (`Conserved`), P&L is explained, long only, the peak never falls, and the order rows are a run of `Ledger` unless a crash cut a fill of theirs short |
| `agent_exchange_restart` | 2 agents, 2 callers, 2 orders, 1 restart, 1 reset | Accounts do not disturb each other; an account no fill of which was cut short or met by the wipe starts over and adds up (`AccountsStartOver`); only fills and resets move cash; every call is answered |
| `sim_executors` | both classes, 1 symbol, 2 prices, 4 calls, 1 restart | Filled orders explain the account and are a run of `Ledger`; an order that waits is never filled twice |
| `engine_overlap` | 2 requests at once, 3 requests in all, 3 symbols, 2 prices, 2 days, 1 restart | limits exceeded by the overlap only; the trades rows explain the account; a halted account stays halted |
| `engine_live_log` *(violation)* | live mode, 1 request | an order was placed and its row is refused |
| `themes_lifecycle` | 1 theme, 2 requests, 2 evaluations, 2 restarts, Postgres | the intervals follow the rows; one interval each; funded before they tick; an enabled theme is evaluated for ever |
| `congress_cycles` | feed of 7 over 3 symbols with a repeated hash and a missing price, 2 positions allowed, 1 restart | no disclosure is mirrored more often than the process died, none after it is recorded, none fetched stays undecided; position count, total exposure and the room for the fee hold |
| `congress_live` | feed of 2, 2 overlapping evaluations | every disclosure is decided in the end |
| `momentum` | 2 symbols, 2 prices, 3 configurations, 3-4 bars, 3 days, 3 cycles, 1 restart | limits and one trade a day (`WithinLimits`); the book follows the screen; indicators equal their definitions (the exponential ones, as an assumption of the MC module, on all series of up to 5 closes of 3 prices); a combined signal has the trend behind it, and both screens want the same trades (`SignalsAreBacked`) |
| `agents_a2a` | 2 agents in 3 roles, 2 symbols, pipeline and coordinator, 1 request, 1 restart | limits are overrun only by buys a cycle could not see; copies are vetted |
| `market_caches` | 2 callers, 2 days of 3 ticks, TTL 2, quota 2, floor 1, 1 restart | nothing served is older than its TTL; the quota's floor is spared; prices move forward |
| `boot_settings` | 2 servers, 3 migrations of which 1 may be redundant, 2 limits, 2 PUTs, 4 boots | migrations whole and complete; acknowledged limits kept and used |

**Why the bounds are enough.** A fill interferes with another through one
account row and one position row, so two callers and one symbol already have
every interleaving; a second symbol is there for the equity (a sum over rows)
and a fourth order for buy, partial sale, rebuy and final sale, which is what
the average entry price can get wrong. A reset has to meet a fill, precede one and
follow one: two orders and one reset do, with money for one order and a
remainder that shows. For `sim_executors`, four calls are an order that waits, a
sweep, a cancel in the middle of it, and one more order; one unit at two prices
makes cash the limit (31 buys one at the higher price, or two at the lower, with their fees).

In the follower's feeds each reason to treat two disclosures differently occurs:
the same hash twice, another member with the same symbol, a price that is
missing, a sale of what is held, more symbols than positions allowed. For the
rotation, three days are needed to buy, drop out and come back, and the three
configurations make each of the three limits the one that binds. Themes share
nothing but the process, so one theme with two requests and two evaluations has
every way they can meet. For the engine, a limit of one and two requests are
enough for the second to be let through by the first's delay; the third request
comes after both, and must not be (on the next day, it must).

In `agents_a2a` the validator and the executor are one agent, so that a copied
trade moves the equity the review is about, and only one of the two is seeded,
so that a role may be missing. One order price and quotes of half of it or none
make a position worth less than it cost, which is what separates equity
from cost. Two signals a cycle give the second one a position the first
one made. In `market_caches` two callers overtake each other, two days have one
midnight between, and the quota is one above its floor. In `boot_settings` there
are two servers because a deployment starts the next before the last is
stopped, and four boots allow each to die once and come back. Bounds named
`Max...` limit histories only; their guards are named in the modules.

**Preconditions.** `Overlap = FALSE` says that calls for one account (evaluations
of one theme, requests for one theme) take turns, and `SimulatedExecutors`,
`MomentumRotation` have this in their guards. Nothing in the code enforces
it; section 5 says what happens otherwise. It is how the program is used when a
cycle is shorter than its interval and nobody triggers one by hand. Where the
overlap is the rule (`TradeEngine`, `A2ACoordinator` with `AgentPipeline`,
`AdminReset`, `BootSettings`, `MarketCaches`, `congress_live`) it is modelled, and
the properties say how much of a limit it may cost.

**Fairness.** Weak fairness on the steps of a started handler: Node's event loop
runs, and the database answers. Strong fairness on a timer's tick (and the
follower's fetch), because the bound on evaluations in flight makes it
enabled again and again rather than for ever, while `setInterval` itself never
stops; nobody is assumed to place an order or to send a request.
`CHECK_DEADLOCK FALSE`: a bounded history, and a server nobody calls, may end.
Symmetry is used for symbols, callers, servers, requests and limits, in runs
without liveness and where no `CHOOSE` or order tells them apart.

## 4. Proofs

A theorem holds for every value of the constants that the module's assumption
admits. The assumptions give the constants their types; what they say beyond
that is named below. In the tables, "turns" is the hypothesis `~Overlap`: the calls for one account
(or theme) do not overlap (section 3, preconditions). All the rest is proved with
overlapping calls and restarts at any await.

**The agents' accounts** (`AgentExchange`, and `AdminReset` for the last four):

| Theorem | Statement | Assuming |
| --- | --- | --- |
| `TypeCorrect` | `[]TypeOK`: no cash and no position is ever negative | |
| `LedgerInvariant` | `[]LedgerInv` | turns |
| `AccountsConserved`, `PnlExplained`, `NeverShort` | `[]Conserved`, `[]RealizedExplained`, `[]LongOnly` | turns |
| `PeakMonotone` | `PeakNeverFalls` | turns |
| `RefinesLedger` | `ImplementsLedger`: the six-statement fill implements the atomic one, up to the fill of an account that a crash cuts short | turns |
| `ResetTypeCorrect` | `[]TypeOK`, with resets | |
| `OnlyFillsWrite` | `OnlyFillsMoveCash` | |
| `ResetInvariant`, `AccountsStartAgain` | `[]ResetInv`, `[]AccountsStartOver` | turns |

`Conserved` is not inductive: in the middle of a fill the tables disagree, and
what is about to be written is in the locals of a caller. `LedgerInv` says what
holds instead, account by account. `Alone`: at most one caller on an account.
`OpenFirst`: that account is open. `Fresh`: what the caller will write still
follows from the rows as they are. `Half`: between its first and last write the
tables differ by exactly the order row it still owes. `Reconciled`: outside a fill
they do not differ. A step keeps it by one lemma for the steps before the
first write, one for the writes, and one for the steps of others (an account
is a function of its own rows). For the refinement, `RecordOrder` is the step of
`Ledger` (`FillIsLedgerStep`), all others stutter.

A reset is not a step of any one account, and it goes on beside the fills.
`ResetInv` therefore says two things: while the wipe is between two tables, every
account with a fill in flight has been met by it, and the tables it has passed are
empty for every account that was not (`Emptied`); when it is over, `Consistent`
(the part of `LedgerInv` about one account) holds of all that were not met.

**The engine** (`TradeEngine`):

| Theorem | Statement |
| --- | --- |
| `TypeCorrect` | `[]TypeOK` |
| `DailyLimit` | `[]DailyLimitKept` |
| `PositionLimit` | `[]PositionsKept` |
| `OrdersAreLogged`, `TradesExplain` | `[]OrdersLogged`, `[]TradesExplainAccount` |
| `HaltForGood` | `HaltIsFinal` |

The properties speak of orders that were placed, the checks of rows. So
the inductive invariants count a request from the moment its check passed.
`Budget`: the rows of today and the requests that passed fit in the limit and its
slack. `Accounted`: what was placed has its row, is being logged, or was
lost. The check takes the last place (`DailyCheck`), the row replaces the request
(`DailyLog`), midnight frees the rows but not the requests in flight
(`DailyMidnight`), a crash moves what was being logged to `unlogged`
(`DailyRestart`). `Roomy` is the same for positions, with a set in place of a
number: the symbols that are open, with those that requests past their check
will buy, are no more than the limit and its slack. `Explained` adds to the sums of the
rows what placed requests have still to log, and the exposure, which is a sum
over symbols. `HaltForGood` needs only the shape of the request's
steps: who reads the account while it is halted reads that it is.

**The follower** (`CongressFollower`), for every feed:

| Theorem | Statement | Assuming |
| --- | --- | --- |
| `TypeCorrect` | `[]TypeOK`; cash and positions are never negative | |
| `NothingIsForgotten` | `[]NothingForgotten` | |
| `RepeatsAreBounded` | `[]RepeatsBounded` | turns |
| `PositionsStayCapped`, `ExposureStaysCapped` | `[]PositionsCapped`, `ExposureCapped` | turns |
| `ProcessedStaysFinal` | `ProcessedIsFinal` | turns |
| `FeeHasRoom` | `[]RoomForFee` | `995 * FeeRate <= 5 * Scale` |

What an evaluation fetched is recorded or in one of its two queues
(`Accounted`): that is all `NothingForgotten` needs. The others follow from
`SoloInv`: one evaluation is at work (`Alone`), what it still has to decide is
distinct and not in the table (`StillNew`), a hash was mirrored as often as it is
recorded, is between order and record, or was lost by a crash (`Repeats`), and
the snapshot it checks against is the table (`SnapshotsFresh`). With two
evaluations each of the last three fails. `FeeHasRoom` has a hypothesis the code does not enforce:
the settings admit a fee of 1%, and above 5/995 the theorem is false (section 5).

**The theme runner** (`ThemeRunner`, in `ThemeProofs`), with and without foreign keys, under turns:
`LifeInvariant`, `NoIntervalIsLost` (`[]OneTimer`), `TimersFollowRows`
(`[]EnabledRuns`) and `TickingIsFunded` (`[]FundedBeforeTicking`). `EnabledRuns` is about themes no request is
busy with, so `LifeInv` has to say what a busy one knows: it is the only one
(`Sole`), it found its theme's interval stopped, the row it read is the row as it is
unless a PATCH came in between (`Requests`), and `startAll` has yet to start the
rows in its list (`Owed`).

**The momentum rotation** (`MomentumRotation`, in `ThemeProofs`), for any universe,
prices, settings, days and restarts:

| Theorem | Statement |
| --- | --- |
| `RotationInvariant` | `[]RotationInv` |
| `RotationWithinLimits` | `[]WithinLimits` |
| `BookIsTheScreen` | `[]BookFollowsScreen` |
| `SalesAreCovered` | `[]SalesFill`: a sale is never larger than the position |
| `SignalsFollowTrend` | `[]SignalsAreBacked`, on bars of any length |
| `IndicatorsStayRight` | `[]IndicatorsAreRight` |
| `SeriesIsTheAverage` | `smaSeries` and `sma` agree at every bar of every series |
| `SmoothingIsTheClosedForm` | so do `ema` and `emaSeries`, and `rsi` and `rsiSeries`, and each is its closed form, for every period |
| `RsiIsPercentage` | `rsi` is null up to `period` closes, and from then on between 0 and 100, with a denominator that is not 0 |

A trade is decided, placed and recorded in three steps, so `RotationInv` says what
each knows of the one before. `BuysFit`: a buy on its way still fits, since the
exposure is read again after every fill and the equity is not. `TradedOnce`: the hash
of an order on its way is new, and from the fill to its record it counts as
traded; a crash in between is what `lost` counts. `Leaving`: what dropped out of
the screen is still in the list of the exits, is being sold, or was sold since the
cycle began. `Whole`: that list names each position once and as it is. `Whole` is what
`SalesAreCovered` needs, and why the model has no branch for a refused sale, as the
strategy has none. `SignalsFollowTrend` goes back from the last bar to the
latest cross, lag by lag: a bar with no cross leaves the averages on the side
they were (`StaysAhead`). `SeriesIsTheAverage` first shows that the running sum
has a solution (`RunningSumExists`), then that any solution is the sum over the window.

`SmoothingIsTheClosedForm` goes the same way with the exponential averages. Their closed forms
are sums of values weighted by powers, and the provers know nothing of exponents, so `Pow` is
a recursive function and the lemmas say what is needed of it (`PowersExist`,
`PowersAgree`, `PowNext`). One more value multiplies every earlier weight by one factor
and enters with its own: with `SumScaled` (a common factor can be taken out of a sum)
that is one turn of the code's loop (`EmaTermsNext`, `EmaContinues`,
`SmoothedContinues`, `AveragesContinue`). The closed form therefore solves the recursion
(`EmaWalkExists`, `RsiWalkExists`), and every solution is the closed form
(`EmaWalkIsReference`, `RsiWalkIsReference`). `RsiIsPercentage` adds that a sum
of gains or of losses is never negative. All of this is about exact
fractions; the rounding of doubles is outside the model.

**The main account and the sub-accounts** (`SimulatedExecutors`, whose guards take
turns): `BooksInvariant`, `FilledOrdersExplainAccount` (`[]OrdersExplainAccount`),
`OneLifePerOrder` (`[]OneLife`) and `RefinesLedger` (`ImplementsLedger`). `AllInv` is
`AccountInv` (types, turns, what a caller carries), `Lineage` (of the rows that were
placed from one, at most one is alive, or one caller is about to place it again) and
`BooksInv` (the filled rows add up to the account, but for the fill in progress). Rows are kept here
one by one, so the sums are over a set of rows that grows by one.

**The cycles** (`AgentPipeline` with `A2ACoordinator`): `A2AInvariant`,
`LimitsAreKept` (`[]StrategyKeepsLimits`) and `CopiesAreReviewed` (`[]CopiesAreVetted`), for any
number of agents and requests, with no discipline. `Room` is the limit, `Fits` what
a runner has seen: the order it is placing fits the limits, but for the buys that
`extra` counted meanwhile. `Counted`: a cycle filled no more than it recorded.
`Vetted`: the trades in the coordinator's hands are the researcher's and were reviewed.

**Boot and caches** (`InfrastructureProofs`):

| Theorem | Statement |
| --- | --- |
| `BootInvariant` | `[]LimitsInv` |
| `EveryMigrationOnce` | `[]MigratedOnce` |
| `AcknowledgedLimitsSurvive` | `[]LimitsSurvive` |
| `CachesInvariant` | `[]CachesInv` |
| `AnswersAreYoung` | `[]ServedWithinTtl` |
| `FloorIsLeft` | `[]QuotaIsSpared` |
| `PricesOnlyMoveForward` | `PricesMoveForward` |

`built` and `recorded` differ only inside a transaction, or by an effect that was
there already; what a server read as applied is recorded, since that table only
grows (`MigrationInv`). A server's limits are the row's, or another request for it
is still to be answered (`Waiting`, `Kept`). For the caches, what a call may
still learn lies between its question and now (`CallsInv`), the data stored is at most as
old as its entry says (`Aged`), and each request under way can still do only so
much to the day's quota (`Spared`). The quota has to be above its floor
(`Floor < Quota`; the code has a floor of 3 and the API 30 requests a day):
with an equal floor, an unblocked cache may take the first request of a day and leave less.

**How the sums are proved.** Equity, exposure and the sums over rows are
`SumFunction`, the fold of the community modules, which is defined by a recursion through
`CHOOSE`. `FillRulesProofs` shows once that this recursion has a solution on every
finite set (`SumsExist`, `SumsAgree` and what follows from them), and what the
proofs use: the sum with one entry changed, with an entry more or less, with a
common factor, of zeroes, and that it is an integer (or a natural number) if the entries are. The induction is over
cardinality, with `NatSetInduction`, which takes a set where the library takes an operator.
This is why `Agents`, `Symbols` and the like are assumed finite.

**What TLC alone shows.** Liveness (`Answered`, `EveryDisclosureDecided`,
`EnabledServed`): `ENABLED` and fairness are beyond the prover.
Every other property of the passing runs is stated by a theorem, under the assumptions above.
What `LiveTrading` does is checked to fail.

## 5. Where the code and what is said of it differ

As a violation run in `PROJECT.json`, with the quoted line: in live mode no trade
can be logged (`db/migrations/002_trades_table.ts:20`).

Seen while modelling, and not stated as a run because the models either assume
it away (section 3, preconditions) or contain it as an ordinary step:

- Accounts. Overlapping orders on one account sell a unit twice: both read the
  rows before either writes (`executor/agent-exchange.ts:235`). A simulated limit
  order is filled at its limit whatever the market. `getExchange` opens an account
  with the default balance, not the one the agent was registered with
  (`agent/agent-manager.ts:242`).
- Themes. A disclosure is mirrored twice by overlapping evaluations, where
  `docs/THEMES.md:99` speaks of deduplication. PATCH does not reach the runner.
  A manual theme has no account until the next restart. DELETE of an evaluated
  theme is refused by Postgres, after its interval was stopped, and the rejection
  ends the process.
- Limits. Several buys of a symbol may take its position past
  `maxAllocationPct`, because only the buy is compared
  (`themes/allocation-check.ts:32`; likewise `engine/trade-engine.ts:328`). Above a
  fee of 0.5% the cash `executeBuy` keeps back does not pay the fee (`RoomForFee`
  is about the default fee). The size of an order is judged by the price of its
  decision, not of its fill. A rotation that may allocate everything
  leaves nothing for the fee, and its last buy is rejected
  (`momentum-rotation.ts:207`). The live executor's peak is its equity: the
  drawdown check cannot fail there (`executor/alpaca.ts:228`). A direct trade
  of an agent passes no limit, and an inactive agent trades too
  (`api/routes/agents.ts:330`).
- Cycles. The rotation sells a position when the bars of its symbol could not be
  fetched. What it sold and bought again in a day it cannot sell before the
  next. `combinedSignal` looks at `crossWindow + 1` bars where its comment says
  the last `crossWindow` (`research/indicators.ts:252`). The coordinator's "last 5"
  trades are the oldest five of the fifty newest
  (`a2a-trading-coordinator.ts:225`), and it copies them again in each cycle. Two
  equal signals in one answer abort an agent's cycle. Two first cycles of an
  agent at once may both insert its row in `themes`; one of them fails
  (`agent/trading-pipeline.ts:277`).
- Caches. A missing quota header is read as 0 and blocks the URL to midnight, and
  a reply that crosses midnight blocks the new day
  (`congress-trades.ts:194`). A refresh waits for its slowest answer, and skips
  every tick until then; stock quotes have a timeout, crypto quotes have the
  one their library may have (`stock-price-cache.ts:78`).
- Boot. A risk-limits row that cannot be read at boot gives the limits of the
  environment, silently (`db/settings-store.ts:28`). A server that was up when
  another took a PUT keeps its own limits. A changed `simFeePct` does not reach
  exchanges that were built with the old one (`server.ts:207`). A migration that
  another server recorded in between ends the boot, which the platform repeats.
- Reset. It deletes the balance rows while the exchanges believe that they are
  open: every order fails until the process restarts; a fill in flight writes
  rows back that were emptied. `sim_orders` is not in its list. POST `/api/mode` changes
  what responses say, and no executor.

## 6. Not modelled, and the plan

Not modelled by intent: HTTP, authentication, validation and formatting; the
drivers of the database and the clients of market data (one statement is atomic,
a quote is any of a few prices or none); read-only analytics, portfolio
snapshots, research reports and checkpoint rows, from which nothing is decided.
`AgentTradeEngine.executeDecision`, `AgentCoordinator` of `agent-integration.ts` and
`ccxt.ts` are constructed by the server or by tests only, and nothing calls them
in production. The trading mode is one variable that no other state depends on.
Decisions are rows that are inserted and never changed.

A crash on SQLite loses everything since the last clean stop: `BootSettings` has
it, the crash runs of the other modules are about Postgres.

What is left:

1. *(done)* The accounts and their proofs; the engine and its proofs; themes and
   strategies; agents and the A2A cycle; caches; boot, settings, reset.
2. *(done)* The proofs of section 4. Liveness is left to TLC.
3. If they come to matter: readers of an account beside its fills
   (`recordCheckpoint`), and `AgentTradeEngine` once something calls it.
