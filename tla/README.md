# Quantum Market Intelligence: TLA+ models and proofs

This directory holds a formal model of the Quantum Market Intelligence repository:
TLA+ modules translated from its source, TLC configurations that check them on small
instances, and theorems checked by the TLA+ proof system. `PROJECT.json` indexes it:
every definition that models code is mapped there to the lines it stands for.

## 1. The system

Python batch jobs and TypeScript services that share nothing but one Postgres database
and Redis pub/sub channels.

| component | state | operations | interacts with |
|---|---|---|---|
| feed connection (`services/market-data/src/adapters`) | socket, reconnect timer, attempt counter | connect, disconnect, open, close, reconnect | calls the handlers of the ingestion |
| feed ingestion (`services/market-data/src/main.ts`) | remembered trade ids per symbol, handlers in flight | judge, insert, publish | writes the market tables, publishes to Redis |
| feature engine | none | compute and upsert a batch of features | reads bars |
| regime classifier, strategies | none | `classify_regime`, `run_strategies` | called by the pipeline and the backtester |
| risk gate (`services/risk-engine`) | none | `evaluate` | called by the pipeline |
| paper orders, fills, position book (`services/paper-execution`) | positions, realized PnL, closed trade returns | `create_order_from_decision`, `simulate_fill`, `apply_fill`, `replay_positions`, `reconcile` | called by the pipeline |
| ai council | none | `run_council`, `synthesize`, `generate_narrative` | called by the pipeline |
| paper pipeline (`services/ai-council/.../run_pipeline.py`) | one transaction, one replayed book | replay, per symbol pick / decide / order / fill / narrate, snapshot, commit | reads bars and backtests, appends to five tables and the snapshots |
| backtester (`research_runner.py`) | one transaction | walk every strategy over every symbol, insert the metrics | reads bars; its rows rank the pipeline's candidates |
| simulation engine, quant core | none | Monte Carlo, stress, formulas | quant core is called by the above |
| api (`apps/api`) | sessions, users, one Redis subscriber | register, login, SSO, entitlements, reads, event stream | reads every table, subscribes to Redis |
| web (`apps/web`) | market state, chart bars | fetch a first answer, apply live events | calls the api |
| migrations (`data/apply_migrations.py`) | `schema_migrations` | apply the next file | writes the schema |

What is hard in it:

- *interleaving*: message handlers nobody awaits; overlapping runs of the pipeline, of
  research and of migrations; requests over one table of users; streams of one
  subscriber; a first answer racing live events; stale sockets and timers;
- *atomicity and crashes*: the pipeline's and the research run's single transaction;
  registration in three statements; a migration and its mark; the lost memory of a
  restarted ingestion;
- *delivery*: trades the exchange sends again; inserts and publications that fail;
- *accounting*: averaging, closing, flipping, replaying and reconciling positions; the
  interplay of five exposure limits over many candidates; segmenting a backtest into
  trades; float comparisons;
- *agreement*: a decision, a thesis, a note and an order derived by modules that trust
  one another; a backtest that has to hold what the pipeline would propose.

What makes each component correct, in one line each: the gate never lets a book past a
limit it started within, and a halt stops all trading; the position book is a cash
account; a pipeline run is visible entirely or not at all, with the decision behind
every fill; what is ordered is what was argued for and narrated; a backtest looks at no
bar before it closes and its trades explain its profit; what was published is stored;
reconnecting never multiplies feeds; an SSO session belongs to its organization and a
revoked one is useless; the page shows what is stored; the schema is a prefix of the
migrations.

## 2. The modules

| module | role |
|---|---|
| `RiskGate` | `evaluate()` as operators: hard rejects, sizing caps, decision |
| `PaperOrders` | what a decision may become: order size, fill price, signed size |
| `GatedBook` | gate, order and book composed into a state machine |
| `PositionBook` | `apply_fill`, replay, reconcile, the fills ledger and its faults |
| `CashAccount` | abstract specification of the book: holdings and cash |
| `Fractions` | exact rationals (recursive functions, no RECURSIVE operator) |
| `PaperPipeline` | the runs of `run_pipeline.py` over the database |
| `PaperLedger` | abstract specification of the tables the pipeline writes |
| `Regime` | `classify_regime` and its indicators |
| `Strategies` | the three strategies and `run_strategies` |
| `Council`, `Narrator` | the four agents, `synthesize`, and the paragraphs of the note |
| `DecisionChain` | one symbol's way from bars to order, while research commits |
| `Backtest` | positions, equity, trades and metrics of a walk |
| `Research` | the research run: fetch, walk, insert, commit, fail |
| `FeedIngest` | quality gates, duplicate memory and handlers of `main.ts` |
| `FeedConnection` | sockets and reconnect timers of the two adapters |
| `MarketStream` | the event streams of the api over one Redis subscriber |
| `LivePage` | `MarketStream` with one page's dashboard and chart |
| `Accounts` | registration, login, SSO, logout, entitlement |
| `Migrations` | `apply_migrations.py` |
| `*Proofs` | the theorems of section 4 |
| `StrategyLemmas` | lemmas about regimes and strategies, which chain and backtests both rest on |
| `DataLemmas` | lemmas about naturals, sequences and sums, and about every operator of `Fractions` |
| `MC*` | the instances TLC checks |

`RiskGate` and `PaperOrders` are used by `GatedBook` and `PaperPipeline`; `Regime`
is extended by `Strategies`, and that by `Council`, `Narrator` and `DecisionChain` on one
side and by `Backtest` and `Research` on the other, so that pipeline and backtest run on
one and the same translation of the strategies, as they do in the code.

A definition whose comment begins "Mutant of X" is X with a plausible bug. No
specification uses it. It records what the property it is paired with in
`PROJECT.json` is able to catch: with the mutant in place of X, TLC finds that property
violated.

### Risk gate and gated book

`Evaluate(c, e, health, market)` is `evaluate()`: the eight hard rejects in order
(`_hard_reject_checks`), then the caps (`_sizing_caps`), then the minimum of them. All
percentages are integers in a unit of which `Scale` make one equity. The code returns a
REDUCE as the fraction allowed / requested (`engine.py:120`) and the order multiplies it
back (`orders.py:46`), in floating point both times. `sizing` is the numerator, and the
size of the order is any of `OrderSizes`: at least one unit, at most the request, and
within `Rounding` units of `sizing` on either side. Only this round trip is rounded;
sums and comparisons are exact. It does matter: in an empty book with the limit 0.1 a
request of 0.31 is granted 0.31 * (0.1 / 0.31) = 0.10000000000000002, which asked for
again is cut again (`engine.py:117`). Hence the limits hold up to the rounding of *one* order,
however many there were, and `ReducedSizeStands` names the cases in which a
reduced size is not approved as it stands. `fixed_fractional_size` rounds down to units. Portfolio VaR is an input
(`health.var`): the quantile is not computed. `evaluate` knows a NEUTRAL direction;
`Candidates` does not offer it, because no strategy emits it.

`GatedBook` wires the parts the way `docs/risk/RISK-GOVERNANCE.md` describes: each
candidate is judged against the book its predecessors produced. `Trade` is decision,
order, full fill and booking; `MarketMoves` and `HealthMoves` let the market and the
account change freely between trades. The pipeline does *not* wire them this way, see
below; `GatedBook` shows that the gate itself is up to its task. One oddity of the code
shows in the model: gross exposure is projected as current plus requested size whatever
the direction (`engine.py:111`), so a trade that closes part of a position is cut or
refused at the gross cap although it would lower it. That errs on the safe side.

### Position book

`ApplyFill` is `PositionBook.apply_fill` branch by branch. Entry prices, returns and PnL
are exact fractions; `Rounded` is the result of adding two float sizes and is the
identity except in `PositionBookDust.cfg`, where it rounds to a short significand.
`reconcile`'s tolerance of 1e-9 stands for equality on integer sizes. The database side
is `Record`: a ledger whose timestamps are those of the last closed bar, hence repeat,
and `ReplayOrders` are the orders `fetch_all_fills` may return them in, since it sorts by
timestamp alone (`db.py:206`). Realized PnL may differ between two such orders; what
`ReconcileFindsTheFault` shows is that holdings do not, so a rebuilt book reconciles with
the live one exactly when nothing was missed or repeated. `MissFill` and `RepeatFill` are
the drifts `reconcile()` is documented to find. `CashAccount` is what the book promises:
it knows nothing of entries, averaging or flips, and `BookIsACashAccount` is the
refinement `net <- net sizes`, `cash <- realized PnL - net * entry`.

### Paper pipeline

Each element of `Runs` is one invocation of the script, with one transaction at READ
COMMITTED: `Start` replays the ledger, `ProcessSymbol` / `SkipSymbol` /
`AbortOnSymbol` take the next symbol, `Snapshot` inserts the portfolio snapshot,
`Commit` publishes everything, `Crash` loses it. What regime and strategies make of the
bars is one element of `Signals`, chosen freely here (`DecisionChain` has how it comes
about): no candidate, or a direction and a stop
distance. The gate is the one of `RiskGate`, called with the constants the script calls it
with (`NoExposure`, `PlaceholderHealth`, `PlaceholderMarket`), and an order's size is one of
`OrderSizes` as in `GatedBook`. The five tables hold
records of what later readers relate: run, symbol, direction, decision, size, bar. Order
ids are random in the code and a pair of run and symbol here. `PaperLedger` is the
abstract specification: the ledger grows by whole batches, one fill per symbol and none
larger than requested, each with one snapshot.

What the pipeline does not promise, as its own docstring says: it judges every candidate
against an empty account in a market without age or spread, so successive runs add up
past the position limit, and the same bar judged twice is filled twice. Nor is the latest
snapshot the ledger once two runs overlap; `SerialSnapshotIsTheLedger` says when it is.

### From bars to an order

`Regime`, `Strategies`, `Council` and `Narrator` are the pure modules of the chain, as
operators over short series of bars with the code's arithmetic in exact fractions.
`ValidThresholds` is what `RegimeThresholds` refuses to be without. Three things are
coarser: a square root is rounded to multiples of 1 / `Steps`; breakout's target
multiplier is its default 1; a risk decision is any element of `RiskDecisions`, since
`RiskGate` has the gate itself. `run_pipeline` gives the agents neither a backtest nor a
simulation summary, so their branches on those are not there. The note is a sequence of
paragraphs, each a kind and the facts it states: wording and language are left out.

`DecisionChain` takes one symbol through them. `FetchBacktest` is one query per
candidate; `ResearchCommits` may come between any two, and a Sharpe ratio is an
integer since only its sign and order matter. `Judge` raises on a stop at the entry
price, as `CandidateRequest` does. Two peculiarities of the code are in the model:

- a mean-reversion stop follows the band, not the entry, so a bar far outside the band has
  its stop on the wrong side. `OnlyOvershootsAreMisordered` says exactly when, and the run
  `reversion_stop` shows the disagreement with the repository's test. The auditor notices,
  but is one voice of four: such a candidate can still be met with SUPPORT.
- when there is no candidate, the note says that no strategy is cleared to run in the
  regime (`narrator.py:196`), although one may be cleared and simply have proposed
  nothing, for instance in a SIDEWAYS market inside its bands.

### Backtests

`Backtest` has `strategy_to_position_fn`, one bar of `run_backtest`,
`extract_round_trip_trades` and `_compute_metrics`; of the ratios with a root or a power
only sign and definedness stay, positions are rounded to 1 / `Grain`, and
`GrowthLimit` has, for each number of periods, the growth from which its annualized value
is no float any more: the exponent at `returns.py:76` is a year over that number. A change of
the signal's strength ends one round trip and begins another, as in the code.
`RoundTrips` is a function from the bars that open a trade to what it returned; no metric
depends on the order of the code's list. `None`, what `_safe` returns for an undefined
metric, is not a fraction. `NoTradesNoRecord` allows a strategy with trades to have no
Sharpe ratio in one case: every period's return is the same. The first position of a walk
is always flat, so its first return is zero, and equal returns mean an equity that never
moved.
`Research` is the run around them: bars are fetched once per symbol while ingestion
stores more (`StoreBar`), rows are inserted in one transaction, and `RollBack` follows a
crash, a division by an equity of zero (`engine.py:133`) or an overflow
(`returns.py:76`). `_safe` catches only `ValueError`, so one strategy's overflow costs
the rows of every symbol. A newer row supersedes an older one by `created_at`, so a run
that commits late changes nothing that is read.

### Feed

`FeedIngest`: a message is a record of its table's natural key. `Receive` is the
synchronous part of a handler (judge, then remember the id), `Insert` and `Publish` are
its two awaits, `Fail` is a statement that rejects before or after it took effect,
`Restart` is a crash or a shutdown with whatever was in flight. One symbol is modelled,
with its own `BoundedIdSet`; symbols share nothing but the tables, whose keys contain the
symbol. A consequence to know of: the id is remembered before the first insert is awaited,
so a redelivery that overtakes it, or follows its failure, is stored as `rejected` for good.

`FeedConnection`: `phase` has every socket ever created, because their close events
arrive whether or not the adapter still remembers them; `timers` has every timer that was
neither cleared nor fired. `socket` and `reconnectTimer` are the two handles the adapter
keeps, and overwrites. How long a delay is decides only when a timer fires, which is
always possible in the model; that delays stay within the ceiling is part of
`ConnectionTypeOK`.

### Live page

`MarketStream`: a stream's route awaits one subscription per channel and then registers
its close handler, `Subscribe` being one turn of that loop; `Unsubscribe` names a channel
and drops every listener of it, of whichever stream. The code therefore does *not*
keep "every open stream is fed": `OnlyLeaversSilence` says how far the damage goes, and
`LeaversAreForgotten` who is left over. Records of one channel are stored and published
one after another here; `FeedIngest` is about those that are not. `Wanted` drops an event
for which the client has no listener where it is sent instead of where it arrives. The
browser's reconnection of an event stream and a restart of the api are not modelled.

`LivePage` adds one page: `snapshot` and `history` are the two requests, read at one
moment and applied at a later one, `Received` is the next event of a stream. The code
orders none of these, so the properties are conditional and name the condition
(`InStep`): the stream listened before the table was read, the answer came before the
first event, the table was read whole. Drop any of them and TLC shows a stale price or a
chart out of order.

### Accounts

A request is a record of its kind and its next statement; every action is one awaited
statement, each its own transaction. `InsertUserRow` has the unique index on
`lower(email)`. Organizations are named after the request that inserted them. `Login`'s
password is verified or not, freely, for the users that have one: those provisioned by
SSO do not (`HasPassword`). `Fail` ends a request between any two statements.
`ChangePlan` and `Expire` come from outside.

### Migrations

Any number of runners over one database. A file's SQL and its mark are one transaction
(`Execute`, `Mark`, `Commit`); `Check` comes before it and takes no lock. `Execute` waits
for the locks of another runner that has created the same things and raises when they
exist by then, unless the file is one of `Rerunnable`. A runner that ended may be run
again. The initialization of the local docker database by other means is not modelled.

## 3. The runs

| run | bounds | shows |
|---|---|---|
| `gate` | 2 symbols, 10 sizes in 1..16, 3 stops, 5 markets, 6 accounts; position, asset, gross, net and leverage limits 6/8/10/8/12; rounding 2 | the limits hold over any sequence of candidates; what a REDUCE grants stands when asked again |
| `position_book` | 4 fills, 2 symbols, 2 sizes, 2 prices, 1 fault | accounting, reconcile in any replay order, refinement of `CashAccount` |
| `position_dust` (violation) | 6 fills of one size, 3-bit sums | a closed position stays in the book |
| `pipeline` | 2 runs, 2 symbols, 4 signals, up to 3 bars, 2 needed; rounding 1 | tables complete and all-or-nothing, refinement of `PaperLedger`, every run ends |
| `decision` | 4 bars of 5 prices, windows of 2 and 3, 3 track records, 4 risk decisions, 1 research run | decision, thesis, note and order agree; who may be misordered; who wins the pick |
| `reversion_stop` (violation) | same | a stop on the profitable side of its entry |
| `research` | 2 symbols, 7 bars of 2 prices, 3 strategies, 2 runs | no look-ahead, trades explain the curve, rows comparable, no record without trades |
| `ingest` | 2 trades, 1 crossed book, 4 arrivals, memory of 1, 1 fault | nothing published unstored, duplicates caught, the received is stored |
| `feed_connection` | 2 connects, 2 disconnects, 3 drops | as many links as calls, and the feed comes back |
| `live_page` | 1 page with 2 streams, 2 ticks, 3 bars, limit 2, array 3 | who falls silent, who is forgotten, current price, series of bars |
| `accounts` | 3 requests, 1 address, 1 SSO organization, 2 plans, 1 plan change | one user per address, SSO confined, revoked sessions stay out |
| `migrations` | 2 runners, 3 files, 2 crashes | the schema is a prefix of the files and becomes all of them |

Why these are enough. *Gate*: the state is the book, and every book within the limits is
reachable; each trigger is offered at its limit and one past it, each exposure at, below
and above its limits. With a rounding of two units a size can miss the limit by
more than the least size there is, so a book can overshoot and be traded back by less
than it overshot. The theorems of section 4 remove the bounds. *Position
book*: a position is opened, added to, partly closed and flipped within four fills, and
a fifth only repeats one of these on another entry price; the second symbol shows the
books are kept apart. *Pipeline*: two runs have every overlap of start and commit; the two
symbols let one be skipped or aborted after the other was processed; bars 0, 1, 2 and 3
are none, too few, just enough and more. *Decision*: with windows of two and three bars,
four bars reach every label, each strategy with and without a candidate in both
directions, overshoots and flat channels; one research run can fall between any two
reads. *Research*: seven bars leave a walk of six steps, enough to open, change, flip and
close; prices that double and halve reach an equity of zero and an overflow; one symbol has
too few bars or a rejected one. *Ingest*: four arrivals over a memory of one id contain
every pattern of repeat, eviction and repeat. *Feed connection*: two calls of each kind
leave a closing socket, a live one and a pending timer side by side; the theorem
removes the bound. *Live page*: three bars are more than the history's limit, two
streams are enough for one to silence the other. *Accounts*: three requests for one address
are two that race and one that uses the session of either; the theorems remove the bound.
*Migrations*: three files have a predecessor and a successor around a crash, a rerunnable
one and two that are not.

Each of the two violation runs checks one statement of the repository's own tests that the
code does not meet; `PROJECT.json` quotes them under "findings".

What the conditional properties leave open. Several hazards are faults the code really
has, and a property that denied them would be false. The properties then say how far
the damage goes, under conditions or with exceptions that keep the fault itself out:

- `ReceivedIsStored` excuses every fault: a failed insert loses its message for good;
- `ReconnectsDoNotMultiply` allows one link for each call of connect(): the second socket
  that a stale close event or an overwritten timer handle brings is within it;
- `OnlyLeaversSilence` concedes that a leaving client silences others,
  `LeaversAreForgotten` leaves out a client that left before it was fully subscribed;
- `PriceIsCurrent` and `ChartIsTheSeries` assume `InStep`: no late snapshot, no events
  before the answer, no truncated history;
- `EmptyOrganizationsAreFailures` allows the orphan of a failed registration;
- `RevokedStaysOut` is not about a session revoked while its request is answered;
- `RowsAreComparable` tolerates that one strategy's failure loses the rows of all symbols;
- `PickIsTheBestOnRecord` is not about a pick made while research commits;
- `ReconcileFindsTheFault` compares holdings: the entries and the realized PnL of a replay
  in another order of equal timestamps may differ.

Fairness. `PaperPipeline`: weak fairness of each run's own steps, since a started process
keeps executing (a crash is a possible outcome, never required); used by `EveryRunEnds`.
`FeedIngest`: weak fairness of `Settle`, since the event loop settles the awaits of a
live process; used by `ReceivedIsStored`, which excuses behaviours with a fault.
`FeedConnection`: weak fairness of a connection attempt's end, of a close that was asked
for, and of armed timers; the exchange's drops are not fair and are bounded, so
`FeedComesBack` is about what follows the last of them. `Migrations`: weak fairness of
each runner's steps, `Start` included, which means that an operator whose runner raised
runs the script again, as `docs/deployment/RENDER-DEPLOYMENT.md:80` tells them to. All
other modules assume none and have no liveness property.

`CHECK_DEADLOCK FALSE` stands where the system does stop: all runs ended, all messages,
requests or fills of the bound done. `GatedBook` and `Migrations` are checked for deadlock.

## 4. What is proved

Every theorem is checked by TLAPS for all values of the constants allowed by the named
assumptions of the modules.

**The gate keeps its limits** (`GateProofs!GateBoundsExposure`, `LimitsHold`,
`TriggersHaltTrading`, `ReducesStand`), from `LimitsAssumption` (every
limit and `Scale` is a positive integer, as `RiskLimits.__post_init__` enforces, and
`Rounding` a natural number) and
`GatedBookAssumption` (`Traded`, the symbols, is finite; sizes, stops, market and account inputs have
their types).

- `GateBoundsExposure` is about one call: whatever exposure a candidate meets, the size
  that a non-rejected decision lets through exceeds none of the caps by more than
  `Rounding` (`OrderRespectsEveryCap`), hence each limit that held before, up to one
  rounding, holds after, up to one rounding (`WithinAfterOrder`). It needs no invariant. Roundings
  do not add up because a cap is what is left of the limit in the exposure as it is.
- `LimitsHold` is `BookSpec => [](BookTypeOK /\ PositionWithinLimits /\ ExposureWithinLimits)`
  (`ExposureLimitsHold` states its last conjunct alone), by the inductive invariant
  `LimitsInv`, the conjunction itself: the typing is needed to speak of the sums at all,
  and the gate needs its five limits to hold before, up to a rounding, to keep
  them after. A step changes one position, so the net and gross sums over all symbols move
  by that position's change: `DataLemmas!SumUpdate` proves this of `SumFunction` over
  any finite set, and `ExposureMoves` applies it to `Net` and `Gross`.
- `TriggersHaltTrading` is `BookSpec => HaltStopsTrading`: with any hard-reject trigger true,
  `evaluate` rejects, the order is not created and the book stays.
- `ReducesStand` is `BookSpec => []ReducedSizeStands`. Ask again for a reduced size: each
  cap it meets allows at least what was granted the first time, or nothing at all where
  an earlier order overshot the limit (`CapsOfTheReduced`, on `CapOfAPart`: the whole request
  would have crossed back to the other side, its part does not). This needs only a
  typed book (`TypedBooksReduceOnce`).

**The ingestion is safe** (`FeedProofs`), from `FeedIngestAssumption` (messages are
records with a key, the memory holds at least one id).

- `IngestIsSafe` is `Spec => [](TypeOK /\ PublishedIsStored /\ CrossedBooksStayOut)`.
  Publication follows the insert inside a handler, so `Stores` says of the handlers what
  `PublishedIsStored` says of the publications: one that is past its insert has its row.
  `CrossedAreRejected` says the same of crossed books: their handlers carry `rejected`.
- `IngestTypes` is `Spec => []TypeOK`, whose part about the memory (different ids, within
  `Window`) is what the duplicate gate works with.
- `RowsStay` is `Spec => RowsAreFinal`.
- `DuplicatesAreCaught` is `Spec => []DuplicatesAreCaughtWithinTheWindow`. The
  strengthening `OldestFirst` relates the memory to the history: a trade that passed the
  gate in this life is still remembered and every id younger than it arrived later, or
  at least `Window` others arrived since. Evicting the oldest id is then harmless,
  because the memory was full of distinct younger ids (`DistinctTail`).

**The pipeline's tables are sound** (`GateProofs`), from
`PaperPipelineAssumption` (symbols are distinct, signals are a direction with a stop),
`PlaceholderAssumption` (one request fits an empty account and no stop is beyond the
risk budget, which the script's constants and the `RiskLimits` defaults satisfy) and
`LimitsAssumption`.

- All safety properties of the pipeline hold for any number of runs and symbols:
  `AuditTrailIsComplete`, `RunsAreAllOrNothing`, `StopsAloneReduce`,
  `SerialRunsSnapshotTheLedger`, `PositionsArePriced`. None is inductive: they speak of
  committed rows, and a commit publishes what was inserted long before. `PipelineInv` says
  of each run's uncommitted batch what the properties say of the tables (`Batches`,
  `Audit`), of its draft that it is the book the run knows (`Drafts`), of committed
  runs that exactly they own fills and snapshots (`Owned`, `Accounts`). `SoundUnion` then
  makes commit preserve the audit trail. `Pricing` carries `PositionsArePriced`: a symbol
  with a fill has bars, so a run that replays the fill does not skip it.
- `StopsAloneReduce` rests on `DecideCases`: in the empty account five of the six caps
  contribute nothing and the sixth is the stop's.
- `PipelineIsALedger` is the refinement `Spec => Ledger!Spec` by
  `fills <- db["fills"]`, `snapshots <- their positions`: `Commit` maps to `Publish` with
  the replayed ledger as its base (`CommitPublishes`), everything else to a stutter.

**Reconnecting is bounded** (`FeedProofs!ConnectionsAreBounded`), from
`FeedConnectionAssumption`, for any number of calls and drops. `ReconnectsDoNotMultiply`
alone is not inductive: after disconnect() it claims one link fewer in use than
there were calls, which holds only because, while connected, the adapter still *remembers*
a link of its own: its newest socket is alive, or the timer whose handle it keeps is armed
(`Remembers`). Every event replaces one link by at most one, every connect() adds one
(`OpeningAddsOne`), and disconnect() ends the remembered one. `DelaysAreBounded` is
`Spec => []ConnectionTypeOK`: every timer waits a delay of the doubling sequence between
the base delay and the maximum. The sequence is a recursive function, and that a function
solves its equation is itself proved, from the least attempt up to which none would.

**Accounts** (`PlatformProofs`), from `AccountsAssumption`: `SsoSessionsAreOurs`,
`EmptyOrganizationsFailed` and `RevokedSessionsStayOut`, by one invariant. A callback past
its choice of user has one of its own organization (`SsoUserIsOurs`), which lasts because
users are never changed and the unique index admits one per address
(`OneUserPerAddress`); a request that has its session is over
(`SessionsAreOfEndedRequests`); an organization waits for its user or has it
(`OrganizationsWaitForTheirUser`); a request that came too late carries a session that is
gone and cannot get past its validation (`StaleIsGone`). `TablesAreWellFormed` is the
typing part of that invariant on its own. `RequestMoves` is the step every
action without a session or an organization of its own reduces to.

**Migrations** (`PlatformProofs!SchemaIsAPrefix`), from `MigrationsAssumption`, for any
number of runners, files and crashes. The strengthening says of each runner that what is
behind it is marked (`BehindAreMarked`), of a commit that its file is not marked yet
(`CommitIsNew`), and of two open transactions of one file that it is (`HoldersExclude`,
the locks).

**Streams and page** (`PlatformProofs`), from `MarketStreamAssumption` and
`LivePageAssumption` (the channels are distinct, the dashboard listens to ticks), for any
number of streams, channels and records.

- `OnlyLeaversDo` and `LateLeaversAreForgotten`. `OnlyLeaversSilence` speaks of fully
  subscribed streams and is not inductive; `ListenersSubscribed` says it of every channel
  a stream has subscribed so far, `UnsubscribersAreLate` that only a client that left
  fully subscribed unsubscribes.
- `DashboardIsCurrent` is `Spec => []PriceIsCurrent`. The dashboard that is listening now
  has listened since the snapshot was read, because a route subscribes each channel once
  (`SubscribeAddsOne`). Then the newest tick under way is the newest one published
  (`LastTickIsNewest`), and with none under way its price is in the answer or on the page
  (`PriceIsKnown`). `PublishKeepsPrice` and `ReceivedKeepsPrice` are the two steps that
  move ticks.
- `PageTypes` is `Spec => []TypeOK` and `ChartIsSeries` is `Spec => []ChartIsTheSeries`.
  The chart is the same argument about a list: some `n` is the next bar it is owed.
  The bars under way are those from `n` on in order, none left out or twice (`UnderWay`),
  and once the answer is applied the chart holds the bars before `n` (`SeriesUpTo`), or
  those before `n + 1` when the answer knew a bar that is still under way.

**The position book** (`PositionBookProofs`), for any symbols,
orders, prices and costs and any sequence of recorded, missed and repeated fills. All
three theorems assume `Exact`, that `Rounded` is the identity on integers: the property
they state is about sizes that add exactly, as in the run `position_book`, and the run
`position_dust` shows what rounding does to them.

- `BookKeepsACashAccount` is the refinement `Spec => BookIsACashAccount`. Its step says
  that opening, averaging, reducing, closing and flipping are all the same exchange of a
  holding against cash (`ApplicationIsExchange`). Mapped cash is a sum of fractions and
  integral only because the entry prices' denominators cancel in it (`CashIsWhole`).
- `BookCanBeTold` is `Spec => []BookFollowsItsFills`, by the inductive invariant
  `BookInv`: the net size is what was delivered (`NetIsDelivered`), entries lie between
  the prices paid on the side that is open (`EntriesWithinSides`; prices paid on the
  other side are of no use to a step that averages), realized money and closed returns
  have a common sign (`ReturnsExplain`), and at every market the worth of the book is
  that of the fills less their costs (`PaysItsCosts`).
- `FaultsAreFound` is `Spec => []ReconcileFindsTheFault`. `ReplayNets` says that a replay
  ends with the sum of the signed sizes, `SumPermuted` that the order it reads them in
  does not matter, `FaultWeighs` that one missed or repeated fill changes that sum.

**From bars to an order** (`DecisionChainProofs`, on `StrategyLemmas`), from `RegimeAssumption` (the thresholds
are fractions within what `RegimeThresholds` accepts), `StrategiesAssumption` (multiples
and costs are positive fractions) and `DecisionChainAssumption` (`ClosedBars` is what
the `ohlcv` contract says of a bar, with a close that can be divided by; `MinBars`
covers the windows of the strategies; a track record has a score or none for each
strategy; a decision of the gate has reasons among its codes and a share in [0, 1]).
For all thresholds, windows, series of bars, track records and decisions:

- `ChainTypesHold`: no division by zero, and every confidence and strength in [0, 1].
- `RegimeIsNeverDoubted`: `LabelIsConfident` goes through the labels. One that some
  strategy trades in was given because its test passed its threshold, and
  `_threshold_confidence` is 1/2 at the threshold; hence the advocate's 0.5 is never missed.
- `ApprovalsHaveNoMajorityAgainst`: an opposing quant is less than a quarter certain
  (`QuantIs`), the advocate has at most two of its three doubts (`AdvocateIs`), the
  auditor at most one, and then a third (`AuditorIs`); the risk officer of an approval
  supports with certainty. Over a common denominator (`AverageVote`) these votes
  average no less than -1/9 (`VotesSuffice`), and opposition begins at -3/10.
- `OneStoryIsTold`: only the risk officer vetoes (`VetoIsRejection`), and `NarrativeTells`
  says which kinds of paragraph a note has for which decision and thesis.
- `TheBestIsPicked`: the scores are those of the one record that was seen
  (`ScoresAreRead`), and a candidate that outranks every other in `sort_key` has the
  best score, or the best edge where nobody has a positive one (`OutranksIs`).
- `MisorderedOnlyByOvershoot` is `Resolved => (Spec => []OnlyOvershootsAreMisordered)`. A
  trend needs averages that differ, so some close moved (`AveragesDiffer`), a true range was
  positive, and Wilder's average keeps it positive from then on (`SmoothingIsPositive`): the
  stop has a distance from the entry. A reversion needs a close that is not the mean, so the
  deviation is positive (`DeviationIsPositive`); the stop is two distances from the middle,
  and the strength is half or more exactly when the entry is as far (`StopOfReversion`). The
  target of a breakout is a width of the channel ahead (`TargetOfBreakout`).
  `Resolved` says that the ATR averages more than one bar and that `Steps` is fine enough
  for the least deviation of `BandWindow` whole prices; the code's windows are 14 and 20, its
  roots those of floats. Without either part TLC finds the property violated: an ATR of
  one flat bar, or a root rounded to zero, puts the stop on the entry.

The properties are about one symbol in the end, and the invariant `ChainInv` carries how
each part came about: the regime is sound, the candidates are offers for that regime,
placed as the last theorem says (`ReadingIs`), the pick outranks them all (`PickIs`), and
opinions, thesis and note are the functions of pick, regime and decision that the code
calls (`OutcomeIs`).

**Backtests** (`ResearchProofs`), from `BacktestAssumption` (costs are not negative,
positions are rounded to some grain, `None` is not a fraction) and `ResearchAssumption` (the symbols of the job are
different; a stored bar is rejected or has a close that can be divided by, within its high
and low; `Lookback` covers `MinBars`, and that the windows of the strategies), for any
history, any bars that arrive meanwhile and any number of runs, failures and crashes.
`ResearchInv` types the tables and the walk, and says where the run is in its loops.

- `CommittedRowsCompare` is `Spec => []RowsAreComparable`. A commit publishes what was
  inserted one row at a time, so the rows of the open transaction are told apart: those of
  the symbol the run is at are one for each strategy behind `k` and were computed on
  the `bars` it holds now, those of earlier symbols are complete (`InsertedIs`). That
  no later symbol of the loop adds to them needs the symbols to be different.
- `BacktestsFollowThePipeline` is `Spec => []BacktestHoldsWhatThePipelineProposes`. The
  backtest reads the bars from the first on, the pipeline its newest `Lookback`.
  `RegimeLooksBack` and `GenerateLooksBack` show that label, direction and strength depend
  only on bars within the windows. Only the ATR is smoothed from the first bar on, and on it
  only stops and targets depend, which a backtest does not use. `CandidatesOfStrategy`
  ties one strategy's proposal to the list of `run_strategies`.
- `ResearchTypes` is `Spec => []TypeOK`. `PositionIs` bounds what a strategy has the
  backtest hold, `FetchedAre` says that the query returns usable bars (`RankExists`: for
  every rank below their number there is a bar with so many newer ones).
- `TradesExplainTheCurve` is `Spec => []TradesAndExitsExplainTheCurve`. The property
  multiplies over the walk so far, so what is inductive is `CurveIs`: every equity but the
  last is not zero (a walk at zero rolls back), each follows from the one before by
  `NextEquity` (`Follows`), and the last is the product (`Explained`). `EndIs` says that
  every position is given up at exactly one bar, so `RoundTrips` is well defined. One more
  bar (`ExplainedGrows`) either extends the open trade, whose factor alone is multiplied
  (`ProductUpdate`; `LastOpened` says that there is one such trade), or it appends a
  factor (`ProductAppend`): a new trade's growth, or the cost of going flat
  (`FlatEquity`). Both rest on the algebra of fractions in lowest terms in `DataLemmas`
  (`ProductAssociates`, `OverCancels`, `QuotientsChain`) and on a product over a finite
  set being the same whatever factor is taken first (`PartialProductsRemove`).
- `RecordsComeFromTrades` is `Spec => []NoTradesNoRecord`, from the same invariant:
  a row is inserted for a finished walk, whose first position is flat because one
  bar is too few (`OneBarIsTooFew`). No trade is opened just when nothing is ever held
  (`TradesOfFlat`) and just when nothing is turned over (`TurnoverOfFlat`); then the
  equity never moves (`FlatCurve`), and neither does it where all returns are equal
  (`EqualReturns`). `ConstantMetrics` says which metrics are undefined in both cases,
  `MetricsAreRecorded` puts the cases together.

What carries these proofs is that a recursive function, a fold or a sum over a finite set
is a CHOOSE whose equation has to be shown to have a solution. `RecursionExists` and
`MinimalSubset` do that by a minimal counterexample instead of an induction theorem; on
them rest the greatest common divisor, the square root and the lowest terms of
`Fractions`, `Total`, `ProductOf`, and the replay.

Only model-checked:

- liveness (`EveryRunEnds`, `ReceivedIsStored`, `FeedComesBack`, `EveryFileIsApplied`),
  which is out of the prover's reach;
- `position_dust` and `reversion_stop`, which are counterexamples.

Only proved, without a run that repeats them: `HaltStopsTrading`, `CrossedBooksStayOut`,
`RowsAreFinal`, `OnlyTheStopReduces`, `NoPositionIsUnpriced`.

## 5. Not modelled, and why

- Feature engine, simulation engine and the rest of `quant-core`: float formulas and random
  sampling over their arguments, without state.
- Message parsers, schemas, configuration, logging, translation, rendering: stateless.
- `walk_forward.py` and `experiment.py`: the research run does not call them. The
  `turnover_events` that `engine.py` computes are read by nobody.
- The administration of SSO connections and the identity provider's protocol.
- Read queries other than the page's own (signals, council, derivatives, order book,
  backtests, paper trading): they display rows `PaperPipeline` and `Research` write.
  `signals-latest.ts` pairs a signal with a decision in two queries and may pair those of
  two runs.
- `execution`, `forecast-engine`, `microstructure-engine`, `portfolio-engine` and
  `statistical-engine` contain only a README.

## 6. Plan

1. done: the modules of section 2 and their runs; the safety of the gate, position book,
   ingestion, pipeline, feed connection, accounts, migrations, event streams and page,
   the agreement of the decision chain, and that backtests are comparable, hold what the
   pipeline would propose, add up and record only what was traded, proved: every safety
   property a passing run checks is a theorem.
2. models that remain worthwhile: the signals query over `PaperPipeline`, and the
   walk-forward windows as soon as a run uses them.
