------------------------------ MODULE Research ------------------------------
(***************************************************************************)
(* services/backtester, research_runner.run: for every symbol the bars are *)
(* fetched once, every strategy is walked over them bar by bar, and the    *)
(* rows are inserted in one transaction, while ingestion stores new bars.  *)
(* An equity of zero or a growth too large to annualize raises, which      *)
(* rolls back the rows of every symbol; so does a crash.  The job runs     *)
(* again on its schedule.                                                  *)
(***************************************************************************)
EXTENDS Backtest

CONSTANTS
    Symbols,        \* SYMBOLS
    Histories,      \* [stored, arriving] bars of each symbol
    MaxBars, MinBarsToRun,
    Lookback,       \* LOOKBACK_BARS of the live pipeline
    MaxRuns         \* bound on the runs of the job

Symbol == ToSet(Symbols)

\* What ingestion stores: a closed bar, or one that quality control rejected.
StoredBars ==
    {bar \in [close : Nat \ {0}, high : Nat, low : Nat, volume : Nat, rejected : BOOLEAN] :
        bar.rejected \/ (bar.low <= bar.close /\ bar.close <= bar.high)}

ASSUME ResearchAssumption ==
    /\ Symbols \in Seq(Symbol) /\ IsInjective(Symbols)
    /\ \A history \in Histories :
        history \in [Symbol -> [stored : Seq(StoredBars), arriving : Seq(StoredBars)]]
    /\ MaxBars \in Nat /\ MinBarsToRun \in 2..MaxBars
    /\ 1..(MaxBars - 1) \subseteq DOMAIN GrowthLimit
    /\ Lookback \in Nat /\ MaxRuns \in Nat
    /\ MinBars <= Lookback /\ \A s \in Strategy : Window(s) <= MinBars

VARIABLES
    ohlcv, arriving,    \* the bars stored of each symbol, and those to come
    backtests,          \* the committed rows
    inserted,           \* the rows of the open transaction
    run, step,          \* created_at of the run, and what it does next
    n, k,               \* the symbol and the strategy it is at
    bars, held, curve   \* what run_backtest works on

tables == <<ohlcv, arriving, backtests>>
place == <<n, k>>
walk == <<bars, held, curve>>
vars == <<tables, inserted, run, step, place, walk>>

Init ==
    /\ \E history \in Histories :
        ohlcv = [s \in Symbol |-> history[s].stored] /\ arriving = [s \in Symbol |-> history[s].arriving]
    /\ backtests = {} /\ inserted = {}
    /\ run = 0 /\ step = "idle" /\ n = 1 /\ k = 1
    /\ bars = << >> /\ held = << >> /\ curve = << >>

\* market-data stores the next closed bar.
StoreBar(symbol) ==
    /\ arriving[symbol] # << >>
    /\ ohlcv' = [ohlcv EXCEPT ![symbol] = Append(@, Head(arriving[symbol]))]
    /\ arriving' = [arriving EXCEPT ![symbol] = Tail(@)]
    /\ UNCHANGED <<backtests, inserted, run, step, place, walk>>

Start ==
    /\ step = "idle" /\ run < MaxRuns
    /\ run' = run + 1 /\ step' = "fetch" /\ n' = 1 /\ k' = 1
    /\ UNCHANGED <<tables, inserted, walk>>

Price(row) == [close |-> row.close, high |-> row.high, low |-> row.low, volume |-> row.volume]

\* fetch_all_ohlcv: the prices of the newest bars that quality control did not
\* reject, oldest first: so many of them are newer than each.
FetchAllOhlcv(symbol) ==
    LET usable == {i \in DOMAIN ohlcv[symbol] : ~ohlcv[symbol][i].rejected}
        size   == IF Cardinality(usable) < MaxBars THEN Cardinality(usable) ELSE MaxBars
        at(i)  == CHOOSE j \in usable : Cardinality({x \in usable : x > j}) = size - i
    IN  [i \in 1..size |-> Price(ohlcv[symbol][at(i)])]

\* A symbol without enough bars is skipped.
Fetch ==
    /\ step = "fetch" /\ n <= Len(Symbols)
    /\ LET fetched == FetchAllOhlcv(Symbols[n])
       IN  IF Len(fetched) < MinBarsToRun
           THEN n' = n + 1 /\ UNCHANGED <<step, walk>>
           ELSE /\ bars' = fetched /\ held' = << >> /\ curve' = <<Whole(1)>>
                /\ step' = "walk" /\ UNCHANGED n
    /\ UNCHANGED <<tables, inserted, run, k>>

\* The transaction is rolled back and the process ends.
RollBack ==
    /\ step' = "idle" /\ inserted' = {}
    /\ bars' = << >> /\ held' = << >> /\ curve' = << >>
    /\ UNCHANGED <<tables, run, place>>

\* Mutant of Walk: the signal is decided with the bar it is to earn.
WalkAhead ==
    /\ step = "walk" /\ Len(curve) < Len(bars)
    /\ IF Last(curve) = Whole(0)
       THEN RollBack
       ELSE LET t      == Len(curve)
                signal == PositionFn(StrategyIds[k], SubSeq(bars, 1, t + 1))
            IN  /\ held' = Append(held, signal)
                /\ curve' = Append(curve, NextEquity(Last(curve), Before(held', t), signal,
                                                     bars[t].close, bars[t + 1].close))
                /\ UNCHANGED <<tables, inserted, run, step, place, bars>>

\* Mutant of Walk: a new position is free of costs.
WalkFree ==
    /\ step = "walk" /\ Len(curve) < Len(bars)
    /\ IF Last(curve) = Whole(0)
       THEN RollBack
       ELSE LET t      == Len(curve)
                signal == PositionFn(StrategyIds[k], SubSeq(bars, 1, t))
            IN  /\ held' = Append(held, signal)
                /\ curve' = Append(curve, NextEquity(Last(curve), signal, signal,
                                                     bars[t].close, bars[t + 1].close))
                /\ UNCHANGED <<tables, inserted, run, step, place, bars>>

\* One iteration of run_backtest; the return of a bar that began with nothing
\* divides by zero.
Walk ==
    /\ step = "walk" /\ Len(curve) < Len(bars)
    /\ IF Last(curve) = Whole(0)
       THEN RollBack
       ELSE LET t      == Len(curve)
                signal == PositionFn(StrategyIds[k], SubSeq(bars, 1, t))
            IN  /\ held' = Append(held, signal)
                /\ curve' = Append(curve, NextEquity(Last(curve), Before(held', t), signal,
                                                     bars[t].close, bars[t + 1].close))
                /\ UNCHANGED <<tables, inserted, run, step, place, bars>>

Row ==
    [run |-> run, symbol |-> Symbols[n], strategyId |-> StrategyIds[k], dataset |-> bars,
     metrics |-> ComputeMetrics(bars, held, curve)]

\* On to the next strategy over the same bars, or to the next symbol.
GoOn ==
    IF k < Len(StrategyIds)
    THEN k' = k + 1 /\ held' = << >> /\ curve' = <<Whole(1)>> /\ UNCHANGED <<step, n, bars>>
    ELSE k' = 1 /\ n' = n + 1 /\ step' = "fetch" /\ bars' = << >> /\ held' = << >> /\ curve' = << >>

\* Mutant of InsertBacktest: a test that raises is left out.
InsertOrLeaveOut ==
    /\ step = "walk" /\ Len(curve) = Len(bars)
    /\ inserted' = IF Overflows(curve) THEN inserted ELSE inserted \cup {Row}
    /\ GoOn
    /\ UNCHANGED <<tables, run>>

\* The metrics of the finished walk and insert_backtest.
InsertBacktest ==
    /\ step = "walk" /\ Len(curve) = Len(bars)
    /\ IF Overflows(curve)
       THEN RollBack
       ELSE inserted' = inserted \cup {Row} /\ GoOn /\ UNCHANGED <<tables, run>>

Commit ==
    /\ step = "fetch" /\ n > Len(Symbols)
    /\ backtests' = backtests \cup inserted /\ inserted' = {}
    /\ step' = "idle"
    /\ UNCHANGED <<ohlcv, arriving, run, place, walk>>

Crash == step # "idle" /\ RollBack

Next ==
    \/ \E symbol \in Symbol : StoreBar(symbol)
    \/ Start \/ Fetch \/ Walk \/ InsertBacktest \/ Commit \/ Crash

Spec == Init /\ [][Next]_vars

-----------------------------------------------------------------------------

\* run_backtest raises on a signal outside of [-1, 1]; the walk never has more
\* positions than bars to hold them over.
TypeOK ==
    /\ step \in {"idle", "fetch", "walk"} /\ run \in 0..MaxRuns
    /\ n \in 1..(Len(Symbols) + 1) /\ k \in DOMAIN StrategyIds
    /\ \A i \in DOMAIN held : AtMost(Absolute(held[i]), Whole(1))
    /\ step = "walk" => Len(held) + 1 = Len(curve) /\ Len(curve) <= Len(bars)
    /\ step = "idle" => inserted = {}
    /\ Len(bars) <= MaxBars

\* A backtest is what the picking of candidates trusts.  At every bar it holds
\* the position the live pipeline would have proposed at that moment: from the
\* bars closed by then, of which the pipeline reads only the newest.
BacktestHoldsWhatThePipelineProposes ==
    held # << >> =>
        LET t          == Len(held)
            live       == Newest(SubSeq(bars, 1, t), IF t < Lookback THEN t ELSE Lookback)
            candidates == IF t < MinBars THEN << >> ELSE RunStrategies(live, ClassifyRegime(live))
            own        == {c \in ToSet(candidates) : c.strategyId = StrategyIds[k]}
        IN  IF own = {} THEN held[t] = Whole(0) ELSE \A c \in own : held[t] = Signal(c)

\* The trades' returns leave out the cost of going flat, which is charged to the
\* first flat bar.  With those exits they explain the whole curve: no other
\* gain, loss or cost is in it.
TradesAndExitsExplainTheCurve ==
    step = "walk" =>
        LET trades    == RoundTrips(held, curve)
            growth(i) == IF i \in DOMAIN trades THEN Plus(Whole(1), trades[i])
                         ELSE IF held[i] # Whole(0) THEN Whole(1)
                         ELSE Minus(Whole(1), Cost(Absolute(Before(held, i))))
        IN  Last(curve) = ProductOf([i \in DOMAIN held |-> growth(i)])

\* The three strategies of a symbol are ranked by the newest rows: a run leaves
\* either none or all three of them, over the same bars and enough of them,
\* whatever failed on the way.
RowsAreComparable ==
    \A row \in backtests :
        LET together == {other \in backtests : other.run = row.run /\ other.symbol = row.symbol}
        IN  /\ {other.strategyId : other \in together} = Strategy
            /\ \A other \in together : other.dataset = row.dataset
            /\ Len(row.dataset) >= MinBarsToRun

\* A strategy that never traded has no record: none of its ratios is a number,
\* so that no threshold on one of them can be met.  One that traded has a win
\* rate and an expectancy, and a Sharpe ratio unless its equity never moved.
NoTradesNoRecord ==
    \A row \in backtests \cup inserted :
        LET m == row.metrics
        IN  /\ (m.numTrades = 0) = (m.turnover = Whole(0))
            /\ m.numTrades = 0 =>
                /\ m.totalReturn = Whole(0)
                /\ {m.winRate, m.expectancy, m.payoffRatio, m.profitFactor, m.sharpeRatio,
                    m.sortinoRatio, m.calmarRatio, m.recoveryFactor} = {None}
            /\ m.numTrades > 0 =>
                /\ None \notin {m.winRate, m.expectancy}
                /\ m.sharpeRatio = None => m.totalReturn = Whole(0) /\ m.recoveryFactor = None

=============================================================================
