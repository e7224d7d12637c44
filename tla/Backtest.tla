------------------------------ MODULE Backtest ------------------------------
(***************************************************************************)
(* services/backtester: the position a strategy holds after a series of    *)
(* bars, what one more bar does to the equity, and the metrics of a        *)
(* finished walk.  Equities are exact fractions; positions are rounded to  *)
(* multiples of 1 / Grain.  Of the metrics with a square root or a power   *)
(* only the sign stays.                                                    *)
(***************************************************************************)
EXTENDS Strategies

CONSTANTS
    CostRate,       \* total_bps / 10 000
    Grain,
    GrowthLimit,    \* for each number of periods, the growth no float can annualize
    None

ASSUME BacktestAssumption ==
    /\ IsFraction(CostRate) /\ ~Below(CostRate, Whole(0)) /\ Grain \in Nat \ {0}
    /\ \A periods \in DOMAIN GrowthLimit :
        IsFraction(GrowthLimit[periods]) /\ Below(Whole(1), GrowthLimit[periods])
    /\ ~IsFraction(None)

Rounded(a) == Frac((2 * a.n * Grain + a.d) \div (2 * a.d), Grain)

Signal(candidate) ==
    IF candidate = NoCandidate THEN Whole(0)
    ELSE Times(IF candidate.direction = "LONG" THEN 1 ELSE -1, Rounded(candidate.signalStrength))

\* position_fn: whatever is missing means a flat position.
PositionFn(s, bars) ==
    LET regime == ClassifyRegime(bars)
    IN  IF Len(bars) < MinBars \/ Len(bars) < Window(s) THEN Whole(0)
        ELSE IF regime.label \notin allowed_regimes[s] THEN Whole(0)
        ELSE Signal(Generate(s, bars, regime))

Cost(turnover) == Product(turnover, CostRate)

\* The equity after the bar from one close to the next, held at a signal that
\* was decided at the first close and had to be moved to from a position.
NextEquity(equity, position, signal, from, to) ==
    LET bar_return == Minus(Over(Whole(to), Whole(from)), Whole(1))
        cost       == Cost(Absolute(Minus(signal, position)))
    IN  Product(equity, Product(Plus(Whole(1), Product(signal, bar_return)),
                                Minus(Whole(1), cost)))

\* The position before the i-th one was taken.
Before(held, i) == IF i = 1 THEN Whole(0) ELSE held[i - 1]

\* extract_round_trip_trades: what each run of bars at one position other than
\* zero returned, by the bar that opened it.  held[i] is held from curve[i] to
\* curve[i + 1].
RoundTrips(held, curve) ==
    LET opened == {i \in DOMAIN held : held[i] # Whole(0) /\ held[i] # Before(held, i)}
        end(i) == CHOOSE j \in i..Len(held) :
                        /\ \A m \in i..j : held[m] = held[i]
                        /\ j < Len(held) => held[j + 1] # held[i]
    IN  [i \in opened |-> Minus(Over(curve[end(i) + 1], curve[i]), Whole(1))]

PeriodReturns(curve) ==
    [i \in 1..(Len(curve) - 1) |-> Minus(Over(curve[i + 1], curve[i]), Whole(1))]

Turnover(held) == Total([i \in DOMAIN held |-> Absolute(Minus(held[i], Before(held, i)))])

Greatest(S) == CHOOSE a \in S : \A b \in S : AtMost(b, a)

\* max_drawdown: the worst fall from the highest point so far.
MaxDrawdown(curve) ==
    LET peak(j) == Greatest({curve[i] : i \in 1..j})
        fall(j) == Over(Minus(peak(j), curve[j]), peak(j))
    IN  Greatest({Whole(0)} \cup {fall(j) : j \in DOMAIN curve})

Sign(a) == Whole(IF a.n > 0 THEN 1 ELSE IF a.n < 0 THEN -1 ELSE 0)

Size(f)    == Cardinality(DOMAIN f)
Average(f) == Share(Total(f), Size(f))

Won(trades)  == Restrict(trades, {i \in DOMAIN trades : trades[i].n > 0})
Lost(trades) == Restrict(trades, {i \in DOMAIN trades : trades[i].n < 0})

\* Mutant of Safe: an undefined metric is a zero.
SafeZero(defined, value) == IF defined THEN value ELSE Whole(0)

\* _safe: a metric that raises a ValueError is null.
Safe(defined, value) == IF defined THEN value ELSE None

\* _compute_metrics.
ComputeMetrics(bars, held, curve) ==
    LET trades   == RoundTrips(held, curve)
        returns  == PeriodReturns(curve)
        total    == Minus(Last(curve), Whole(1))
        drawdown == MaxDrawdown(curve)
        wins     == Won(trades)
        losses   == Lost(trades)
    IN  [sampleSizeBars |-> Len(bars),
         numTrades      |-> Size(trades),
         totalReturn    |-> total,
         turnover       |-> Turnover(held),
         winRate        |-> Safe(Size(trades) > 0, Frac(Size(wins), Size(trades))),
         expectancy     |-> Safe(Size(trades) > 0, Average(trades)),
         payoffRatio    |-> Safe(Size(wins) > 0 /\ Size(losses) > 0,
                                 Over(Average(wins), Absolute(Average(losses)))),
         profitFactor   |-> Safe(Size(losses) > 0, Over(Total(wins), Absolute(Total(losses)))),
         sharpeRatio    |-> Safe(\E r, s \in ToSet(returns) : r # s, Sign(Mean(returns))),
         sortinoRatio   |-> Safe(\E r \in ToSet(returns) : r.n < 0, Sign(Mean(returns))),
         calmarRatio    |-> Safe(Last(curve).n >= 0 /\ drawdown # Whole(0), Sign(total)),
         recoveryFactor |-> Safe(drawdown # Whole(0), Over(total, drawdown))]

\* annualized_return raises the growth to periods_per_year / periods: the more
\* periods, the more growth a float still holds.  Beyond it is an OverflowError,
\* which _safe does not catch.
Overflows(curve) == Below(GrowthLimit[Len(curve) - 1], Last(curve))

=============================================================================
