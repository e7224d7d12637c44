----------------------------- MODULE Strategies -----------------------------
(***************************************************************************)
(* services/strategy-engine: the candidates the three strategies propose   *)
(* for a series of bars.  Of a candidate's rules and labels only the       *)
(* numbers stay that somebody reads.                                       *)
(***************************************************************************)
EXTENDS Regime

CONSTANTS
    AtrWindow, ChannelWindow, BandWindow,
    AtrMultiplier, RewardRisk, NumStd,  \* fractions
    EstimatedCosts                      \* a fraction

ASSUME StrategiesAssumption ==
    /\ AtrWindow \in Nat \ {0} /\ ChannelWindow \in Nat \ {0} /\ BandWindow \in Nat \ {0, 1}
    /\ \A a \in {AtrMultiplier, RewardRisk, NumStd, EstimatedCosts} : IsFraction(a) /\ Positive(a)

TrendFollowing == "trend_following_sma_v1"
MeanReversion  == "mean_reversion_bollinger_v1"
Breakout       == "breakout_donchian_v1"

\* STRATEGIES of the two runners, in their order.
StrategyIds == <<TrendFollowing, MeanReversion, Breakout>>
Strategy == ToSet(StrategyIds)

allowed_regimes ==
    [s \in Strategy |->
        CASE s = TrendFollowing -> {"BULLISH_TREND", "BEARISH_TREND"}
          [] s = MeanReversion  -> {"SIDEWAYS", "LOW_VOLATILITY"}
          [] s = Breakout       -> {"HIGH_VOLATILITY", "BULLISH_TREND", "BEARISH_TREND"}]

NoCandidate == [strategyId |-> "none"]

Half == Frac(1, 2)
Upper(a, b) == IF Below(a, b) THEN b ELSE a

\* Mutant of Capped: min(1.0, ...) forgotten.
Uncapped(a) == a

Capped(a) == IF Below(Whole(1), a) THEN Whole(1) ELSE a

\* The price so far from another in the direction of a trade, or against it.
Ahead(price, direction, distance) ==
    IF direction = "LONG" THEN Plus(price, distance) ELSE Minus(price, distance)
Behind(price, direction, distance) ==
    IF direction = "LONG" THEN Minus(price, distance) ELSE Plus(price, distance)

Entry(bars) == Whole(Last(bars).close)

TrueRange(bars, i) ==
    LET high == Whole(bars[i].high)
        low  == Whole(bars[i].low)
        prev == Whole(bars[i - 1].close)
    IN  Upper(Minus(high, low), Upper(Absolute(Minus(high, prev)), Absolute(Minus(low, prev))))

\* atr(): the average of the first true ranges, then Wilder's smoothing.
Atr(bars) ==
    LET ranges == [i \in 1..(Len(bars) - 1) |-> TrueRange(bars, i + 1)]
        smooth[n \in AtrWindow..Len(ranges)] ==
            IF n = AtrWindow THEN Mean(SubSeq(ranges, 1, AtrWindow))
            ELSE Share(Plus(Times(AtrWindow - 1, smooth[n - 1]), ranges[n]), AtrWindow)
    IN  smooth[Len(ranges)]

\* TrendFollowingStrategy.generate: the averages must agree with the trend.
GenerateTrendFollowing(bars, regime) ==
    LET fast      == Sma(Closes(bars), FastWindow)
        slow      == Sma(Closes(bars), SlowWindow)
        direction == CASE regime.label = "BULLISH_TREND" /\ Below(slow, fast) -> "LONG"
                       [] regime.label = "BEARISH_TREND" /\ Below(fast, slow) -> "SHORT"
                       [] OTHER -> "NONE"
        distance  == Product(Atr(bars), AtrMultiplier)
    IN  IF direction = "NONE" THEN NoCandidate
        ELSE [strategyId |-> TrendFollowing, regime |-> regime.label, direction |-> direction,
              entry  |-> Entry(bars),
              stop   |-> Behind(Entry(bars), direction, distance),
              target |-> Ahead(Entry(bars), direction, Product(distance, RewardRisk)),
              signalStrength |-> regime.confidence,
              expectedEdge   |-> Over(Absolute(Minus(fast, slow)), slow)]

\* Mutant of StopBeyondBand: the stop on the near side of the band.
StopInsideBand(band, direction, width) == Ahead(band, direction, Product(width, Half))

\* Half a band's width beyond the band, wherever the price has gone.
StopBeyondBand(band, direction, width) == Behind(band, direction, Product(width, Half))

\* MeanReversionStrategy.generate over bollinger_bands().
GenerateMeanReversion(bars, regime) ==
    LET window    == Newest(Closes(bars), BandWindow)
        middle    == Mean(window)
        distance  == Product(NumStd, Root(Share(SquaredDeviations(window), BandWindow), Steps))
        width     == Times(2, distance)
        direction == CASE Below(Entry(bars), Minus(middle, distance)) -> "LONG"
                       [] Below(Plus(middle, distance), Entry(bars))  -> "SHORT"
                       [] OTHER -> "NONE"
        band      == Behind(middle, direction, distance)
    IN  IF direction = "NONE" THEN NoCandidate
        ELSE [strategyId |-> MeanReversion, regime |-> regime.label, direction |-> direction,
              entry  |-> Entry(bars),
              stop   |-> StopBeyondBand(band, direction, width),
              target |-> middle,
              signalStrength |-> IF Positive(width)
                                 THEN Capped(Over(Absolute(Minus(Entry(bars), band)), width))
                                 ELSE Whole(0),
              expectedEdge   |-> Over(Absolute(Minus(middle, Entry(bars))), Entry(bars))]

\* donchian_channel() of the bars before the last.
Channel(bars) ==
    LET window == Newest(Front(bars), ChannelWindow)
    IN  [upper |-> Whole(CHOOSE h \in {b.high : b \in ToSet(window)} :
                            \A b \in ToSet(window) : b.high <= h),
         lower |-> Whole(CHOOSE l \in {b.low : b \in ToSet(window)} :
                            \A b \in ToSet(window) : b.low >= l)]

\* BreakoutStrategy.generate.
GenerateBreakout(bars, regime) ==
    LET channel   == Channel(bars)
        middle    == Share(Plus(channel.upper, channel.lower), 2)
        width     == Minus(channel.upper, channel.lower)
        direction == CASE Below(channel.upper, Entry(bars)) -> "LONG"
                       [] Below(Entry(bars), channel.lower) -> "SHORT"
                       [] OTHER -> "NONE"
    IN  IF direction = "NONE" THEN NoCandidate
        ELSE [strategyId |-> Breakout, regime |-> regime.label, direction |-> direction,
              entry  |-> Entry(bars),
              stop   |-> middle,
              target |-> Ahead(Entry(bars), direction, width),
              signalStrength |-> IF Positive(width)
                                 THEN Capped(Over(Absolute(Minus(Entry(bars), middle)), width))
                                 ELSE Whole(0),
              expectedEdge   |-> Over(width, Entry(bars))]

Generate(s, bars, regime) ==
    CASE s = TrendFollowing -> GenerateTrendFollowing(bars, regime)
      [] s = MeanReversion  -> GenerateMeanReversion(bars, regime)
      [] s = Breakout       -> GenerateBreakout(bars, regime)

\* An indicator raises on fewer bars than its window needs.
Window(s) ==
    CASE s = TrendFollowing -> IF SlowWindow > AtrWindow THEN SlowWindow ELSE AtrWindow + 1
      [] s = MeanReversion  -> BandWindow
      [] s = Breakout       -> ChannelWindow + 1

\* A candidate, if there is one.
Proposed(candidate) == IF candidate = NoCandidate THEN << >> ELSE <<candidate>>

\* Mutant of RunStrategies: the strategies police themselves.
RunAllStrategies(bars, regime) ==
    Proposed(Generate(TrendFollowing, bars, regime))
    \o Proposed(Generate(MeanReversion, bars, regime))
    \o Proposed(Generate(Breakout, bars, regime))

\* A strategy is only asked in the regimes it is allowed in.
Asked(s, bars, regime) ==
    IF regime.label \in allowed_regimes[s] THEN Proposed(Generate(s, bars, regime)) ELSE << >>

\* run_strategies, over StrategyIds.
RunStrategies(bars, regime) ==
    Asked(TrendFollowing, bars, regime) \o Asked(MeanReversion, bars, regime)
    \o Asked(Breakout, bars, regime)

=============================================================================
