------------------------------- MODULE Regime -------------------------------
(***************************************************************************)
(* services/regime-engine: the label of a series of closed bars.  Bars are *)
(* records of prices and volume, oldest first; windows and thresholds are  *)
(* those of RegimeThresholds, in exact fractions.                          *)
(***************************************************************************)
EXTENDS Fractions, SequencesExt

CONSTANTS
    FastWindow, SlowWindow, VolatilityWindow, ObvWindow,
    TrendThreshold, HighVolatility, LowVolatility,  \* fractions
    StressSigma, ObvRatio,                          \* fractions
    Steps           \* square roots are rounded to multiples of 1 / Steps

Labels == {"BULLISH_TREND", "BEARISH_TREND", "SIDEWAYS", "HIGH_VOLATILITY",
           "LOW_VOLATILITY", "ACCUMULATION", "DISTRIBUTION", "STRESS_EVENT"}

Positive(a) == Below(Whole(0), a)

\* The constants are fields of RegimeThresholds, which __post_init__ checks.
ValidThresholds ==
    /\ FastWindow \in Nat \ {0} /\ SlowWindow \in Nat /\ FastWindow < SlowWindow
    /\ VolatilityWindow \in Nat \ {0, 1} /\ ObvWindow \in Nat \ {0, 1}
    /\ Positive(TrendThreshold) /\ Positive(StressSigma)
    /\ Below(LowVolatility, HighVolatility) /\ ~Below(LowVolatility, Whole(0))
    /\ Positive(ObvRatio) /\ AtMost(ObvRatio, Whole(1))

ASSUME RegimeAssumption ==
    /\ \A a \in {TrendThreshold, HighVolatility, LowVolatility, StressSigma, ObvRatio} :
            IsFraction(a)
    /\ ValidThresholds /\ Steps \in Nat \ {0}

\* Bars as the ohlcv contract has them, with a price that can be divided by.
ClosedBars ==
    {bar \in [close : Nat \ {0}, high : Nat, low : Nat, volume : Nat] :
        bar.low <= bar.close /\ bar.close <= bar.high}

\* The last n elements of a sequence, and the mean of a sequence of fractions.
Newest(s, n) == SubSeq(s, Len(s) - n + 1, Len(s))
Mean(s) == Share(Total(s), Len(s))

Closes(bars) == [i \in DOMAIN bars |-> Whole(bars[i].close)]

\* The last value of sma().
Sma(prices, window) == Mean(Newest(prices, window))

\* simple_returns.
Returns(prices) ==
    [i \in 1..(Len(prices) - 1) |-> Minus(Over(prices[i + 1], prices[i]), Whole(1))]

SquaredDeviations(s) ==
    LET mean == Mean(s)
    IN  Total([i \in DOMAIN s |-> Product(Minus(s[i], mean), Minus(s[i], mean))])

\* The one value of rolling_volatility() over as many returns as its window.
Volatility(returns) == Root(Share(SquaredDeviations(returns), Len(returns) - 1), Steps)

\* obv()[-1]: the volumes of the rising bars less those of the falling ones.
Obv(bars) ==
    LET change[i \in 2..Len(bars)] ==
            CASE bars[i].close > bars[i - 1].close -> bars[i].volume
              [] bars[i].close < bars[i - 1].close -> -bars[i].volume
              [] OTHER -> 0
    IN  SumFunction(change)

TotalVolume(bars) == SumFunction([i \in DOMAIN bars |-> bars[i].volume])

\* What _classify is given.
Metrics(bars) ==
    LET slow    == Sma(Closes(bars), SlowWindow)
        returns == Returns(Newest(Closes(bars), VolatilityWindow + 1))
        window  == Newest(bars, ObvWindow)
    IN  [trend_strength  |-> Over(Minus(Sma(Closes(bars), FastWindow), slow), slow),
         volatility      |-> Volatility(returns),
         last_return     |-> Last(returns),
         obv_trend_ratio |-> IF TotalVolume(window) > 0
                             THEN Frac(Obv(window), TotalVolume(window)) ELSE Whole(0)]

\* _threshold_confidence: 1/2 at the threshold, 1 from twice the threshold.
ThresholdConfidence(value, threshold) ==
    LET confidence == Over(Absolute(value), Times(2, threshold))
    IN  IF Below(Whole(1), confidence) THEN Whole(1) ELSE confidence

Stressed(m) ==
    Positive(m.volatility) /\ Below(Product(StressSigma, m.volatility), Absolute(m.last_return))

\* _classify: the first rule that applies.
Classify(m) ==
    IF Stressed(m) THEN "STRESS_EVENT"
    ELSE IF Below(TrendThreshold, Absolute(m.trend_strength))
         THEN IF Positive(m.trend_strength) THEN "BULLISH_TREND" ELSE "BEARISH_TREND"
    ELSE IF Below(ObvRatio, m.obv_trend_ratio) THEN "ACCUMULATION"
    ELSE IF Below(m.obv_trend_ratio, Times(-1, ObvRatio)) THEN "DISTRIBUTION"
    ELSE IF Below(HighVolatility, m.volatility) THEN "HIGH_VOLATILITY"
    ELSE IF Below(m.volatility, LowVolatility) THEN "LOW_VOLATILITY"
    ELSE "SIDEWAYS"

Confidence(label, m) ==
    CASE label = "STRESS_EVENT" ->
            ThresholdConfidence(Over(Absolute(m.last_return), m.volatility), Times(2, StressSigma))
      [] label \in {"BULLISH_TREND", "BEARISH_TREND"} ->
            ThresholdConfidence(m.trend_strength, TrendThreshold)
      [] label \in {"ACCUMULATION", "DISTRIBUTION"} ->
            ThresholdConfidence(m.obv_trend_ratio, ObvRatio)
      [] label = "HIGH_VOLATILITY" -> ThresholdConfidence(m.volatility, HighVolatility)
      [] label = "LOW_VOLATILITY" ->
            Minus(Whole(1), ThresholdConfidence(m.volatility, LowVolatility))
      [] label = "SIDEWAYS" ->
            Minus(Whole(1), ThresholdConfidence(m.trend_strength, TrendThreshold))

\* classify_regime raises on fewer bars.
MinBars ==
    CHOOSE n \in {SlowWindow, VolatilityWindow + 1, ObvWindow} :
        \A m \in {SlowWindow, VolatilityWindow + 1, ObvWindow} : m <= n

ClassifyRegime(bars) ==
    LET m == Metrics(bars)
    IN  [label |-> Classify(m), confidence |-> Confidence(Classify(m), m)]

=============================================================================
