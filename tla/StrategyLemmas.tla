--------------------------- MODULE StrategyLemmas ---------------------------
(***************************************************************************)
(* What the classification and the strategies do for every series of bars  *)
(* and every threshold: the types of their metrics, the confidence a label *)
(* comes with, the strength of a candidate, and how far back they look.    *)
(***************************************************************************)
EXTENDS Strategies, DataLemmas

-----------------------------------------------------------------------------
(* Constants                                                               *)

\* What the constants are assumed to be is what the lemmas are about.
LEMMA FractionsAre ==
    ASSUME NEW a, IsFraction(a)
    PROVE  a \in Rational
<1>1. a.n \in Int /\ a.d \in Nat \ {0}
  BY DEF IsFraction
<1> QED
  BY <1>1, FracIs DEF IsFraction

\* Positive, as the code tests it.
LEMMA PositiveFractions ==
    ASSUME NEW a \in Rational, Positive(a)
    PROVE  a \in Positives
BY RatioIs DEF Positive

\* The literals of the model.
LEMMA SmallFractions ==
    /\ Half = Frac(1, 2) /\ Half \in Positives
    /\ Whole(1) = Frac(1, 1) /\ Whole(1) \in Positives /\ Whole(0) \in Ratios
    /\ Ratios \subseteq Rational /\ Positives \subseteq Ratios
<1>1. Half = Frac(1, 2) /\ Whole(1) = Frac(1, 1) /\ Whole(0) = Frac(0, 1)
  <2>1. Whole(1) = Frac(1 * 1, 1) /\ Whole(0) = Frac(0 * 1, 1)
    BY WholeIs
  <2> QED
    BY <2>1 DEF Half
<1>2. Frac(1, 2) \in Positives /\ Frac(1, 1) \in Positives /\ Frac(0, 1) \in Ratios
  BY RatioFrac
<1>3. Positives \subseteq Ratios
  BY RationalIsFrac DEF Positives, Ratios
<1> QED
  BY <1>1, <1>2, <1>3 DEF Ratios

\* RegimeThresholds, as the assumption has them.
LEMMA ThresholdsAre ==
    /\ TrendThreshold \in Positives /\ StressSigma \in Positives /\ ObvRatio \in Positives
    /\ HighVolatility \in Positives /\ LowVolatility \in Ratios
<1>1. /\ TrendThreshold \in Rational /\ StressSigma \in Rational /\ ObvRatio \in Rational
      /\ HighVolatility \in Rational /\ LowVolatility \in Rational
  <2>1. /\ IsFraction(TrendThreshold) /\ IsFraction(StressSigma) /\ IsFraction(ObvRatio)
        /\ IsFraction(HighVolatility) /\ IsFraction(LowVolatility)
    BY RegimeAssumption, Zenon
  <2> QED
    BY <2>1, FractionsAre
<1>2. ValidThresholds
  BY RegimeAssumption
<1>3. TrendThreshold \in Positives /\ StressSigma \in Positives /\ ObvRatio \in Positives
  BY <1>1, <1>2, PositiveFractions DEF ValidThresholds
<1>4. LowVolatility \in Ratios
  BY <1>1, <1>2, RatioIs DEF ValidThresholds
<1>5. HighVolatility \in Positives
  <2>1. Below(LowVolatility, HighVolatility)
    BY <1>2 DEF ValidThresholds
  <2>2. /\ LowVolatility.n \in Nat /\ LowVolatility.d \in Nat \ {0}
        /\ HighVolatility.n \in Int /\ HighVolatility.d \in Nat \ {0}
    BY <1>1, <1>4, RationalIsFrac DEF Ratios
  <2>3. LowVolatility.n * HighVolatility.d >= 0
    BY <2>2
  <2>4. HighVolatility.n * LowVolatility.d > 0
    BY <2>1, <2>2, <2>3 DEF Below
  <2>5. HighVolatility.n > 0
    BY <2>2, <2>4
  <2> QED
    BY <1>1, <2>5 DEF Positives
<1> QED
  BY <1>3, <1>4, <1>5

\* MinBars covers every window of the classification.
LEMMA WindowsAre ==
    /\ FastWindow \in Nat \ {0} /\ SlowWindow \in Nat \ {0} /\ FastWindow < SlowWindow
    /\ VolatilityWindow \in Nat \ {0, 1} /\ ObvWindow \in Nat \ {0, 1}
    /\ MinBars \in Nat
    /\ SlowWindow <= MinBars /\ VolatilityWindow + 1 <= MinBars /\ ObvWindow <= MinBars
<1>1. /\ FastWindow \in Nat \ {0} /\ SlowWindow \in Nat \ {0} /\ FastWindow < SlowWindow
      /\ VolatilityWindow \in Nat \ {0, 1} /\ ObvWindow \in Nat \ {0, 1}
  BY RegimeAssumption DEF ValidThresholds
<1> DEFINE S == {SlowWindow, VolatilityWindow + 1, ObvWindow}
<1>2. S \subseteq Nat
  BY <1>1
<1>3. \E n \in S : \A m \in S : m <= n
  BY <1>1
<1>4. MinBars \in S /\ \A m \in S : m <= MinBars
  <2>1. MinBars = CHOOSE n \in S : \A m \in S : m <= n
    BY DEF MinBars
  <2> HIDE DEF S
  <2> QED
    BY <1>3, <2>1
<1> QED
  BY <1>1, <1>2, <1>4

-----------------------------------------------------------------------------
(* Series                                                                  *)

\* The newest n entries are n entries.
LEMMA NewestIs ==
    ASSUME NEW S, NEW s \in Seq(S), NEW n \in Nat \ {0}, n <= Len(s)
    PROVE  Newest(s, n) \in Seq(S) /\ Len(Newest(s, n)) = n
<1>1. Len(s) \in Nat /\ Len(s) - n + 1 \in 1..Len(s)
  OBVIOUS
<1> QED
  BY <1>1 DEF Newest

\* The entries of the newest part of a sequence.
LEMMA NewestAt ==
    ASSUME NEW S, NEW s \in Seq(S), NEW n \in Nat \ {0}, n <= Len(s)
    PROVE  \A i \in 1..n : Newest(s, n)[i] = s[Len(s) - n + i]
<1> SUFFICES ASSUME NEW i \in 1..n PROVE Newest(s, n)[i] = s[Len(s) - n + i]
  OBVIOUS
<1> DEFINE lo == Len(s) - n + 1
           hi == Len(s)
<1>1. lo \in 1..hi /\ hi \in Nat /\ i \in 1..(hi - lo + 1) /\ lo + i - 1 = Len(s) - n + i
  OBVIOUS
<1>2. Newest(s, n) = SubSeq(s, lo, hi)
  BY DEF Newest
<1> HIDE DEF lo, hi
<1>3. SubSeq(s, lo, hi)[i] = s[lo + i - 1]
  BY <1>1
<1> QED
  BY <1>1, <1>2, <1>3, Zenon

\* Means and sums keep the sign of their entries.
LEMMA MeanTypes ==
    ASSUME NEW s \in Seq(Rational), s # << >>
    PROVE  /\ Total(s) \in Rational /\ Mean(s) \in Rational
           /\ s \in Seq(Ratios) => Total(s) \in Ratios
           /\ s \in Seq(Positives) => Mean(s) \in Positives
<1> DEFINE S == 1..Len(s)
<1>1. Len(s) \in Nat \ {0} /\ s \in [S -> Rational] /\ IsFiniteSet(S) /\ 1 \in S
  BY FS_Interval
<1>2. Total(s) \in Rational
  BY <1>1, TotalType
<1>3. ASSUME s \in Seq(Ratios)
      PROVE  Total(s) \in Ratios
  <2>1. s \in [S -> Ratios]
    BY <1>1, <1>3
  <2> QED
    BY <1>1, <2>1, TotalSign
<1>4. ASSUME s \in Seq(Positives)
      PROVE  Total(s) \in Positives
  <2>1. s \in [S -> Ratios] /\ s[1] \in Positives
    BY <1>1, <1>4, SmallFractions
  <2> QED
    BY <1>1, <2>1, TotalSign
<1> QED
  BY <1>1, <1>2, <1>3, <1>4, ShareTypes DEF Mean

\* What the contract says of one bar.
LEMMA BarIs ==
    ASSUME NEW bar \in ClosedBars
    PROVE  /\ bar.close \in Nat \ {0} /\ bar.high \in Nat /\ bar.low \in Nat /\ bar.volume \in Nat
           /\ bar.low <= bar.close /\ bar.close <= bar.high
BY DEF ClosedBars

\* One positive price for each bar.
LEMMA ClosesAre ==
    ASSUME NEW b \in Seq(ClosedBars)
    PROVE  /\ Closes(b) \in Seq(Positives) /\ Len(Closes(b)) = Len(b)
           /\ \A i \in DOMAIN b : Closes(b)[i] = Whole(b[i].close)
<1>1. ASSUME NEW i \in DOMAIN b
      PROVE  Whole(b[i].close) \in Positives
  <2>0. b[i] \in ClosedBars
    OBVIOUS
  <2>1. b[i].close \in Nat \ {0} /\ b[i].close \in Int
    BY <2>0, BarIs
  <2>2. Whole(b[i].close) \in Rational
    BY <2>1, WholeIs
  <2> QED
    BY <2>1, <2>2 DEF Whole, Positives
<1>2. DOMAIN b = 1..Len(b) /\ Len(b) \in Nat
  OBVIOUS
<1> QED
  BY <1>1, <1>2 DEF Closes

\* Sequences of prices are sequences of fractions.
LEMMA PositivesAreRational == \A s \in Seq(Positives) : s \in Seq(Ratios) /\ s \in Seq(Rational)
BY SmallFractions

\* A moving average of prices is a price.
LEMMA SmaType ==
    ASSUME NEW b \in Seq(ClosedBars), NEW n \in Nat \ {0}, n <= Len(b)
    PROVE  Sma(Closes(b), n) \in Positives
<1>1. Closes(b) \in Seq(Positives) /\ Len(Closes(b)) = Len(b)
  BY ClosesAre
<1>2. Newest(Closes(b), n) \in Seq(Positives) /\ Len(Newest(Closes(b), n)) = n
  BY <1>1, NewestIs
<1>3. Newest(Closes(b), n) # << >> /\ Newest(Closes(b), n) \in Seq(Rational)
  BY <1>2, PositivesAreRational
<1> QED
  BY <1>2, <1>3, MeanTypes DEF Sma

\* One return less than prices.
LEMMA ReturnsType ==
    ASSUME NEW s \in Seq(Positives), Len(s) >= 1
    PROVE  Returns(s) \in Seq(Rational) /\ Len(Returns(s)) = Len(s) - 1
<1>1. ASSUME NEW i \in 1..(Len(s) - 1)
      PROVE  Minus(Over(s[i + 1], s[i]), Whole(1)) \in Rational
  <2>1. s[i + 1] \in Positives /\ s[i] \in Positives
    BY <1>1
  <2>2. Over(s[i + 1], s[i]) \in Rational
    BY <2>1, OverTypes, SmallFractions
  <2> QED
    BY <2>2, PlusTypes, SmallFractions
<1>2. Len(s) - 1 \in Nat
  OBVIOUS
<1> QED
  BY <1>1, <1>2 DEF Returns

\* The sum under the square root is not negative.
LEMMA DeviationsType ==
    ASSUME NEW s \in Seq(Rational), s # << >>
    PROVE  SquaredDeviations(s) \in Ratios
<1> DEFINE mean == Mean(s)
           squares == [i \in DOMAIN s |-> Product(Minus(s[i], mean), Minus(s[i], mean))]
<1>1. mean \in Rational
  BY MeanTypes
<1>2. ASSUME NEW i \in DOMAIN s
      PROVE  Product(Minus(s[i], mean), Minus(s[i], mean)) \in Ratios
  BY <1>1, <1>2, PlusTypes, ProductTypes
<1>3. DOMAIN s = 1..Len(s) /\ IsFiniteSet(DOMAIN s)
  BY FS_Interval
<1>4. squares \in [DOMAIN s -> Ratios]
  BY <1>2
<1>5. SquaredDeviations(s) = Total(squares)
  BY Zenon DEF SquaredDeviations
<1> HIDE DEF squares
<1> QED
  BY <1>3, <1>4, <1>5, TotalSign

\* On-balance and total volume are integers.
LEMMA ObvTypes ==
    ASSUME NEW b \in Seq(ClosedBars), b # << >>
    PROVE  Obv(b) \in Int /\ TotalVolume(b) \in Int
<1>0. \A i \in DOMAIN b : b[i] \in ClosedBars
  OBVIOUS
<1>1. \A i \in DOMAIN b : b[i].volume \in Nat
  BY <1>0, BarIs
<1>2. DOMAIN b = 1..Len(b) /\ Len(b) \in Nat
  OBVIOUS
<1> DEFINE volumes == [i \in DOMAIN b |-> b[i].volume]
           S == 2..Len(b)
           Change(i) == CASE b[i].close > b[i - 1].close -> b[i].volume
                          [] b[i].close < b[i - 1].close -> -b[i].volume
                          [] OTHER -> 0
           change == [i \in S |-> Change(i)]
<1>3. volumes \in [DOMAIN b -> Int] /\ IsFiniteSet(DOMAIN b) /\ IsFiniteSet(S)
  <2>1. \A i \in DOMAIN b : b[i].volume \in Int
    BY <1>1
  <2>2. IsFiniteSet(1..Len(b)) /\ IsFiniteSet(2..Len(b))
    BY <1>2, FS_Interval
  <2> QED
    BY <1>2, <2>1, <2>2
<1>4. TotalVolume(b) \in Int
  <2>1. TotalVolume(b) = SumFunction(volumes)
    BY Zenon DEF TotalVolume
  <2> HIDE DEF volumes
  <2> QED
    BY <1>3, <2>1, SumInt
<1>5. \A i \in S : Change(i) \in Int
  BY <1>1, <1>2
<1>6. change \in [S -> Int]
  <2> HIDE DEF Change
  <2> QED
    BY <1>5
<1>7. Obv(b) = SumFunction(change)
  BY DEF Obv
<1>8. SumFunction(change) \in Int
  <2> HIDE DEF change, S
  <2> QED
    BY <1>3, <1>6, SumInt
<1> QED
  BY <1>4, <1>7, <1>8

-----------------------------------------------------------------------------
(* Regimes                                                                 *)

\* Of two fractions one is below the other or at most as large.
LEMMA OrderIsTotal ==
    ASSUME NEW a \in Rational, NEW b \in Rational
    PROVE  /\ ~Below(a, b) <=> AtMost(b, a)
           /\ Below(a, b) => AtMost(a, b)
<1>1. a.n * b.d \in Int /\ b.n * a.d \in Int
  BY RationalIsFrac
<1> QED
  BY <1>1 DEF Below, AtMost

\* What exceeds a fraction that is not negative is positive.
LEMMA BelowPositive ==
    ASSUME NEW a \in Ratios, NEW b \in Rational, Below(a, b)
    PROVE  b \in Positives
<1>1. a.n \in Nat /\ a.d \in Nat \ {0} /\ b.n \in Int /\ b.d \in Nat \ {0}
  BY RationalIsFrac DEF Ratios
<1>2. a.n * b.d >= 0
  BY <1>1
<1>3. b.n * a.d > 0
  BY <1>1, <1>2 DEF Below
<1>4. b.n > 0
  BY <1>1, <1>3
<1> QED
  BY <1>4 DEF Positives

\* A fraction that is not negative is its own magnitude.
LEMMA AbsOfRatio ==
    ASSUME NEW a \in Ratios
    PROVE  Absolute(a) = a
<1>1. a.n \in Nat /\ a = [n |-> a.n, d |-> a.d]
  BY RationalIsFrac DEF Ratios
<1>2. Magnitude(a.n) = a.n
  BY <1>1 DEF Magnitude
<1> QED
  BY <1>1, <1>2 DEF Absolute

\* When a quotient is in [0, 1], and when it is half or more.
LEMMA UnitFrac ==
    ASSUME NEW n \in Int, NEW d \in Nat \ {0}
    PROVE  /\ Frac(n, d) \in Rational
           /\ UnitInterval(Frac(n, d)) <=> 0 <= n /\ n <= d
           /\ AtMost(Half, Frac(n, d)) <=> d <= 2 * n
           /\ AtMost(Frac(n, d), Half) <=> 2 * n <= d
           /\ Below(Whole(1), Frac(n, d)) <=> d < n
<1>1. Frac(n, d) \in Rational
  BY FracIs
<1>2. ~Below(Frac(n, d), Whole(0)) <=> 0 <= n
  BY <1>1, RatioIs, RatioFrac
<1>3. AtMost(Frac(n, d), Frac(1, 1)) <=> n * 1 <= 1 * d
  BY FracOrder
<1>4. Below(Frac(1, 1), Frac(n, d)) <=> 1 * d < n * 1
  BY FracOrder
<1>5. AtMost(Frac(1, 2), Frac(n, d)) <=> 1 * d <= n * 2
  BY FracOrder
<1>6. AtMost(Frac(n, d), Frac(1, 2)) <=> n * 2 <= 1 * d
  BY FracOrder
<1> QED
  BY <1>1, <1>2, <1>3, <1>4, <1>5, <1>6, SmallFractions DEF UnitInterval

\* 1/2 at the threshold, and never outside of [0, 1].
LEMMA ConfidenceIs ==
    ASSUME NEW v \in Rational, NEW t \in Positives
    PROVE  LET c == ThresholdConfidence(v, t)
           IN  /\ c \in Rational /\ UnitInterval(c)
               /\ Below(t, Absolute(v)) => AtMost(Half, c)
               /\ AtMost(Absolute(v), t) => AtMost(c, Half)
<1> DEFINE c == ThresholdConfidence(v, t)
<1>1. PICK d \in Nat \ {0}, x \in Int, y \in Int : v = Frac(x, d) /\ t = Frac(y, d)
  BY PairOverOne, SmallFractions
<1>2. y > 0
  BY <1>1, RatioFrac
<1> DEFINE m == Magnitude(x)
<1>3. Absolute(v) = Frac(m, d) /\ m \in Nat
  BY <1>1, AbsOverOne
<1> HIDE DEF m
<1>4. Times(2, t) = Frac(2 * y, d)
  <2> DEFINE two == 2
  <2>0. two \in Int
    OBVIOUS
  <2> HIDE DEF two
  <2>2. Times(two, Frac(y, d)) = Frac(two * y, d)
    BY <2>0, TimesOverOne
  <2>1. Times(2, Frac(y, d)) = Frac(2 * y, d)
    BY <2>2 DEF two
  <2> QED
    BY <1>1, <2>1
<1>5. 2 * y \in Int /\ 2 * y \in Nat \ {0} /\ 2 * y # 0
  BY <1>2
<1> DEFINE q == Over(Absolute(v), Times(2, t))
<1>6. q = Frac(m, 2 * y)
  BY <1>2, <1>3, <1>4, <1>5, OverOne
<1>7. c = IF Below(Whole(1), q) THEN Whole(1) ELSE q
  BY Zenon DEF ThresholdConfidence
<1>8. (Below(t, Absolute(v)) <=> y < m) /\ (AtMost(Absolute(v), t) <=> m <= y)
  <2>1. m \in Int
    BY <1>3
  <2>2. /\ Below(Frac(y, d), Frac(m, d)) <=> y < m
        /\ AtMost(Frac(m, d), Frac(y, d)) <=> m <= y
    BY <2>1, OrderOverOne
  <2> QED
    BY <1>1, <1>3, <2>2
<1> HIDE DEF q, c
<1>9. Below(Whole(1), q) <=> 2 * y < m
  BY <1>3, <1>5, <1>6, UnitFrac
<1>10. CASE 2 * y < m
  <2>1. c = Frac(1, 1)
    BY <1>7, <1>9, <1>10, SmallFractions
  <2>2. c \in Rational /\ UnitInterval(c) /\ AtMost(Half, c)
    BY <2>1, UnitFrac
  <2>3. ~(m <= y)
    BY <1>2, <1>3, <1>10
  <2> QED
    BY <1>8, <2>2, <2>3 DEF c
<1>11. CASE ~(2 * y < m)
  <2>1. c = Frac(m, 2 * y)
    BY <1>6, <1>7, <1>9, <1>11
  <2>2. /\ c \in Rational /\ (UnitInterval(c) <=> 0 <= m /\ m <= 2 * y)
        /\ (AtMost(Half, c) <=> 2 * y <= 2 * m) /\ (AtMost(c, Half) <=> 2 * m <= 2 * y)
    BY <1>3, <1>5, <2>1, UnitFrac
  <2> QED
    BY <1>2, <1>3, <1>8, <1>11, <2>2 DEF c
<1> QED
  BY <1>10, <1>11

\* One minus a confidence is one.
LEMMA ComplementIs ==
    ASSUME NEW a \in Rational, UnitInterval(a)
    PROVE  /\ Minus(Whole(1), a) \in Rational /\ UnitInterval(Minus(Whole(1), a))
           /\ AtMost(a, Half) => AtMost(Half, Minus(Whole(1), a))
<1>1. PICK d \in Nat \ {0}, x \in Int, y \in Int : a = Frac(x, d) /\ a = Frac(y, d)
  BY PairOverOne
<1>2. Whole(1) = Frac(d, d)
  BY WholeIs
<1>3. Minus(Whole(1), a) = Frac(d - x, d)
  <2>1. d \in Int
    OBVIOUS
  <2>2. Minus(Frac(d, d), Frac(x, d)) = Frac(d - x, d)
    BY <2>1, DifferenceOverOne
  <2> QED
    BY <1>1, <1>2, <2>2
<1>4. 0 <= x /\ x <= d /\ (AtMost(a, Half) <=> 2 * x <= d)
  BY <1>1, UnitFrac
<1>5. /\ Frac(d - x, d) \in Rational
      /\ UnitInterval(Frac(d - x, d)) <=> 0 <= d - x /\ d - x <= d
      /\ AtMost(Half, Frac(d - x, d)) <=> d <= 2 * (d - x)
  BY <1>1, UnitFrac
<1> QED
  BY <1>3, <1>4, <1>5

\* The metrics of classify_regime, typed.
MetricsTyped(m) ==
    /\ m.trend_strength \in Rational /\ m.last_return \in Rational
    /\ m.obv_trend_ratio \in Rational /\ m.volatility \in Ratios

\* classify_regime divides by nothing that may be zero.
LEMMA MetricsAre ==
    ASSUME NEW b \in Seq(ClosedBars), Len(b) >= MinBars
    PROVE  MetricsTyped(Metrics(b))
<1>1. SlowWindow <= Len(b) /\ VolatilityWindow + 1 <= Len(b) /\ ObvWindow <= Len(b)
      /\ FastWindow <= Len(b)
  BY WindowsAre
<1>2. Sma(Closes(b), SlowWindow) \in Positives /\ Sma(Closes(b), FastWindow) \in Positives
  BY <1>1, WindowsAre, SmaType
<1> DEFINE slow    == Sma(Closes(b), SlowWindow)
           recent  == Newest(Closes(b), VolatilityWindow + 1)
           returns == Returns(recent)
           window  == Newest(b, ObvWindow)
           trend   == Over(Minus(Sma(Closes(b), FastWindow), slow), slow)
           ratio   == IF TotalVolume(window) > 0
                      THEN Frac(Obv(window), TotalVolume(window)) ELSE Whole(0)
<1>3. trend \in Rational
  <2>1. Minus(Sma(Closes(b), FastWindow), slow) \in Rational
    BY <1>2, SmallFractions, PlusTypes
  <2> QED
    BY <1>2, <2>1, OverTypes
<1>4. recent \in Seq(Positives) /\ Len(recent) = VolatilityWindow + 1
  <2>1. VolatilityWindow + 1 \in Nat \ {0}
    BY WindowsAre
  <2> QED
    BY <1>1, <2>1, ClosesAre, NewestIs
<1> HIDE DEF recent
<1>5. returns \in Seq(Rational) /\ Len(returns) = VolatilityWindow
  <2>1. Len(recent) >= 1 /\ Len(recent) - 1 = VolatilityWindow
    BY <1>4, WindowsAre
  <2> QED
    BY <1>4, <2>1, ReturnsType
<1> HIDE DEF returns
<1>6. Volatility(returns) \in Ratios /\ Last(returns) \in Rational
  <2>1. returns # << >> /\ Len(returns) - 1 \in Nat \ {0} /\ Len(returns) \in DOMAIN returns
    BY <1>5, WindowsAre
  <2>2. Last(returns) \in Rational
    BY <1>5, <2>1 DEF Last
  <2>3. SquaredDeviations(returns) \in Ratios
    BY <1>5, <2>1, DeviationsType
  <2>4. Share(SquaredDeviations(returns), Len(returns) - 1) \in Ratios
    BY <2>1, <2>3, ShareTypes, SmallFractions
  <2>5. Steps \in Nat \ {0}
    BY RegimeAssumption
  <2> QED
    BY <2>2, <2>4, <2>5, RootTypes DEF Volatility
<1>7. ratio \in Rational
  <2>1. window \in Seq(ClosedBars) /\ Len(window) = ObvWindow
    BY <1>1, WindowsAre, NewestIs
  <2>2. window # << >>
    BY <2>1, WindowsAre
  <2> HIDE DEF window
  <2>3. Obv(window) \in Int /\ TotalVolume(window) \in Int
    BY <2>1, <2>2, ObvTypes
  <2> QED
    BY <2>3, FracIs, SmallFractions
<1>8. Metrics(b) = [trend_strength |-> trend, volatility |-> Volatility(returns),
                    last_return |-> Last(returns), obv_trend_ratio |-> ratio]
  BY Zenon DEF Metrics, returns, recent
<1> HIDE DEF trend, ratio
<1> QED
  BY <1>3, <1>6, <1>7, <1>8 DEF MetricsTyped

\* The labels in whose regime some strategy is allowed.
Tradable == {"BULLISH_TREND", "BEARISH_TREND", "SIDEWAYS", "LOW_VOLATILITY", "HIGH_VOLATILITY"}

\* What classify_regime returns.
RegimeSound(r) ==
    /\ r.label \in Labels /\ r.confidence \in Rational /\ UnitInterval(r.confidence)
    /\ r.label \in Tradable => AtMost(Half, r.confidence)

\* Each label comes with the confidence of the test that gave it; a label some
\* strategy trades in comes with half or more, as its test was passed.
LEMMA LabelIsConfident ==
    ASSUME NEW m, MetricsTyped(m)
    PROVE  RegimeSound([label |-> Classify(m), confidence |-> Confidence(Classify(m), m)])
<1> DEFINE label == Classify(m)
           c == Confidence(label, m)
<1>1. /\ m.trend_strength \in Rational /\ m.last_return \in Rational
      /\ m.obv_trend_ratio \in Rational /\ m.volatility \in Ratios /\ m.volatility \in Rational
  BY SmallFractions DEF MetricsTyped
<1>2. /\ label \in Labels
      /\ label = "STRESS_EVENT" => Stressed(m)
      /\ label \in {"BULLISH_TREND", "BEARISH_TREND"} =>
            Below(TrendThreshold, Absolute(m.trend_strength))
      /\ label = "HIGH_VOLATILITY" => Below(HighVolatility, m.volatility)
      /\ label = "LOW_VOLATILITY" => Below(m.volatility, LowVolatility)
      /\ label = "SIDEWAYS" => ~Below(TrendThreshold, Absolute(m.trend_strength))
  BY DEF Classify, Labels
<1> HIDE DEF label
<1> SUFFICES c \in Rational /\ UnitInterval(c) /\ (label \in Tradable => AtMost(Half, c))
  BY <1>2 DEF RegimeSound, label
<1>3. CASE label = "STRESS_EVENT"
  <2>1. m.volatility \in Positives
    BY <1>1, <1>2, <1>3, RatioIs DEF Stressed, Positive
  <2>2. Over(Absolute(m.last_return), m.volatility) \in Rational
    BY <1>1, <2>1, AbsTypes, OverTypes, SmallFractions
  <2>3. Times(2, StressSigma) \in Positives
    BY ThresholdsAre, TimesTypes, SmallFractions
  <2>4. c = ThresholdConfidence(Over(Absolute(m.last_return), m.volatility), Times(2, StressSigma))
    BY <1>3 DEF Confidence
  <2> QED
    BY <1>3, <2>2, <2>3, <2>4, ConfidenceIs DEF Tradable
<1>4. CASE label \in {"BULLISH_TREND", "BEARISH_TREND"}
  <2>1. c = ThresholdConfidence(m.trend_strength, TrendThreshold)
    BY <1>4 DEF Confidence
  <2> QED
    BY <1>1, <1>2, <1>4, <2>1, ThresholdsAre, ConfidenceIs
<1>5. CASE label \in {"ACCUMULATION", "DISTRIBUTION"}
  <2>1. c = ThresholdConfidence(m.obv_trend_ratio, ObvRatio)
    BY <1>5 DEF Confidence
  <2> QED
    BY <1>1, <1>5, <2>1, ThresholdsAre, ConfidenceIs DEF Tradable
<1>6. CASE label = "HIGH_VOLATILITY"
  <2>1. c = ThresholdConfidence(m.volatility, HighVolatility)
    BY <1>6 DEF Confidence
  <2>2. Below(HighVolatility, Absolute(m.volatility))
    BY <1>1, <1>2, <1>6, AbsOfRatio
  <2> QED
    BY <1>1, <2>1, <2>2, ThresholdsAre, ConfidenceIs
<1>7. CASE label = "LOW_VOLATILITY"
  <2>1. c = Minus(Whole(1), ThresholdConfidence(m.volatility, LowVolatility))
    BY <1>7 DEF Confidence
  <2>2. LowVolatility \in Rational /\ LowVolatility \in Positives
    BY <1>1, <1>2, <1>7, ThresholdsAre, BelowPositive, SmallFractions
  <2>3. AtMost(Absolute(m.volatility), LowVolatility)
    BY <1>1, <1>2, <1>7, <2>2, AbsOfRatio, OrderIsTotal
  <2> QED
    BY <1>1, <2>1, <2>2, <2>3, ConfidenceIs, ComplementIs
<1>8. CASE label = "SIDEWAYS"
  <2>1. c = Minus(Whole(1), ThresholdConfidence(m.trend_strength, TrendThreshold))
    BY <1>8 DEF Confidence
  <2>2. AtMost(Absolute(m.trend_strength), TrendThreshold)
    BY <1>1, <1>2, <1>8, ThresholdsAre, AbsTypes, OrderIsTotal, SmallFractions
  <2> QED
    BY <1>1, <2>1, <2>2, ThresholdsAre, ConfidenceIs, ComplementIs
<1> QED
  BY <1>2, <1>3, <1>4, <1>5, <1>6, <1>7, <1>8 DEF Labels

\* classify_regime knows no label outside of its confidence.
LEMMA RegimeIsSound ==
    ASSUME NEW b \in Seq(ClosedBars), Len(b) >= MinBars
    PROVE  RegimeSound(ClassifyRegime(b))
<1> DEFINE m == Metrics(b)
<1>1. MetricsTyped(m)
  BY MetricsAre
<1>2. ClassifyRegime(b) = [label |-> Classify(m), confidence |-> Confidence(Classify(m), m)]
  BY Zenon DEF ClassifyRegime
<1> HIDE DEF m
<1> QED
  BY <1>1, <1>2, LabelIsConfident

-----------------------------------------------------------------------------
(* Strategies                                                              *)

\* min(1.0, ...) ends in the unit interval.
LEMMA CappedIs ==
    ASSUME NEW a \in Ratios
    PROVE  Capped(a) \in Rational /\ UnitInterval(Capped(a))
<1>1. a.n \in Nat /\ a.d \in Nat \ {0} /\ a = Frac(a.n, a.d) /\ a \in Rational
  BY RationalIsFrac DEF Ratios
<1>2. /\ UnitInterval(a) <=> 0 <= a.n /\ a.n <= a.d
      /\ Below(Whole(1), a) <=> a.d < a.n
  <2>1. /\ UnitInterval(Frac(a.n, a.d)) <=> 0 <= a.n /\ a.n <= a.d
        /\ Below(Whole(1), Frac(a.n, a.d)) <=> a.d < a.n
    BY <1>1, UnitFrac
  <2> QED
    BY <1>1, <2>1
<1>3. UnitInterval(Whole(1)) /\ Whole(1) \in Rational
  <2>1. UnitInterval(Frac(1, 1))
    BY UnitFrac
  <2> QED
    BY <2>1, SmallFractions
<1> QED
  BY <1>1, <1>2, <1>3 DEF Capped

\* What is in the unit interval is not negative.
LEMMA UnitRatio ==
    ASSUME NEW a \in Rational, UnitInterval(a)
    PROVE  a \in Ratios
BY RatioIs DEF UnitInterval

\* Finitely many naturals have a greatest and a least.
LEMMA FiniteExtremes ==
    ASSUME NEW S \in SUBSET Nat, IsFiniteSet(S), S # {}
    PROVE  /\ \E x \in S : \A y \in S : y <= x
           /\ \E x \in S : \A y \in S : x <= y
<1> DEFINE Topped(s) == \E x \in s : \A y \in s : y <= x
           T == {s \in SUBSET S : s # {} /\ ~Topped(s)}
<1>1. ASSUME T # {} PROVE FALSE
  <2>1. T \in SUBSET SUBSET S
    OBVIOUS
  <2>2. PICK s \in T : \A t \in SUBSET s : t # s => t \notin T
    <3> HIDE DEF T
    <3> QED
      BY <1>1, <2>1, MinimalSubset
  <2>3. s \in SUBSET S /\ s # {} /\ ~Topped(s)
    OBVIOUS
  <2>4. PICK a \in s : TRUE
    BY <2>3
  <2> DEFINE r == s \ {a}
  <2>5. r \in SUBSET S /\ r \in SUBSET s /\ r # s /\ r \notin T
    BY <2>2, <2>3, <2>4
  <2>6. CASE r = {}
    <3>1. \A y \in s : y <= a
      BY <2>3, <2>4, <2>6
    <3> QED
      BY <2>3, <2>4, <3>1
  <2>7. CASE r # {}
    <3>1. Topped(r)
      BY <2>5, <2>7
    <3>2. PICK x \in r : \A y \in r : y <= x
      BY <3>1
    <3>3. x \in Nat /\ a \in Nat /\ x \in s /\ \A y \in s : y \in Nat /\ (y = a \/ y \in r)
      BY <2>3, <2>4, <3>2
    <3>4. CASE a <= x
      <4>1. \A y \in s : y <= x
        BY <3>2, <3>3, <3>4
      <4> QED
        BY <2>3, <3>3, <4>1
    <3>5. CASE ~(a <= x)
      <4>1. \A y \in s : y <= a
        <5> SUFFICES ASSUME NEW y \in s PROVE y <= a
          OBVIOUS
        <5>1. CASE y = a
          BY <3>3, <5>1
        <5>2. CASE y \in r
          <6>1. y <= x /\ y \in Nat
            BY <3>2, <3>3, <5>2
          <6> QED
            BY <3>3, <3>5, <6>1
        <5> QED
          BY <3>3, <5>1, <5>2
      <4> QED
        BY <2>3, <2>4, <4>1
    <3> QED
      BY <3>4, <3>5
  <2> QED
    BY <2>6, <2>7
<1>2. S \notin T
  BY <1>1
<1> QED
  BY <1>2, LeastNatural

\* What a strategy says of a regime r, unless it says nothing.
Offered(c, s, r) ==
    /\ c.strategyId = s /\ c.regime = r.label
    /\ c.signalStrength \in Rational /\ UnitInterval(c.signalStrength)
    /\ c.expectedEdge \in Ratios

\* The factors of the strategies and the costs are positive.
LEMMA ConstantsArePositive ==
    /\ AtrMultiplier \in Positives /\ RewardRisk \in Positives /\ NumStd \in Positives
    /\ EstimatedCosts \in Positives
<1>1. \A a \in {AtrMultiplier, RewardRisk, NumStd, EstimatedCosts} :
          IsFraction(a) /\ Positive(a)
  BY StrategiesAssumption
<1>2. /\ IsFraction(AtrMultiplier) /\ Positive(AtrMultiplier)
      /\ IsFraction(RewardRisk) /\ Positive(RewardRisk)
      /\ IsFraction(NumStd) /\ Positive(NumStd)
      /\ IsFraction(EstimatedCosts) /\ Positive(EstimatedCosts)
  BY <1>1, Zenon
<1> QED
  BY <1>2, FractionsAre, PositiveFractions

\* The three strategies and the regimes they trade in.
LEMMA StrategiesAre ==
    /\ Strategy = {TrendFollowing, MeanReversion, Breakout}
    /\ TrendFollowing \in Strategy /\ MeanReversion \in Strategy /\ Breakout \in Strategy
    /\ allowed_regimes[TrendFollowing] = {"BULLISH_TREND", "BEARISH_TREND"}
    /\ allowed_regimes[MeanReversion] = {"SIDEWAYS", "LOW_VOLATILITY"}
    /\ allowed_regimes[Breakout] = {"HIGH_VOLATILITY", "BULLISH_TREND", "BEARISH_TREND"}
<1>1. Strategy = {TrendFollowing, MeanReversion, Breakout}
  <2>1. DOMAIN StrategyIds = {1, 2, 3}
    BY DEF StrategyIds
  <2>2. /\ StrategyIds[1] = TrendFollowing /\ StrategyIds[2] = MeanReversion
        /\ StrategyIds[3] = Breakout
    BY DEF StrategyIds
  <2>3. Strategy = {StrategyIds[i] : i \in DOMAIN StrategyIds}
    BY DEF Strategy, ToSet
  <2> QED
    BY <2>1, <2>2, <2>3
<1>2. ToSet(StrategyIds) = {TrendFollowing, MeanReversion, Breakout}
  BY <1>1 DEF Strategy
<1> QED
  BY <1>1, <1>2 DEF allowed_regimes, TrendFollowing, MeanReversion, Breakout

\* The entry is the last close.
LEMMA EntryType ==
    ASSUME NEW b \in Seq(ClosedBars), b # << >>
    PROVE  Entry(b) \in Positives
<1>1. Len(b) \in DOMAIN b /\ Last(b) = b[Len(b)]
  BY DEF Last
<1>2. Whole(b[Len(b)].close) \in Positives
  BY <1>1, ClosesAre
<1> QED
  BY <1>1, <1>2 DEF Entry

\* Each strategy returns no candidate, or one of its own for the regime with a
\* strength in [0, 1]: trend following divides by the slow average,
LEMMA TrendIsOffered ==
    ASSUME NEW b \in Seq(ClosedBars), Len(b) >= MinBars, NEW r, RegimeSound(r)
    PROVE  \/ GenerateTrendFollowing(b, r) = NoCandidate
           \/ Offered(GenerateTrendFollowing(b, r), TrendFollowing, r)
<1> DEFINE fast == Sma(Closes(b), FastWindow)
           slow == Sma(Closes(b), SlowWindow)
           edge == Over(Absolute(Minus(fast, slow)), slow)
<1>1. SlowWindow <= Len(b) /\ FastWindow <= Len(b)
  BY WindowsAre
<1>2. fast \in Positives /\ slow \in Positives
  BY <1>1, WindowsAre, SmaType
<1>3. edge \in Ratios
  BY <1>2, PlusTypes, AbsTypes, OverTypes, SmallFractions
<1>4. \/ GenerateTrendFollowing(b, r) = NoCandidate
      \/ /\ GenerateTrendFollowing(b, r).strategyId = TrendFollowing
         /\ GenerateTrendFollowing(b, r).regime = r.label
         /\ GenerateTrendFollowing(b, r).signalStrength = r.confidence
         /\ GenerateTrendFollowing(b, r).expectedEdge = edge
  BY DEF GenerateTrendFollowing
<1> HIDE DEF edge
<1> QED
  BY <1>3, <1>4 DEF Offered, RegimeSound

\* mean reversion by the width of its band,
LEMMA ReversionIsOffered ==
    ASSUME NEW b \in Seq(ClosedBars), Len(b) >= MinBars, BandWindow <= MinBars, NEW r
    PROVE  \/ GenerateMeanReversion(b, r) = NoCandidate
           \/ Offered(GenerateMeanReversion(b, r), MeanReversion, r)
<1> DEFINE window    == Newest(Closes(b), BandWindow)
           middle    == Mean(window)
           deviation == Root(Share(SquaredDeviations(window), BandWindow), Steps)
           distance  == Product(NumStd, deviation)
           width     == Times(2, distance)
           direction == CASE Below(Entry(b), Minus(middle, distance)) -> "LONG"
                          [] Below(Plus(middle, distance), Entry(b))  -> "SHORT"
                          [] OTHER -> "NONE"
           band      == Behind(middle, direction, distance)
           strength  == IF Positive(width)
                        THEN Capped(Over(Absolute(Minus(Entry(b), band)), width)) ELSE Whole(0)
           edge      == Over(Absolute(Minus(middle, Entry(b))), Entry(b))
<1>1. BandWindow \in Nat \ {0} /\ BandWindow <= Len(b) /\ b # << >> /\ Steps \in Nat \ {0}
  BY WindowsAre, StrategiesAssumption, RegimeAssumption
<1>2. window \in Seq(Positives) /\ window # << >> /\ window \in Seq(Rational)
  <2>1. window \in Seq(Positives) /\ Len(window) = BandWindow
    BY <1>1, ClosesAre, NewestIs
  <2> QED
    BY <1>1, <2>1, PositivesAreRational
<1> HIDE DEF window
<1>3. middle \in Rational
  BY <1>2, MeanTypes
<1>4. deviation \in Ratios
  <2>1. SquaredDeviations(window) \in Ratios
    BY <1>2, DeviationsType
  <2>2. Share(SquaredDeviations(window), BandWindow) \in Ratios
    BY <1>1, <2>1, ShareTypes, SmallFractions
  <2> QED
    BY <1>1, <2>2, RootTypes
<1> HIDE DEF deviation, middle
<1>5. distance \in Rational
  BY <1>4, ConstantsArePositive, ProductTypes, SmallFractions
<1> HIDE DEF distance
<1>6. width \in Rational
  <2> DEFINE two == 2
  <2>1. two \in Int
    OBVIOUS
  <2> HIDE DEF two
  <2>2. Times(two, distance) \in Rational
    BY <1>5, <2>1, TimesTypes
  <2> QED
    BY <2>2 DEF two
<1>7. band \in Rational
  BY <1>3, <1>5, PlusTypes DEF Behind
<1>8. Entry(b) \in Positives /\ Entry(b) \in Rational
  BY <1>1, EntryType, SmallFractions
<1> DEFINE made == [strategyId |-> MeanReversion, regime |-> r.label, direction |-> direction,
                    entry  |-> Entry(b),
                    stop   |-> StopBeyondBand(band, direction, width),
                    target |-> middle,
                    signalStrength |-> strength, expectedEdge |-> edge]
<1>9. GenerateMeanReversion(b, r) = IF direction = "NONE" THEN NoCandidate ELSE made
  BY Zenon DEF GenerateMeanReversion, window, middle, deviation, distance
<1> HIDE DEF band, width, direction
<1>10. strength \in Rational /\ UnitInterval(strength)
  <2>1. CASE Positive(width)
    <3>1. width \in Positives
      BY <1>6, <2>1, PositiveFractions
    <3>2. Over(Absolute(Minus(Entry(b), band)), width) \in Ratios
      BY <1>7, <1>8, <3>1, PlusTypes, AbsTypes, OverTypes, SmallFractions
    <3> QED
      BY <2>1, <3>2, CappedIs
  <2>2. CASE ~Positive(width)
    <3>1. UnitInterval(Frac(0, 1)) /\ Frac(0, 1) \in Rational
      BY UnitFrac
    <3>2. Whole(0) = Frac(0 * 1, 1)
      BY WholeIs
    <3> QED
      BY <2>2, <3>1, <3>2
  <2> QED
    BY <2>1, <2>2
<1>11. edge \in Ratios
  BY <1>3, <1>8, PlusTypes, AbsTypes, OverTypes, SmallFractions
<1> HIDE DEF strength, edge
<1>12. Offered(made, MeanReversion, r)
  BY <1>10, <1>11 DEF Offered
<1> HIDE DEF made
<1> QED
  BY <1>9, <1>12

\* A sequence that is not empty has finitely many entries, and one at least.
LEMMA EntriesAreFinite ==
    ASSUME NEW S, NEW s \in Seq(S), s # << >>
    PROVE  /\ ToSet(s) \in SUBSET S /\ ToSet(s) # {} /\ IsFiniteSet(ToSet(s))
<1>1. DOMAIN s = 1..Len(s) /\ Len(s) \in Nat \ {0} /\ s \in [DOMAIN s -> S] /\ 1 \in DOMAIN s
  OBVIOUS
<1>2. ToSet(s) = {s[i] : i \in DOMAIN s}
  BY DEF ToSet
<1>3. s \in Surjection(DOMAIN s, ToSet(s))
  BY <1>1, <1>2 DEF Surjection
<1>4. IsFiniteSet(DOMAIN s)
  BY <1>1, FS_Interval
<1>5. IsFiniteSet(ToSet(s))
  BY <1>3, <1>4, FS_Surjection
<1> QED
  BY <1>1, <1>2, <1>5

\* The upper end of a channel is not below the lower.
LEMMA ChannelIs ==
    ASSUME NEW b \in Seq(ClosedBars), ChannelWindow + 1 <= Len(b)
    PROVE  /\ Channel(b).upper \in Rational /\ Channel(b).lower \in Rational
           /\ Minus(Channel(b).upper, Channel(b).lower) \in Ratios
<1> DEFINE window == Newest(Front(b), ChannelWindow)
           near   == ToSet(window)
           highs  == {x.high : x \in near}
           lows   == {x.low : x \in near}
           h == CHOOSE y \in highs : \A x \in near : x.high <= y
           l == CHOOSE y \in lows : \A x \in near : x.low >= y
<1>1. Channel(b) = [upper |-> Whole(h), lower |-> Whole(l)]
  BY Zenon DEF Channel
<1>2. ChannelWindow \in Nat \ {0}
  BY StrategiesAssumption
<1>3. Front(b) \in Seq(ClosedBars) /\ Len(Front(b)) = Len(b) - 1
  <2> DEFINE n == Len(b) - 1
  <2>1. n \in Nat /\ n <= Len(b) /\ Front(b) = SubSeq(b, 1, n)
    BY <1>2 DEF Front
  <2>2. SubSeq(b, 1, n) \in Seq(ClosedBars) /\ Len(SubSeq(b, 1, n)) = n
    <3> HIDE DEF n
    <3> QED
      BY <2>1
  <2> QED
    BY <2>1, <2>2
<1>4. window \in Seq(ClosedBars) /\ window # << >>
  <2>1. ChannelWindow <= Len(Front(b))
    BY <1>2, <1>3
  <2>2. window \in Seq(ClosedBars) /\ Len(window) = ChannelWindow
    BY <1>2, <1>3, <2>1, NewestIs
  <2> QED
    BY <1>2, <2>2
<1> HIDE DEF window
<1>5. near \in SUBSET ClosedBars /\ near # {} /\ IsFiniteSet(near)
  BY <1>4, EntriesAreFinite
<1> HIDE DEF near
<1>6. \A x \in near : x.high \in Nat /\ x.low \in Nat /\ x.low <= x.high
  <2> SUFFICES ASSUME NEW x \in near PROVE x.high \in Nat /\ x.low \in Nat /\ x.low <= x.high
    OBVIOUS
  <2>1. /\ x.close \in Nat /\ x.high \in Nat /\ x.low \in Nat
        /\ x.low <= x.close /\ x.close <= x.high
    BY <1>5, BarIs
  <2> QED
    BY <2>1
<1>7. highs \in SUBSET Nat /\ highs # {} /\ IsFiniteSet(highs)
  <2>1. highs \in SUBSET Nat /\ highs # {}
    BY <1>5, <1>6
  <2> DEFINE f == [x \in near |-> x.high]
  <2>2. f \in Surjection(near, highs)
    BY DEF Surjection
  <2> HIDE DEF f, highs
  <2> QED
    BY <1>5, <2>1, <2>2, FS_Surjection
<1>8. lows \in SUBSET Nat /\ lows # {} /\ IsFiniteSet(lows)
  <2>1. lows \in SUBSET Nat /\ lows # {}
    BY <1>5, <1>6
  <2> DEFINE f == [x \in near |-> x.low]
  <2>2. f \in Surjection(near, lows)
    BY DEF Surjection
  <2> HIDE DEF f, lows
  <2> QED
    BY <1>5, <2>1, <2>2, FS_Surjection
<1>9. h \in highs /\ \A x \in near : x.high <= h
  <2>1. PICK y \in highs : \A z \in highs : z <= y
    <3> HIDE DEF highs
    <3> QED
      BY <1>7, FiniteExtremes
  <2>2. \A x \in near : x.high <= y
    BY <2>1
  <2> HIDE DEF highs
  <2> QED
    BY <2>1, <2>2
<1>10. l \in lows /\ \A x \in near : x.low >= l
  <2>1. PICK y \in lows : \A z \in lows : y <= z
    <3> HIDE DEF lows
    <3> QED
      BY <1>8, FiniteExtremes
  <2>2. \A x \in near : x.low >= y
    <3> SUFFICES ASSUME NEW x \in near PROVE x.low >= y
      OBVIOUS
    <3>1. y <= x.low /\ y \in Nat /\ x.low \in Nat
      BY <1>6, <1>8, <2>1
    <3> QED
      BY <3>1
  <2> HIDE DEF lows
  <2> QED
    BY <2>1, <2>2
<1>11. h \in Nat /\ l \in Nat
  BY <1>7, <1>8, <1>9, <1>10
<1> HIDE DEF h, l, highs, lows
<1>12. l <= h
  <2>1. PICK x \in near : TRUE
    BY <1>5
  <2>2. l <= x.low /\ x.low <= x.high /\ x.high <= h /\ x.low \in Nat /\ x.high \in Nat
    BY <1>6, <1>9, <1>10, <1>11, <2>1
  <2> QED
    BY <1>11, <2>2
<1> DEFINE one == 1
<1>13. one \in Nat \ {0} /\ h * one = h /\ l * one = l /\ h \in Int /\ l \in Int
  BY <1>11
<1> HIDE DEF one
<1>14. Whole(h) = Frac(h, one) /\ Whole(l) = Frac(l, one)
  <2>1. Whole(h) = Frac(h * one, one) /\ Whole(l) = Frac(l * one, one)
    BY <1>13, WholeIs
  <2> QED
    BY <1>13, <2>1
<1>15. Minus(Frac(h, one), Frac(l, one)) = Frac(h - l, one)
  BY <1>13, DifferenceOverOne
<1>16. Frac(h - l, one) \in Ratios
  BY <1>11, <1>12, <1>13, RatioFrac
<1>17. Whole(h) \in Rational /\ Whole(l) \in Rational
  BY <1>13, WholeIs
<1> QED
  BY <1>1, <1>14, <1>15, <1>16, <1>17

\* and the breakout by the width of its channel, each only when it is positive.
LEMMA BreakoutIsOffered ==
    ASSUME NEW b \in Seq(ClosedBars), Len(b) >= MinBars, ChannelWindow + 1 <= MinBars, NEW r
    PROVE  \/ GenerateBreakout(b, r) = NoCandidate
           \/ Offered(GenerateBreakout(b, r), Breakout, r)
<1> DEFINE channel   == Channel(b)
           middle    == Share(Plus(channel.upper, channel.lower), 2)
           width     == Minus(channel.upper, channel.lower)
           direction == CASE Below(channel.upper, Entry(b)) -> "LONG"
                          [] Below(Entry(b), channel.lower) -> "SHORT"
                          [] OTHER -> "NONE"
           strength  == IF Positive(width)
                        THEN Capped(Over(Absolute(Minus(Entry(b), middle)), width)) ELSE Whole(0)
           edge      == Over(width, Entry(b))
           made == [strategyId |-> Breakout, regime |-> r.label, direction |-> direction,
                    entry  |-> Entry(b), stop |-> middle,
                    target |-> Ahead(Entry(b), direction, width),
                    signalStrength |-> strength, expectedEdge |-> edge]
<1>1. GenerateBreakout(b, r) = IF direction = "NONE" THEN NoCandidate ELSE made
  BY Zenon DEF GenerateBreakout
<1>2. ChannelWindow + 1 <= Len(b) /\ b # << >>
  BY WindowsAre, StrategiesAssumption
<1>3. channel.upper \in Rational /\ channel.lower \in Rational /\ width \in Ratios
  BY <1>2, ChannelIs
<1> HIDE DEF direction, channel
<1>4. middle \in Rational
  <2> DEFINE two == 2
  <2>1. two \in Nat \ {0}
    OBVIOUS
  <2> HIDE DEF two
  <2>2. Share(Plus(channel.upper, channel.lower), two) \in Rational
    BY <1>3, <2>1, PlusTypes, ShareTypes
  <2> QED
    BY <2>2 DEF two
<1>5. Entry(b) \in Positives /\ Entry(b) \in Rational /\ width \in Rational
  BY <1>2, <1>3, EntryType, SmallFractions
<1> HIDE DEF middle, width
<1>6. strength \in Rational /\ UnitInterval(strength)
  <2>1. CASE Positive(width)
    <3>1. width \in Positives
      BY <1>5, <2>1, PositiveFractions
    <3>2. Over(Absolute(Minus(Entry(b), middle)), width) \in Ratios
      BY <1>4, <1>5, <3>1, PlusTypes, AbsTypes, OverTypes, SmallFractions
    <3> QED
      BY <2>1, <3>2, CappedIs
  <2>2. CASE ~Positive(width)
    <3>1. UnitInterval(Frac(0, 1)) /\ Frac(0, 1) \in Rational
      BY UnitFrac
    <3>2. Whole(0) = Frac(0 * 1, 1)
      BY WholeIs
    <3> QED
      BY <2>2, <3>1, <3>2
  <2> QED
    BY <2>1, <2>2
<1>7. edge \in Ratios
  BY <1>3, <1>5, OverTypes
<1> HIDE DEF strength, edge
<1>8. Offered(made, Breakout, r)
  BY <1>6, <1>7 DEF Offered
<1> HIDE DEF made
<1> QED
  BY <1>1, <1>8

-----------------------------------------------------------------------------
(* Where stop and target lie                                               *)

\* Stop and target lie on their sides of the entry, as the auditor tests it.
Aligned(c) ==
    IF c.direction = "LONG"
    THEN Below(c.stop, c.entry) /\ Below(c.entry, c.target)
    ELSE Below(c.target, c.entry) /\ Below(c.entry, c.stop)

\* They do, unless the price overshot the band or the channel has no width.
Placed(c) ==
    ~Aligned(c) <=>
        \/ c.strategyId = MeanReversion /\ AtMost(Half, c.signalStrength)
        \/ c.strategyId = Breakout /\ c.target = c.entry

\* The true range is smoothed, and a root is rounded finely enough not to lose
\* the least deviation that BandWindow prices can have.
Resolved ==
    /\ AtrWindow # 1
    /\ BandWindow * BandWindow * BandWindow <= 4 * Steps * Steps

\* A mean of entries that are not negative is positive as soon as one is, and
\* the mean of a constant is that constant.
LEMMA MeanIs ==
    ASSUME NEW s \in Seq(Ratios), s # << >>
    PROVE  /\ Mean(s) \in Ratios
           /\ \A i \in DOMAIN s : s[i] \in Positives => Mean(s) \in Positives
           /\ \A q \in Ratios : (\A i \in DOMAIN s : s[i] = q) => Mean(s) = q
<1> DEFINE S == 1..Len(s)
           size == Len(s)
<1>1. size \in Nat \ {0} /\ s \in [S -> Ratios] /\ DOMAIN s = S
  OBVIOUS
<1>2. IsFiniteSet(S) /\ Cardinality(S) = size
  BY <1>1, FS_Interval
<1>3. s \in [S -> Rational]
  BY <1>1 DEF Ratios
<1>4. Mean(s) = Share(Total(s), size)
  BY DEF Mean
<1> HIDE DEF S, size
<1>5. Total(s) \in Ratios /\ \A i \in S : s[i] \in Positives => Total(s) \in Positives
  BY <1>1, <1>2, TotalSign
<1>6. /\ Share(Total(s), size) \in Ratios
      /\ Total(s) \in Positives => Share(Total(s), size) \in Positives
  BY <1>1, <1>5, ShareTypes DEF Ratios
<1>7. ASSUME NEW q \in Ratios, \A i \in S : s[i] = q
      PROVE  Share(Total(s), size) = q
  <2>1. q \in Rational /\ q.n \in Int /\ q.d \in Nat \ {0} /\ q = Frac(q.n, q.d)
    BY RationalIsFrac DEF Ratios
  <2>2. Total(s) = Frac(size * q.n, q.d)
    BY <1>2, <1>3, <1>7, <2>1, TotalConstant
  <2> DEFINE x == q.n
             d == q.d
             y == size * x
  <2>3. x \in Int /\ d \in Nat \ {0} /\ y = x * size /\ y \in Int
    BY <1>1, <2>1
  <2> HIDE DEF x, d, y
  <2>4. Share(Frac(y, d), size) = Frac(y, d * size)
    BY <1>1, <2>3, ShareOverOne
  <2>5. Frac(x * size, d * size) = Frac(x, d)
    BY <1>1, <2>3, FracScale
  <2> QED
    BY <2>1, <2>2, <2>3, <2>4, <2>5 DEF x, d, y
<1> QED
  BY <1>1, <1>4, <1>5, <1>6, <1>7

\* The larger of two.
LEMMA UpperIs ==
    ASSUME NEW a \in Ratios, NEW b \in Ratios
    PROVE  /\ Upper(a, b) \in Ratios
           /\ a \in Positives \/ b \in Positives => Upper(a, b) \in Positives
<1>1. a \in Rational /\ b \in Rational
  BY DEF Ratios
<1>2. CASE Below(a, b)
  BY <1>1, <1>2, BelowPositive DEF Upper
<1>3. CASE ~Below(a, b)
  <2>1. AtMost(b, a) /\ a.n \in Nat /\ b.n \in Nat /\ a.d \in Nat \ {0} /\ b.d \in Nat \ {0}
    BY <1>1, <1>3, OrderIsTotal, RationalIsFrac DEF Ratios
  <2>2. b.n > 0 => a.n > 0
    <3> SUFFICES ASSUME b.n > 0, a.n = 0 PROVE FALSE
      BY <2>1
    <3>1. b.n * a.d > 0 /\ a.n * b.d = 0
      BY <2>1
    <3> QED
      BY <2>1, <3>1 DEF AtMost
  <2> QED
    BY <1>1, <1>3, <2>2 DEF Upper, Positives
<1> QED
  BY <1>2, <1>3

\* The distance of two prices.
LEMMA DistanceIs ==
    ASSUME NEW x \in Nat, NEW y \in Nat
    PROVE  /\ Absolute(Minus(Whole(x), Whole(y))) \in Ratios
           /\ x # y => Absolute(Minus(Whole(x), Whole(y))) \in Positives
           /\ y <= x => Minus(Whole(x), Whole(y)) \in Ratios
<1> DEFINE one == 1
           z == x - y
<1>1. one \in Nat \ {0} /\ x * one = x /\ y * one = y /\ x \in Int /\ y \in Int /\ z \in Int
  OBVIOUS
<1> HIDE DEF one
<1>2. Whole(x) = Frac(x * one, one) /\ Whole(y) = Frac(y * one, one)
  BY <1>1, WholeIs
<1>3. Minus(Whole(x), Whole(y)) = Frac(z, one)
  <2>1. Minus(Frac(x, one), Frac(y, one)) = Frac(x - y, one)
    BY <1>1, DifferenceOverOne
  <2> QED
    BY <1>1, <1>2, <2>1
<1>4. (x # y => z # 0) /\ (y <= x => z >= 0)
  OBVIOUS
<1> HIDE DEF z
<1>5. Absolute(Frac(z, one)) = Frac(Magnitude(z), one) /\ Magnitude(z) \in Nat
  BY <1>1, AbsOverOne
<1>6. z # 0 => Magnitude(z) > 0
  BY <1>1 DEF Magnitude
<1> QED
  BY <1>1, <1>3, <1>4, <1>5, <1>6, RatioFrac

\* A true range is not negative, and positive when the close moved.
LEMMA TrueRangeIs ==
    ASSUME NEW b \in Seq(ClosedBars), NEW i \in 2..Len(b)
    PROVE  /\ TrueRange(b, i) \in Ratios
           /\ b[i].close # b[i - 1].close => TrueRange(b, i) \in Positives
<1>1. b[i] \in ClosedBars /\ b[i - 1] \in ClosedBars
  OBVIOUS
<1> DEFINE h == b[i].high
           l == b[i].low
           p == b[i - 1].close
           c == b[i].close
<1>2. h \in Nat /\ l \in Nat /\ p \in Nat /\ c \in Nat /\ l <= c /\ c <= h
  BY <1>1, BarIs
<1>3. TrueRange(b, i) = Upper(Minus(Whole(h), Whole(l)),
                              Upper(Absolute(Minus(Whole(h), Whole(p))),
                                    Absolute(Minus(Whole(l), Whole(p)))))
  BY DEF TrueRange
<1> HIDE DEF h, l, p, c
<1>4. l <= h /\ (c # p => h # p \/ l # p)
  BY <1>2
<1>5. /\ Minus(Whole(h), Whole(l)) \in Ratios
      /\ Absolute(Minus(Whole(h), Whole(p))) \in Ratios
      /\ Absolute(Minus(Whole(l), Whole(p))) \in Ratios
  BY <1>2, <1>4, DistanceIs
<1>6. c # p => \/ Absolute(Minus(Whole(h), Whole(p))) \in Positives
               \/ Absolute(Minus(Whole(l), Whole(p))) \in Positives
  BY <1>2, <1>4, DistanceIs
<1> QED
  BY <1>3, <1>5, <1>6, UpperIs DEF c, p

\* Two averages that differ mean that a close moved.
LEMMA AveragesDiffer ==
    ASSUME NEW b \in Seq(ClosedBars), NEW f \in 1..Len(b), NEW g \in 1..Len(b),
           Sma(Closes(b), f) # Sma(Closes(b), g)
    PROVE  \E i \in 2..Len(b) : b[i].close # b[i - 1].close
<1> SUFFICES ASSUME \A i \in 2..Len(b) : b[i].close = b[i - 1].close PROVE FALSE
  OBVIOUS
<1> DEFINE c == b[1].close
           Bad == {i \in 1..Len(b) : b[i].close # c}
<1>1. Bad = {}
  <2> SUFFICES ASSUME Bad # {} PROVE FALSE
    OBVIOUS
  <2>1. PICK i \in Bad : \A j \in Bad : i <= j
    <3>1. Bad \in SUBSET Nat /\ Bad # {}
      OBVIOUS
    <3> HIDE DEF Bad
    <3> QED
      BY <3>1, LeastNatural
  <2>2. i \in 2..Len(b) /\ i - 1 \in 1..Len(b) /\ i - 1 \notin Bad
    BY <2>1
  <2> QED
    BY <2>1, <2>2
<1> DEFINE q == Whole(c)
<1>2. Closes(b) \in Seq(Positives) /\ Len(Closes(b)) = Len(b) /\ Len(b) \in Nat
  BY ClosesAre
<1>3. \A i \in 1..Len(b) : Closes(b)[i] = q
  <2> SUFFICES ASSUME NEW i \in 1..Len(b) PROVE Closes(b)[i] = q
    OBVIOUS
  <2>1. b[i].close = c
    BY <1>1
  <2>2. i \in DOMAIN b
    OBVIOUS
  <2>3. Closes(b)[i] = Whole(b[i].close)
    BY <2>2, ClosesAre
  <2> QED
    BY <2>1, <2>3
<1>4. q \in Positives
  BY <1>2, <1>3
<1> HIDE DEF q
<1>5. ASSUME NEW k \in 1..Len(b)
      PROVE  Sma(Closes(b), k) = q
  <2> DEFINE s == Newest(Closes(b), k)
  <2>1. k \in Nat \ {0} /\ k <= Len(Closes(b))
    BY <1>2
  <2>2. s \in Seq(Positives) /\ Len(s) = k
    BY <1>2, <2>1, NewestIs
  <2>3. \A i \in 1..k : s[i] = Closes(b)[Len(Closes(b)) - k + i]
    BY <1>2, <2>1, NewestAt
  <2>4. \A i \in 1..k : Len(Closes(b)) - k + i \in 1..Len(b)
    BY <1>2
  <2> HIDE DEF s
  <2>5. /\ s \in Seq(Ratios) /\ s # << >> /\ DOMAIN s = 1..k
        /\ \A i \in DOMAIN s : s[i] = q
    <3>1. s \in Seq(Ratios)
      BY <2>2, PositivesAreRational
    <3>2. s # << >> /\ DOMAIN s = 1..k
      BY <2>1, <2>2
    <3>3. \A i \in 1..k : s[i] = q
      BY <1>3, <2>3, <2>4
    <3> QED
      BY <3>1, <3>2, <3>3
  <2>6. Mean(s) = q
    BY <1>4, <2>5, MeanIs, SmallFractions
  <2> QED
    BY <2>6 DEF s, Sma
<1> QED
  BY <1>5

\* Wilder's smoothing of a sequence over w entries, as atr() computes it.
Smoothed(g, v, w, n) ==
    IF n = w THEN Mean(SubSeq(v, 1, w)) ELSE Share(Plus(Times(w - 1, g[n - 1]), v[n]), w)
Smooths(g, v, w) == g = [n \in w..Len(v) |-> Smoothed(g, v, w, n)]

\* The recursion has a solution.
LEMMA SmoothingExists ==
    ASSUME NEW v \in Seq(Ratios), NEW w \in Nat \ {0, 1}, w <= Len(v)
    PROVE  \E g \in [w..Len(v) -> Ratios] : Smooths(g, v, w)
<1> DEFINE L == Len(v)
           D == w..L
           first == Mean(SubSeq(v, 1, w))
           Next(r, n) == Share(Plus(Times(w - 1, r), v[n]), w)
           measure == [n \in D |-> n - w]
           next == [n \in D |-> IF n = w THEN w ELSE n - 1]
           base == [n \in D |-> first]
           combine == [n \in D |-> [r \in Ratios |-> Next(r, n)]]
<1>1. L \in Nat /\ D \subseteq 1..L /\ \A n \in 1..L : v[n] \in Ratios
  OBVIOUS
<1>2. first \in Ratios
  <2> DEFINE s == SubSeq(v, 1, w)
  <2>1. s \in Seq(Ratios) /\ Len(s) = w
    OBVIOUS
  <2>2. s # << >>
    BY <2>1
  <2> HIDE DEF s
  <2>3. Mean(s) \in Ratios
    BY <2>1, <2>2, MeanIs
  <2> QED
    BY <2>3 DEF s
<1>3. ASSUME NEW r \in Ratios, NEW n \in D
      PROVE  Next(r, n) \in Ratios
  <2> DEFINE k == w - 1
  <2>1. k \in Int /\ k >= 0 /\ v[n] \in Ratios /\ w \in Nat \ {0}
    BY <1>1
  <2> HIDE DEF k, D
  <2>2. Times(k, r) \in Ratios
    BY <2>1, TimesTypes, SmallFractions
  <2>3. Plus(Times(k, r), v[n]) \in Ratios
    BY <2>1, <2>2, PlusTypes, SmallFractions
  <2>4. Share(Plus(Times(k, r), v[n]), w) \in Ratios
    BY <2>1, <2>3, ShareTypes, SmallFractions
  <2> QED
    BY <2>4 DEF k
<1> HIDE DEF first, Next
<1>4. /\ measure \in [D -> Nat] /\ next \in [D -> D] /\ base \in [D -> Ratios]
      /\ combine \in [D -> [Ratios -> Ratios]]
  <2>1. measure \in [D -> Nat] /\ next \in [D -> D]
    BY <1>1
  <2>2. base \in [D -> Ratios]
    BY <1>2
  <2>3. combine \in [D -> [Ratios -> Ratios]]
    BY <1>3
  <2> QED
    BY <2>1, <2>2, <2>3
<1>5. \A n \in D : /\ (measure[n] = 0 <=> n = w) /\ base[n] = first
                   /\ n # w => next[n] = n - 1 /\ n - 1 \in D /\ measure[n - 1] < measure[n]
  BY <1>1
<1>6. \A n \in D, r \in Ratios : combine[n][r] = Next(r, n)
  OBVIOUS
<1> HIDE DEF measure, next, base, combine, D
<1>7. Decreases(D, measure, next)
  BY <1>5 DEF Decreases
<1>8. PICK g \in [D -> Ratios] : Recurses(g, D, measure, next, base, combine)
  BY <1>4, <1>7, RecursionExists
<1>9. ASSUME NEW n \in D
      PROVE  g[n] = Smoothed(g, v, w, n)
  <2>1. g[n] = IF measure[n] = 0 THEN base[n] ELSE combine[n][g[next[n]]]
    BY <1>8 DEF Recurses
  <2>2. CASE n = w
    BY <1>5, <2>1, <2>2 DEF Smoothed, first
  <2>3. CASE n # w
    <3>1. n - 1 \in D /\ g[n - 1] \in Ratios
      BY <1>5, <1>8, <2>3
    <3>2. g[n] = Next(g[n - 1], n)
      BY <1>5, <1>6, <2>1, <2>3, <3>1
    <3> QED
      BY <2>3, <3>2 DEF Smoothed, Next
  <2> QED
    BY <2>2, <2>3
<1>10. g = [n \in D |-> Smoothed(g, v, w, n)]
  BY <1>8, <1>9
<1> QED
  BY <1>8, <1>10 DEF Smooths, D, L

\* What was positive once stays so, as an average keeps all of the past.
LEMMA SmoothingIsPositive ==
    ASSUME NEW v \in Seq(Ratios), NEW w \in Nat \ {0, 1}, w <= Len(v),
           NEW g, Smooths(g, v, w),
           NEW i \in 1..Len(v), v[i] \in Positives
    PROVE  g[Len(v)] \in Positives
<1> DEFINE L == Len(v)
           D == w..L
           Good(n) == g[n] \in Ratios /\ (i <= n => g[n] \in Positives)
           Bad == {n \in D : ~Good(n)}
<1>1. L \in Nat /\ L \in D /\ D \subseteq Nat /\ \A n \in D : v[n] \in Ratios
  OBVIOUS
<1> SUFFICES ASSUME Bad # {} PROVE FALSE
  BY <1>1
<1>2. PICK n \in Bad : \A k \in Bad : n <= k
  <2>1. Bad \in SUBSET Nat
    BY <1>1
  <2> HIDE DEF Bad
  <2> QED
    BY <2>1, LeastNatural
<1>3. n \in D /\ ~Good(n) /\ g[n] = Smoothed(g, v, w, n)
  BY <1>2 DEF Smooths
<1>4. CASE n = w
  <2> DEFINE s == SubSeq(v, 1, w)
  <2>1. s \in Seq(Ratios) /\ Len(s) = w /\ DOMAIN s = 1..w /\ s # << >>
    OBVIOUS
  <2>2. i <= n => i \in 1..w /\ s[i] = v[i]
    BY <1>4
  <2>3. g[n] = Mean(s)
    BY <1>3, <1>4 DEF Smoothed
  <2> HIDE DEF s
  <2>4. Mean(s) \in Ratios /\ \A j \in 1..w : s[j] \in Positives => Mean(s) \in Positives
    BY <2>1, MeanIs
  <2> QED
    BY <1>3, <2>2, <2>3, <2>4
<1>5. CASE n # w
  <2> DEFINE k == w - 1
             p == g[n - 1]
             e == v[n]
  <2>1. n - 1 \in D /\ n - 1 \notin Bad
    BY <1>2, <1>3, <1>5
  <2>2. p \in Ratios /\ (i <= n => p \in Positives \/ e \in Positives)
    <3>1. p \in Ratios /\ (i <= n - 1 => p \in Positives)
      BY <2>1
    <3>2. i = n => e \in Positives
      OBVIOUS
    <3>3. i <= n => i <= n - 1 \/ i = n
      BY <1>1, <1>3
    <3> QED
      BY <3>1, <3>2, <3>3
  <2>3. k \in Int /\ k > 0 /\ k >= 0 /\ w \in Nat \ {0} /\ e \in Ratios
    BY <1>1, <1>3
  <2>4. g[n] = Share(Plus(Times(k, p), e), w)
    BY <1>3, <1>5 DEF Smoothed
  <2> HIDE DEF k, p, e, D, L, Bad
  <2>5. Times(k, p) \in Ratios /\ (p \in Positives => Times(k, p) \in Positives)
    BY <2>2, <2>3, TimesTypes, SmallFractions
  <2>6. /\ Plus(Times(k, p), e) \in Ratios
        /\ p \in Positives \/ e \in Positives => Plus(Times(k, p), e) \in Positives
    BY <2>2, <2>3, <2>5, PlusTypes, PositiveSums, SmallFractions
  <2>7. /\ g[n] \in Ratios
        /\ Plus(Times(k, p), e) \in Positives => g[n] \in Positives
    BY <2>3, <2>4, <2>6, ShareTypes, SmallFractions
  <2> QED
    BY <1>3, <2>2, <2>6, <2>7
<1> QED
  BY <1>4, <1>5

\* The average true range is positive when a close moved.
LEMMA AtrIsPositive ==
    ASSUME NEW b \in Seq(ClosedBars), AtrWindow + 1 <= Len(b), AtrWindow # 1,
           \E i \in 2..Len(b) : b[i].close # b[i - 1].close
    PROVE  Atr(b) \in Positives
<1> DEFINE v == [i \in 1..(Len(b) - 1) |-> TrueRange(b, i + 1)]
<1>1. AtrWindow \in Nat \ {0, 1} /\ Len(b) \in Nat
  BY StrategiesAssumption
<1>2. v \in Seq(Ratios) /\ Len(v) = Len(b) - 1
  <2>1. ASSUME NEW i \in 1..(Len(b) - 1)
        PROVE  TrueRange(b, i + 1) \in Ratios
    <3>1. i + 1 \in 2..Len(b)
      BY <1>1
    <3> DEFINE j == i + 1
    <3> HIDE DEF j
    <3>2. TrueRange(b, j) \in Ratios
      BY <3>1, TrueRangeIs DEF j
    <3> QED
      BY <3>2 DEF j
  <2>2. Len(b) - 1 \in Nat
    BY <1>1
  <2> QED
    BY <2>1, <2>2
<1>3. PICK i \in 1..Len(v) : v[i] \in Positives
  <2>1. PICK j \in 2..Len(b) : b[j].close # b[j - 1].close
    OBVIOUS
  <2>2. TrueRange(b, j) \in Positives
    BY <2>1, TrueRangeIs
  <2>3. j - 1 \in 1..(Len(b) - 1) /\ (j - 1) + 1 = j
    BY <1>1
  <2>4. v[j - 1] = TrueRange(b, j)
    BY <2>3
  <2> QED
    BY <1>2, <2>2, <2>3, <2>4
<1>4. Atr(b) = (CHOOSE g : Smooths(g, v, AtrWindow))[Len(v)]
  BY Zenon DEF Atr, Smooths, Smoothed
<1> HIDE DEF v
<1>5. AtrWindow <= Len(v)
  BY <1>1, <1>2
<1>6. PICK f \in [AtrWindow..Len(v) -> Ratios] : Smooths(f, v, AtrWindow)
  BY <1>1, <1>2, <1>5, SmoothingExists
<1> DEFINE g == CHOOSE g : Smooths(g, v, AtrWindow)
<1>7. Smooths(g, v, AtrWindow)
  BY <1>6, Zenon
<1> HIDE DEF g
<1>8. g[Len(v)] \in Positives
  BY <1>1, <1>2, <1>3, <1>5, <1>7, SmoothingIsPositive
<1> QED
  BY <1>4, <1>8 DEF g

\* A trend's candidate is placed: the averages differ, so a close moved and the
\* distance is positive.
LEMMA TrendIsPlaced ==
    ASSUME NEW b \in Seq(ClosedBars), Len(b) >= MinBars, Resolved,
           Window(TrendFollowing) <= MinBars, NEW r
    PROVE  \/ GenerateTrendFollowing(b, r) = NoCandidate
           \/ Placed(GenerateTrendFollowing(b, r))
<1> DEFINE fast == Sma(Closes(b), FastWindow)
           slow == Sma(Closes(b), SlowWindow)
           direction == CASE r.label = "BULLISH_TREND" /\ Below(slow, fast) -> "LONG"
                          [] r.label = "BEARISH_TREND" /\ Below(fast, slow) -> "SHORT"
                          [] OTHER -> "NONE"
           e == Entry(b)
           distance == Product(Atr(b), AtrMultiplier)
           reward == Product(distance, RewardRisk)
           c == GenerateTrendFollowing(b, r)
<1> SUFFICES ASSUME c # NoCandidate PROVE Placed(c)
  OBVIOUS
<1>1. /\ c.strategyId = TrendFollowing /\ c.direction = direction /\ direction # "NONE"
      /\ c.entry = e /\ c.stop = Behind(e, direction, distance)
      /\ c.target = Ahead(e, direction, reward)
  <2> DEFINE made == [strategyId |-> TrendFollowing, regime |-> r.label, direction |-> direction,
                      entry  |-> e,
                      stop   |-> Behind(e, direction, distance),
                      target |-> Ahead(e, direction, reward),
                      signalStrength |-> r.confidence,
                      expectedEdge   |-> Over(Absolute(Minus(fast, slow)), slow)]
  <2>1. c = IF direction = "NONE" THEN NoCandidate ELSE made
    BY Zenon DEF GenerateTrendFollowing
  <2> HIDE DEF c, direction, e, distance, reward, fast, slow
  <2> QED
    BY <2>1
<1>2. /\ SlowWindow \in 1..Len(b) /\ FastWindow \in 1..Len(b) /\ AtrWindow + 1 <= Len(b)
      /\ b # << >> /\ AtrWindow # 1
  <2>1. AtrWindow + 1 <= MinBars
    BY WindowsAre, StrategiesAssumption
       DEF Window, TrendFollowing, MeanReversion, Breakout
  <2> QED
    BY <2>1, WindowsAre, StrategiesAssumption DEF Resolved
<1>3. direction \in {"LONG", "SHORT"} /\ fast # slow
  <2>1. fast \in Rational
    BY <1>2, WindowsAre, SmaType, SmallFractions
  <2>2. fast.n * fast.d \in Int
    BY <2>1, RationalIsFrac
  <2>3. direction \in {"LONG", "SHORT"} /\ (Below(slow, fast) \/ Below(fast, slow))
    BY <1>1
  <2> HIDE DEF fast, slow, direction
  <2> QED
    BY <2>2, <2>3 DEF Below
<1>4. \E i \in 2..Len(b) : b[i].close # b[i - 1].close
  BY <1>2, <1>3, AveragesDiffer
<1>5. Atr(b) \in Positives
  BY <1>2, <1>4, AtrIsPositive
<1>6. distance \in Positives
  BY <1>5, ConstantsArePositive, PositiveSums, SmallFractions
<1>7. reward \in Positives
  <2> HIDE DEF distance
  <2> QED
    BY <1>6, ConstantsArePositive, PositiveSums, SmallFractions
<1>8. e \in Rational
  BY <1>2, EntryType, SmallFractions
<1> HIDE DEF distance, reward, e, direction, fast, slow, c
<1>9. /\ Below(e, Plus(e, distance)) /\ Below(Minus(e, distance), e)
      /\ Below(e, Plus(e, reward)) /\ Below(Minus(e, reward), e)
  BY <1>6, <1>7, <1>8, PositiveSums, SmallFractions
<1>10. Aligned(c)
  BY <1>1, <1>3, <1>9 DEF Aligned, Ahead, Behind
<1> QED
  BY <1>1, <1>10 DEF Placed, TrendFollowing, MeanReversion, Breakout

\* When a capped quotient is half or more.
LEMMA CappedHalf ==
    ASSUME NEW n \in Int, NEW d \in Nat \ {0}
    PROVE  AtMost(Half, Capped(Frac(n, d))) <=> d <= 2 * n
<1> DEFINE a == Frac(n, d)
<1>1. /\ AtMost(Half, a) <=> d <= 2 * n
      /\ Below(Whole(1), a) <=> d < n
  BY UnitFrac
<1>2. AtMost(Half, Whole(1))
  <2>1. AtMost(Half, Frac(1, 1)) <=> 1 <= 2 * 1
    BY UnitFrac
  <2> QED
    BY <2>1, SmallFractions
<1> HIDE DEF a
<1> QED
  BY <1>1, <1>2 DEF Capped, a

\* A price below the lower end of a band, or above the upper: the stop half the
\* width beyond is on its side of the entry until the price is as far.
LEMMA StopOfReversion ==
    ASSUME NEW e \in Rational, NEW m \in Rational, NEW q \in Positives
    PROVE  LET width == Times(2, q)
               low   == Minus(m, q)
               high  == Plus(m, q)
           IN  /\ Positive(width)
               /\ Below(e, low) =>
                     /\ Below(e, m)
                     /\ Below(StopBeyondBand(low, "LONG", width), e) <=>
                          ~AtMost(Half, Capped(Over(Absolute(Minus(e, low)), width)))
               /\ Below(high, e) =>
                     /\ Below(m, e)
                     /\ Below(e, StopBeyondBand(high, "SHORT", width)) <=>
                          ~AtMost(Half, Capped(Over(Absolute(Minus(e, high)), width)))
<1> DEFINE width == Times(2, q)
           low   == Minus(m, q)
           high  == Plus(m, q)
           step  == Product(width, Half)
           two   == 2
<1>0. two = 2
  OBVIOUS
<1>1. q \in Rational /\ two \in Nat \ {0} /\ two \in Int
  BY SmallFractions
<1> HIDE DEF two
<1>2. PICK d \in Nat \ {0} : AllOver(e, m, q, q, d)
  BY <1>1, CommonDenominator
<1>3. PICK x \in Int, y \in Int, z \in Int : e = Frac(x, d) /\ m = Frac(y, d) /\ q = Frac(z, d)
  BY <1>2 DEF AllOver
<1>4. z > 0
  BY <1>3, RatioFrac
<1> DEFINE w == two * z
           lo == y - z
           hi == y + z
<1>5. w \in Nat \ {0} /\ lo \in Int /\ hi \in Int /\ w = z * two
  BY <1>0, <1>4
<1>6. width = Frac(w, d) /\ low = Frac(lo, d) /\ high = Frac(hi, d)
  <2>1. Times(two, Frac(z, d)) = Frac(two * z, d)
    BY <1>1, TimesOverOne
  <2>2. Minus(m, q) = Frac(y - z, d) /\ Plus(m, q) = Frac(y + z, d)
    BY <1>3, DifferenceOverOne, SumOverOne
  <2> QED
    BY <1>0, <1>3, <2>1, <2>2
<1> HIDE DEF width, low, high, w
<1>7. step = Frac(z, d)
  <2> DEFINE one == 1
  <2>0. w * one = w
    BY <1>5
  <2>1. one \in Int /\ w \in Int
    BY <1>5
  <2> HIDE DEF one
  <2>2. Product(Frac(w, d), Frac(one, two)) = Frac(w * one, d * two)
    BY <1>1, <2>1, ProductOverOne
  <2>3. Frac(z * two, d * two) = Frac(z, d)
    BY <1>1, FracScale
  <2>4. Half = Frac(one, two)
    BY <1>0, SmallFractions DEF one
  <2> QED
    BY <1>5, <1>6, <2>0, <2>2, <2>3, <2>4
<1> HIDE DEF step
<1>8. Positive(width)
  <2>1. width \in Rational /\ width \in Positives
    BY <1>5, <1>6, RatioFrac, FracIs
  <2> QED
    BY <2>1, RatioIs DEF Positive
<1>9. Minus(low, step) = Frac(lo - z, d) /\ Plus(high, step) = Frac(hi + z, d)
  <2> HIDE DEF lo, hi
  <2> QED
    BY <1>5, <1>6, <1>7, DifferenceOverOne, SumOverOne
<1>10. ASSUME NEW k \in Int
       PROVE  AtMost(Half, Capped(Over(Absolute(Minus(Frac(x, d), Frac(k, d))), width)))
                <=> w <= 2 * Magnitude(x - k)
  <2> DEFINE g == x - k
             p == Magnitude(g)
  <2>1. g \in Int /\ Minus(Frac(x, d), Frac(k, d)) = Frac(g, d)
    BY DifferenceOverOne
  <2> HIDE DEF g
  <2>2. Absolute(Frac(g, d)) = Frac(p, d) /\ p \in Int
    BY <2>1, AbsOverOne
  <2> HIDE DEF p
  <2>3. Over(Frac(p, d), Frac(w, d)) = Frac(p, w)
    BY <1>5, <2>2, OverOne
  <2>4. AtMost(Half, Capped(Frac(p, w))) <=> w <= 2 * p
    BY <1>5, <2>2, CappedHalf
  <2> QED
    BY <1>6, <2>1, <2>2, <2>3, <2>4 DEF p, g
<1>11. ASSUME Below(e, low)
       PROVE  /\ Below(e, m)
              /\ Below(Minus(low, step), e) <=>
                    ~AtMost(Half, Capped(Over(Absolute(Minus(e, low)), width)))
  <2>1. x < lo
    <3> HIDE DEF lo
    <3> QED
      BY <1>3, <1>5, <1>6, <1>11, OrderOverOne
  <2>2. x < y
    BY <1>4, <2>1
  <2>3. Below(e, m)
    BY <1>3, <2>2, OrderOverOne
  <2>4. Below(Minus(low, step), e) <=> lo - z < x
    <3> DEFINE t == lo - z
    <3>1. t \in Int
      OBVIOUS
    <3> HIDE DEF t
    <3>2. Below(Frac(t, d), Frac(x, d)) <=> t < x
      BY <3>1, OrderOverOne
    <3> QED
      BY <1>3, <1>9, <3>2 DEF t
  <2>5. w <= 2 * Magnitude(x - lo) <=> z <= lo - x
    BY <1>0, <1>4, <2>1 DEF w, Magnitude
  <2>6. AtMost(Half, Capped(Over(Absolute(Minus(e, low)), width))) <=> z <= lo - x
    <3> HIDE DEF lo
    <3> QED
      BY <1>3, <1>5, <1>6, <1>10, <2>5
  <2>7. lo - z < x <=> ~(z <= lo - x)
    OBVIOUS
  <2> QED
    BY <2>3, <2>4, <2>6, <2>7
<1>12. ASSUME Below(high, e)
       PROVE  /\ Below(m, e)
              /\ Below(e, Plus(high, step)) <=>
                    ~AtMost(Half, Capped(Over(Absolute(Minus(e, high)), width)))
  <2>1. hi < x
    <3> HIDE DEF hi
    <3> QED
      BY <1>3, <1>5, <1>6, <1>12, OrderOverOne
  <2>2. y < x
    BY <1>4, <2>1
  <2>3. Below(m, e)
    BY <1>3, <2>2, OrderOverOne
  <2>4. Below(e, Plus(high, step)) <=> x < hi + z
    <3> DEFINE t == hi + z
    <3>1. t \in Int
      OBVIOUS
    <3> HIDE DEF t
    <3>2. Below(Frac(x, d), Frac(t, d)) <=> x < t
      BY <3>1, OrderOverOne
    <3> QED
      BY <1>3, <1>9, <3>2 DEF t
  <2>5. w <= 2 * Magnitude(x - hi) <=> z <= x - hi
    BY <1>0, <1>4, <2>1 DEF w, Magnitude
  <2>6. AtMost(Half, Capped(Over(Absolute(Minus(e, high)), width))) <=> z <= x - hi
    <3> HIDE DEF hi
    <3> QED
      BY <1>3, <1>5, <1>6, <1>10, <2>5
  <2>7. x < hi + z <=> ~(z <= x - hi)
    OBVIOUS
  <2> QED
    BY <2>3, <2>4, <2>6, <2>7
<1>13. /\ StopBeyondBand(low, "LONG", width) = Minus(low, step)
       /\ StopBeyondBand(high, "SHORT", width) = Plus(high, step)
  BY DEF StopBeyondBand, Behind, step
<1> QED
  BY <1>8, <1>11, <1>12, <1>13 DEF width, low, high

\* Whole prices have a whole total.
LEMMA TotalOfWholes ==
    ASSUME NEW s \in Seq(Positives), s # << >>, NEW k \in [DOMAIN s -> Int],
           \A i \in DOMAIN s : s[i] = Whole(k[i])
    PROVE  SumFunction(k) \in Int /\ Total(s) = Whole(SumFunction(k))
<1> DEFINE S == DOMAIN s
           one == 1
<1>1. IsFiniteSet(S) /\ k \in [S -> Int] /\ s \in [S -> Rational]
  <2>1. s \in [S -> Rational]
    BY PositivesAreRational
  <2>2. Len(s) \in Nat \ {0} /\ S = 1..Len(s)
    OBVIOUS
  <2>3. IsFiniteSet(S)
    BY <2>2, FS_Interval
  <2> QED
    BY <2>1, <2>3
<1>2. one \in Nat \ {0} /\ \A x \in Int : x * one = x
  OBVIOUS
<1> HIDE DEF one
<1>3. \A j \in S : s[j] = Frac(k[j], one)
  <2> SUFFICES ASSUME NEW j \in S PROVE s[j] = Frac(k[j], one)
    OBVIOUS
  <2>1. k[j] \in Int /\ s[j] = Whole(k[j])
    OBVIOUS
  <2>2. Whole(k[j]) = Frac(k[j] * one, one)
    BY <1>2, <2>1, WholeIs
  <2> QED
    BY <1>2, <2>1, <2>2
<1>4. ASSUME NEW T, NEW v, NEW x, T = S, v = s, x = k
      PROVE  SumFunction(x) \in Int /\ Total(v) = Frac(SumFunction(x), one)
  <2>1. IsFiniteSet(T) /\ x \in [T -> Int] /\ v \in [T -> Rational] /\ one \in Nat \ {0}
    BY <1>1, <1>2, <1>4
  <2>2. \A j \in T : v[j] = Frac(x[j], one)
    BY <1>3, <1>4
  <2> QED
    BY ONLY <2>1, <2>2, TotalOverOne
<1>5. SumFunction(k) \in Int /\ Total(s) = Frac(SumFunction(k), one)
  BY <1>4
<1> DEFINE K == SumFunction(k)
<1> HIDE DEF K
<1>6. Whole(K) = Frac(K * one, one) /\ K * one = K
  BY <1>2, <1>5, WholeIs DEF K
<1> QED
  BY <1>5, <1>6 DEF K

\* The deviation of whole prices is rounded to no less than one step as soon
\* as one of them is not their mean.
LEMMA DeviationIsPositive ==
    ASSUME NEW s \in Seq(Positives), s # << >>, NEW k \in [DOMAIN s -> Int],
           \A i \in DOMAIN s : s[i] = Whole(k[i]),
           NEW i \in DOMAIN s, s[i] # Mean(s),
           Len(s) * Len(s) * Len(s) <= 4 * Steps * Steps
    PROVE  Root(Share(SquaredDeviations(s), Len(s)), Steps) \in Positives
<1> DEFINE N == Len(s)
           S == DOMAIN s
           mean == Mean(s)
           one == 1
           squares == [j \in S |-> Product(Minus(s[j], mean), Minus(s[j], mean))]
           V == Share(SquaredDeviations(s), N)
<1>1. N \in Nat \ {0} /\ S = 1..N /\ IsFiniteSet(S) /\ s \in [S -> Rational] /\ s \in Seq(Rational)
  <2>1. s \in Seq(Rational)
    BY PositivesAreRational
  <2>2. N \in Nat \ {0} /\ S = 1..N
    OBVIOUS
  <2> QED
    BY <2>1, <2>2, FS_Interval
<1>0. \A x \in Int : x * one = x /\ one * x = x
  OBVIOUS
<1>2. one \in Nat \ {0} /\ one \in Int
  OBVIOUS
<1> HIDE DEF one
<1>3. \A j \in S : s[j] = Frac(k[j], one)
  <2> SUFFICES ASSUME NEW j \in S PROVE s[j] = Frac(k[j], one)
    OBVIOUS
  <2>1. k[j] \in Int /\ s[j] = Whole(k[j])
    OBVIOUS
  <2>2. Whole(k[j]) = Frac(k[j] * one, one)
    BY <1>2, <2>1, WholeIs
  <2> QED
    BY <1>0, <2>1, <2>2
<1> DEFINE K == SumFunction(k)
<1>4. K \in Int /\ Total(s) = Frac(K, one)
  <2>1. K \in Int /\ Total(s) = Whole(K)
    BY TotalOfWholes
  <2> HIDE DEF K
  <2>2. Whole(K) = Frac(K * one, one)
    BY <1>2, <2>1, WholeIs
  <2> QED
    BY <1>0, <2>1, <2>2
<1>5. mean = Frac(K, N)
  <2>1. Mean(s) = Share(Total(s), N)
    BY DEF Mean
  <2> HIDE DEF N, K, mean
  <2>2. Share(Frac(K, one), N) = Frac(K, one * N)
    BY <1>1, <1>2, <1>4, ShareOverOne
  <2> QED
    BY <1>0, <1>1, <1>4, <2>1, <2>2 DEF mean, N
<1>6. mean \in Rational
  BY <1>1, MeanTypes
<1> DEFINE x == k[i]
           X == x * N
           z == X - K
<1>7. x \in Int /\ X \in Int /\ z \in Int /\ N \in Nat
  BY <1>1, <1>4
<1> HIDE DEF K, mean, x, N
<1>8. Minus(s[i], mean) = Frac(z, N)
  <2>1. Frac(x * N, one * N) = Frac(x, one)
    BY <1>1, <1>2, <1>7, FracScale
  <2>2. s[i] = Frac(X, N)
    BY <1>0, <1>1, <1>3, <2>1 DEF x
  <2> HIDE DEF X
  <2>3. Minus(Frac(X, N), Frac(K, N)) = Frac(X - K, N)
    BY <1>1, <1>4, <1>7, DifferenceOverOne
  <2> QED
    BY <1>5, <2>2, <2>3
<1>9. z # 0
  <2> SUFFICES ASSUME z = 0 PROVE FALSE
    OBVIOUS
  <2>1. Frac(x * N, one * N) = Frac(x, one)
    BY <1>1, <1>2, <1>7, FracScale
  <2>2. X = K
    BY <1>4, <1>7
  <2>3. s[i] = Frac(K, N)
    BY <1>0, <1>1, <1>3, <2>1, <2>2 DEF x
  <2> QED
    BY <1>5, <2>3 DEF mean
<1> HIDE DEF z
<1> DEFINE zz == z * z
           NN == N * N
<1>10. zz \in Nat \ {0} /\ NN \in Nat \ {0} /\ zz \in Int
  <2>1. z * z > 0
    BY <1>7, <1>9
  <2>2. N * N > 0
    BY <1>1
  <2> QED
    BY <1>1, <1>7, <2>1, <2>2
<1>11. squares[i] = Frac(zz, NN)
  BY <1>1, <1>7, <1>8, ProductOverOne
<1>12. squares \in [S -> Ratios]
  <2> SUFFICES ASSUME NEW j \in S
               PROVE  Product(Minus(s[j], mean), Minus(s[j], mean)) \in Ratios
    OBVIOUS
  <2>1. s[j] \in Rational
    BY <1>1
  <2>2. Minus(s[j], mean) \in Rational
    BY <1>6, <2>1, PlusTypes
  <2> QED
    BY <2>2, ProductTypes
<1>13. SquaredDeviations(s) = Total(squares)
  BY Zenon DEF SquaredDeviations, mean, S
<1> HIDE DEF squares, zz, NN
<1> DEFINE T == Total(squares)
<1>14. AtMost(Frac(zz, NN), T) /\ T \in Ratios
  <2> HIDE DEF S
  <2>1. i \in S
    BY DEF S
  <2> QED
    BY <1>1, <1>11, <1>12, <2>1, TotalAtLeast
<1> HIDE DEF T
<1> DEFINE n == T.n
           d == T.d
<1>15. T = Frac(n, d) /\ n \in Nat /\ d \in Nat \ {0} /\ n \in Int
  BY <1>14, RationalIsFrac DEF Ratios
<1> HIDE DEF n, d
<1>16. zz * d <= n * NN
  BY <1>10, <1>14, <1>15, FracOrder
<1>17. V = Frac(n, d * N) /\ V \in Ratios
  <2>1. Share(Frac(n, d), N) = Frac(n, d * N)
    BY <1>1, <1>15, ShareOverOne
  <2>2. Share(T, N) \in Ratios
    BY <1>1, <1>14, ShareTypes, SmallFractions
  <2> QED
    BY <1>13, <1>15, <2>1, <2>2 DEF T
<1> HIDE DEF V
<1> DEFINE dN == d * N
           N3 == N * N * N
           M == 4 * Steps * Steps
<1>18. dN \in Nat \ {0} /\ N3 \in Nat \ {0} /\ M \in Nat /\ N3 <= M /\ Steps \in Nat \ {0}
  <2>1. Steps \in Nat \ {0}
    BY RegimeAssumption
  <2>2. d * N > 0
    BY <1>1, <1>15
  <2>3. N * N > 0
    BY <1>1
  <2>4. N * N * N > 0
    BY <1>1, <2>3
  <2>5. dN \in Nat \ {0}
    BY <1>7, <1>15, <2>2
  <2>6. N3 \in Nat \ {0}
    BY <1>7, <2>4
  <2>7. M \in Nat
    BY <2>1
  <2>8. N3 <= M
    BY DEF N
  <2> QED
    BY <2>1, <2>5, <2>6, <2>7, <2>8
<1>19. dN <= n * N3
  <2>1. d <= zz * d
    <3>1. zz >= 1
      BY <1>10
    <3> QED
      BY <1>10, <1>15, <3>1
  <2>6. zz * d \in Int /\ n * NN \in Int
    BY <1>10, <1>15
  <2>2. d <= n * NN /\ n * NN \in Int
    BY <1>15, <1>16, <2>1, <2>6
  <2> DEFINE m == n * NN
  <2>3. N * d <= N * m
    <3> HIDE DEF m
    <3> QED
      BY <1>1, <1>15, <2>2, ScaleOrder DEF m
  <2>4. N * m = n * N3
    BY <1>7, <1>15 DEF NN
  <2>5. N * d = dN
    BY <1>7, <1>15
  <2> QED
    BY <2>3, <2>4, <2>5
<1> HIDE DEF dN, N3
<1>20. V.d <= V.n * N3
  <2>1. V = Frac(V.n, V.d) /\ V.n \in Int /\ V.d \in Nat \ {0}
    BY <1>17, RationalIsFrac DEF Ratios
  <2>2. Frac(n, dN) = Frac(V.n, V.d)
    BY <1>17, <2>1 DEF dN
  <2> DEFINE p == V.n
             q == V.d
             one2 == one
  <2> HIDE DEF p, q
  <2>3. p \in Int /\ q \in Nat \ {0} /\ Frac(n, dN) = Frac(p, q)
    BY <2>1, <2>2 DEF p, q
  <2>4. AtMost(Frac(one, N3), Frac(n, dN)) <=> one * dN <= n * N3
    BY <1>2, <1>15, <1>18, FracOrder
  <2>5. AtMost(Frac(one, N3), Frac(p, q)) <=> one * q <= p * N3
    BY <1>2, <1>18, <2>3, FracOrder
  <2>6. one * dN = dN /\ one * q = q
    BY <1>0, <1>18, <2>3
  <2> QED
    BY <1>19, <2>3, <2>4, <2>5, <2>6 DEF p, q
<1>21. V.d <= 4 * V.n * Steps * Steps
  <2> DEFINE p == V.n
             q == V.d
  <2>1. p \in Nat /\ q \in Nat
    BY <1>17, RationalIsFrac DEF Ratios
  <2> HIDE DEF p, q
  <2>2. q <= p * N3
    BY <1>20 DEF p, q
  <2>3. p * N3 <= p * M
    <3>1. CASE p = 0
      BY <1>18, <3>1
    <3>2. CASE p # 0
      <4> HIDE DEF M
      <4> QED
        BY <1>18, <2>1, <3>2, ScaleOrder
    <3> QED
      BY <3>1, <3>2
  <2>4. p * M = 4 * p * Steps * Steps
    BY <1>18, <2>1
  <2>5. p * N3 \in Int /\ p * M \in Int
    <3> HIDE DEF M
    <3> QED
      BY <1>18, <2>1
  <2>6. q <= p * M
    <3> HIDE DEF M
    <3> QED
      BY <2>1, <2>2, <2>3, <2>5
  <2> QED
    BY <2>4, <2>6 DEF p, q
<1> QED
  BY <1>17, <1>18, <1>21, RootTypes DEF V, N

\* A price is not beyond a band around itself.
LEMMA InsideOwnBand ==
    ASSUME NEW e \in Rational, NEW q \in Ratios
    PROVE  ~Below(e, Minus(e, q)) /\ ~Below(Plus(e, q), e)
<1>1. PICK d \in Nat \ {0}, x \in Int, z \in Int : e = Frac(x, d) /\ q = Frac(z, d)
  BY PairOverOne, SmallFractions
<1>2. z >= 0
  BY <1>1, RatioFrac
<1> DEFINE lo == x - z
           hi == x + z
<1>3. lo \in Int /\ hi \in Int /\ ~(x < lo) /\ ~(hi < x)
  BY <1>2
<1>4. Minus(e, q) = Frac(lo, d) /\ Plus(e, q) = Frac(hi, d)
  BY <1>1, DifferenceOverOne, SumOverOne
<1> HIDE DEF lo, hi
<1>5. Below(Frac(x, d), Frac(lo, d)) <=> x < lo
  BY <1>3, OrderOverOne
<1>6. Below(Frac(hi, d), Frac(x, d)) <=> hi < x
  BY <1>3, OrderOverOne
<1> QED
  BY <1>1, <1>3, <1>4, <1>5, <1>6

\* A reversion's candidate is placed, but for an overshoot.
LEMMA ReversionIsPlaced ==
    ASSUME NEW b \in Seq(ClosedBars), Len(b) >= MinBars, Resolved,
           BandWindow <= MinBars, NEW r
    PROVE  \/ GenerateMeanReversion(b, r) = NoCandidate
           \/ Placed(GenerateMeanReversion(b, r))
<1> DEFINE s         == Newest(Closes(b), BandWindow)
           m         == Mean(s)
           deviation == Root(Share(SquaredDeviations(s), BandWindow), Steps)
           q         == Product(NumStd, deviation)
           width     == Times(2, q)
           e         == Entry(b)
           direction == CASE Below(e, Minus(m, q)) -> "LONG"
                          [] Below(Plus(m, q), e)  -> "SHORT"
                          [] OTHER -> "NONE"
           band      == Behind(m, direction, q)
           strength  == IF Positive(width)
                        THEN Capped(Over(Absolute(Minus(e, band)), width)) ELSE Whole(0)
           c         == GenerateMeanReversion(b, r)
<1> SUFFICES ASSUME c # NoCandidate PROVE Placed(c)
  OBVIOUS
<1>1. /\ direction # "NONE" /\ c.strategyId = MeanReversion /\ c.direction = direction
      /\ c.entry = e /\ c.stop = StopBeyondBand(band, direction, width)
      /\ c.target = m /\ c.signalStrength = strength
  <2> DEFINE made == [strategyId |-> MeanReversion, regime |-> r.label, direction |-> direction,
                      entry  |-> e, stop |-> StopBeyondBand(band, direction, width),
                      target |-> m, signalStrength |-> strength,
                      expectedEdge |-> Over(Absolute(Minus(m, e)), e)]
  <2>1. c = IF direction = "NONE" THEN NoCandidate ELSE made
    BY Zenon DEF GenerateMeanReversion
  <2> HIDE DEF c, direction, e, m, band, width, strength
  <2> QED
    BY <2>1
<1>2. BandWindow \in Nat \ {0} /\ BandWindow <= Len(b) /\ Len(b) \in Nat \ {0} /\ b # << >>
      /\ Steps \in Nat \ {0}
  BY WindowsAre, StrategiesAssumption, RegimeAssumption
<1> DEFINE near == [i \in DOMAIN s |-> b[Len(b) - BandWindow + i].close]
<1>3. /\ s \in Seq(Positives) /\ Len(s) = BandWindow /\ s # << >> /\ BandWindow \in DOMAIN s
      /\ DOMAIN s = 1..BandWindow
  <2>1. s \in Seq(Positives) /\ Len(s) = BandWindow
    BY <1>2, ClosesAre, NewestIs
  <2> HIDE DEF s
  <2> QED
    BY <1>2, <2>1
<1>4. /\ near \in [DOMAIN s -> Int]
      /\ \A i \in DOMAIN s : s[i] = Whole(near[i])
  <2>1. ASSUME NEW i \in 1..BandWindow
        PROVE  /\ b[Len(b) - BandWindow + i].close \in Int
               /\ s[i] = Whole(b[Len(b) - BandWindow + i].close)
    <3> DEFINE j == Len(b) - BandWindow + i
    <3>1. j \in 1..Len(b)
      BY <1>2
    <3>2. Closes(b) \in Seq(Positives) /\ Len(Closes(b)) = Len(b)
      BY ClosesAre
    <3>3. s[i] = Closes(b)[j]
      BY <1>2, <3>2, NewestAt
    <3> HIDE DEF j, s
    <3>4. b[j] \in ClosedBars /\ Closes(b)[j] = Whole(b[j].close)
      BY <3>1, ClosesAre
    <3>5. b[j].close \in Int
      BY <3>4, BarIs
    <3> QED
      BY <3>3, <3>4, <3>5 DEF j
  <2> HIDE DEF s
  <2> QED
    BY <1>3, <2>1
<1>5. s[BandWindow] = e
  <2>1. near[BandWindow] = b[Len(b)].close
    <3> HIDE DEF s
    <3>1. Len(b) - BandWindow + BandWindow = Len(b)
      BY <1>2
    <3> QED
      BY <1>3, <3>1
  <2> HIDE DEF s, near
  <2> QED
    BY <1>3, <1>4, <2>1 DEF Entry, Last
<1> HIDE DEF s, near
<1>6. m \in Rational /\ deviation \in Ratios /\ e \in Rational
  <2>1. s \in Seq(Rational)
    BY <1>3, PositivesAreRational
  <2>2. SquaredDeviations(s) \in Ratios /\ m \in Rational
    BY <1>3, <2>1, DeviationsType, MeanTypes
  <2>3. Share(SquaredDeviations(s), BandWindow) \in Ratios
    BY <1>2, <2>2, ShareTypes, SmallFractions
  <2> QED
    BY <1>2, <2>2, <2>3, RootTypes, EntryType, SmallFractions
<1> HIDE DEF e, c
<1>7. q \in Ratios
  BY <1>6, ConstantsArePositive, ProductTypes, SmallFractions
<1>8. e # m
  <2> HIDE DEF q, m
  <2>1. ~Below(e, Minus(e, q)) /\ ~Below(Plus(e, q), e)
    BY <1>6, <1>7, InsideOwnBand
  <2> QED
    BY <1>1, <2>1
<1>9. deviation \in Positives
  <2>1. BandWindow * BandWindow * BandWindow <= 4 * Steps * Steps
    BY DEF Resolved
  <2> DEFINE n == BandWindow
  <2>2. /\ s \in Seq(Positives) /\ s # << >> /\ near \in [DOMAIN s -> Int]
        /\ \A i \in DOMAIN s : s[i] = Whole(near[i])
        /\ n \in DOMAIN s /\ s[n] # Mean(s)
        /\ Len(s) * Len(s) * Len(s) <= 4 * Steps * Steps
    BY <1>3, <1>4, <1>5, <1>8, <2>1
  <2> HIDE DEF n
  <2>3. Root(Share(SquaredDeviations(s), Len(s)), Steps) \in Positives
    BY <2>2, DeviationIsPositive
  <2> QED
    BY <1>3, <2>3
<1>10. q \in Positives
  <2> HIDE DEF deviation
  <2> QED
    BY <1>9, ConstantsArePositive, PositiveSums, SmallFractions
<1> HIDE DEF q, m
<1> DEFINE low  == Minus(m, q)
           high == Plus(m, q)
<1>11. /\ Positive(width)
       /\ Below(e, low) =>
             /\ Below(e, m)
             /\ Below(StopBeyondBand(low, "LONG", width), e) <=>
                  ~AtMost(Half, Capped(Over(Absolute(Minus(e, low)), width)))
       /\ Below(high, e) =>
             /\ Below(m, e)
             /\ Below(e, StopBeyondBand(high, "SHORT", width)) <=>
                  ~AtMost(Half, Capped(Over(Absolute(Minus(e, high)), width)))
  BY <1>6, <1>10, StopOfReversion, Zenon
<1>12. \/ direction = "LONG" /\ Below(e, low) /\ band = low
       \/ direction = "SHORT" /\ Below(high, e) /\ band = high
  BY <1>1 DEF Behind
<1>13. strength = Capped(Over(Absolute(Minus(e, band)), width))
  BY <1>11
<1> HIDE DEF low, high, width, band, direction, strength
<1>14. Aligned(c) <=> ~AtMost(Half, c.signalStrength)
  <2>1. CASE direction = "LONG" /\ Below(e, low) /\ band = low
    BY <1>1, <1>11, <1>13, <2>1 DEF Aligned
  <2>2. CASE direction = "SHORT" /\ Below(high, e) /\ band = high
    BY <1>1, <1>11, <1>13, <2>2 DEF Aligned
  <2> QED
    BY <1>12, <2>1, <2>2
<1> QED
  BY <1>1, <1>14 DEF Placed, MeanReversion, Breakout

\* A price above a channel, or below it: the middle lies behind it, and the
\* target before it unless the channel has no width.
LEMMA TargetOfBreakout ==
    ASSUME NEW e \in Rational, NEW u \in Rational, NEW l \in Rational, Minus(u, l) \in Ratios
    PROVE  LET middle == Share(Plus(u, l), 2)
               width  == Minus(u, l)
           IN  /\ Below(u, e) =>
                     /\ Below(middle, e)
                     /\ Below(e, Plus(e, width)) <=> Plus(e, width) # e
               /\ Below(e, l) =>
                     /\ Below(e, middle)
                     /\ Below(Minus(e, width), e) <=> Minus(e, width) # e
<1> DEFINE middle == Share(Plus(u, l), 2)
           width  == Minus(u, l)
           two    == 2
<1>0. two = 2
  OBVIOUS
<1>1. two \in Nat \ {0} /\ two \in Int
  OBVIOUS
<1> HIDE DEF two
<1>2. PICK d \in Nat \ {0} : AllOver(e, u, l, l, d)
  BY CommonDenominator
<1>3. PICK w \in Int, x \in Int, y \in Int : e = Frac(w, d) /\ u = Frac(x, d) /\ l = Frac(y, d)
  BY <1>2 DEF AllOver
<1> DEFINE z == x - y
           s == x + y
<1>4. z \in Int /\ s \in Int /\ width = Frac(z, d) /\ Plus(u, l) = Frac(s, d)
  <2>1. Minus(Frac(x, d), Frac(y, d)) = Frac(x - y, d)
    BY DifferenceOverOne
  <2>2. Plus(Frac(x, d), Frac(y, d)) = Frac(x + y, d)
    BY SumOverOne
  <2> QED
    BY <1>3, <2>1, <2>2
<1>5. z >= 0
  <2> HIDE DEF z, width, s
  <2>1. Frac(z, d) \in Ratios
    BY <1>4 DEF width
  <2> QED
    BY <1>4, <2>1, RatioFrac
<1> DEFINE dd == d * two
           ww == w * two
<1>6. dd \in Nat \ {0} /\ ww \in Int /\ e = Frac(ww, dd)
  BY <1>1, <1>3, FracScale
<1>7. middle = Frac(s, dd)
  <2> HIDE DEF s
  <2>1. Share(Frac(s, d), two) = Frac(s, d * two)
    BY <1>1, <1>4, ShareOverOne
  <2> QED
    BY <1>0, <1>4, <2>1
<1> HIDE DEF middle, width
<1>8. /\ Below(middle, e) <=> s < ww
      /\ Below(e, middle) <=> ww < s
  <2> HIDE DEF s, ww, dd
  <2>1. /\ Below(Frac(s, dd), Frac(ww, dd)) <=> s < ww
        /\ Below(Frac(ww, dd), Frac(s, dd)) <=> ww < s
    BY <1>4, <1>6, OrderOverOne
  <2> QED
    BY <1>6, <1>7, <2>1
<1>9. /\ Below(u, e) <=> x < w
      /\ Below(e, l) <=> w < y
  BY <1>3, OrderOverOne
<1>10. (x < w => s < ww) /\ (w < y => ww < s)
  BY <1>0, <1>5
<1> DEFINE hi == w + z
           lo == w - z
<1>11. hi \in Int /\ lo \in Int /\ Plus(e, width) = Frac(hi, d) /\ Minus(e, width) = Frac(lo, d)
  <2>1. hi \in Int /\ lo \in Int
    OBVIOUS
  <2> HIDE DEF z
  <2>2. Minus(Frac(w, d), Frac(z, d)) = Frac(w - z, d)
    BY <1>4, DifferenceOverOne
  <2>3. Plus(Frac(w, d), Frac(z, d)) = Frac(w + z, d)
    BY <1>4, SumOverOne
  <2> QED
    BY <1>3, <1>4, <2>1, <2>2, <2>3
<1>12. (w < hi <=> hi # w) /\ (lo < w <=> lo # w)
  BY <1>5
<1> HIDE DEF hi, lo, z, s
<1>13. /\ Below(e, Plus(e, width)) <=> w < hi
       /\ Plus(e, width) = e <=> hi = w
  <2>1. /\ Below(Frac(w, d), Frac(hi, d)) <=> w < hi
        /\ Frac(hi, d) = Frac(w, d) <=> hi = w
    BY <1>11, OrderOverOne
  <2> QED
    BY <1>3, <1>11, <2>1
<1>14. /\ Below(Minus(e, width), e) <=> lo < w
       /\ Minus(e, width) = e <=> lo = w
  <2>1. /\ Below(Frac(lo, d), Frac(w, d)) <=> lo < w
        /\ Frac(lo, d) = Frac(w, d) <=> lo = w
    BY <1>11, OrderOverOne
  <2> QED
    BY <1>3, <1>11, <2>1
<1> QED
  BY <1>8, <1>9, <1>10, <1>12, <1>13, <1>14 DEF middle, width

\* A breakout's candidate is placed, but for a channel without width.
LEMMA BreakoutIsPlaced ==
    ASSUME NEW b \in Seq(ClosedBars), Len(b) >= MinBars, ChannelWindow + 1 <= MinBars, NEW r
    PROVE  \/ GenerateBreakout(b, r) = NoCandidate
           \/ Placed(GenerateBreakout(b, r))
<1> DEFINE u == Channel(b).upper
           l == Channel(b).lower
           middle == Share(Plus(u, l), 2)
           width  == Minus(u, l)
           e      == Entry(b)
           direction == CASE Below(u, e) -> "LONG"
                          [] Below(e, l) -> "SHORT"
                          [] OTHER -> "NONE"
           target == Ahead(e, direction, width)
           c      == GenerateBreakout(b, r)
<1> SUFFICES ASSUME c # NoCandidate PROVE Placed(c)
  OBVIOUS
<1>1. /\ direction # "NONE" /\ c.strategyId = Breakout /\ c.direction = direction
      /\ c.entry = e /\ c.stop = middle /\ c.target = target
  <2> DEFINE made == [strategyId |-> Breakout, regime |-> r.label, direction |-> direction,
                      entry  |-> e, stop |-> middle, target |-> target,
                      signalStrength |-> IF Positive(width)
                                         THEN Capped(Over(Absolute(Minus(e, middle)), width))
                                         ELSE Whole(0),
                      expectedEdge |-> Over(width, e)]
  <2>1. c = IF direction = "NONE" THEN NoCandidate ELSE made
    BY Zenon DEF GenerateBreakout
  <2> HIDE DEF c, direction, e, middle, target, width
  <2> QED
    BY <2>1
<1>2. ChannelWindow + 1 <= Len(b) /\ b # << >>
  BY WindowsAre, StrategiesAssumption
<1>3. u \in Rational /\ l \in Rational /\ width \in Ratios /\ e \in Rational
  BY <1>2, ChannelIs, EntryType, SmallFractions
<1> HIDE DEF u, l, e, c
<1>4. /\ Below(u, e) =>
            /\ Below(middle, e)
            /\ Below(e, Plus(e, width)) <=> Plus(e, width) # e
      /\ Below(e, l) =>
            /\ Below(e, middle)
            /\ Below(Minus(e, width), e) <=> Minus(e, width) # e
  BY <1>3, TargetOfBreakout, Zenon
<1>5. \/ direction = "LONG" /\ Below(u, e) /\ target = Plus(e, width)
      \/ direction = "SHORT" /\ Below(e, l) /\ target = Minus(e, width)
  BY <1>1 DEF Ahead
<1> HIDE DEF middle, width, direction, target
<1>6. Aligned(c) <=> c.target # c.entry
  <2>1. CASE direction = "LONG" /\ Below(u, e) /\ target = Plus(e, width)
    BY <1>1, <1>4, <2>1 DEF Aligned
  <2>2. CASE direction = "SHORT" /\ Below(e, l) /\ target = Minus(e, width)
    BY <1>1, <1>4, <2>2 DEF Aligned
  <2> QED
    BY <1>5, <2>1, <2>2
<1> QED
  BY <1>1, <1>6 DEF Placed, MeanReversion, Breakout

-----------------------------------------------------------------------------
(* What a run of the strategies proposes                                   *)

\* Whatever the strategy, it returns no candidate or one it stands for.
LEMMA GeneratedIs ==
    ASSUME NEW b \in Seq(ClosedBars), Len(b) >= MinBars, NEW r, RegimeSound(r),
           \A s \in Strategy : Window(s) <= MinBars,
           NEW s \in Strategy
    PROVE  Generate(s, b, r) = NoCandidate \/ Offered(Generate(s, b, r), s, r)
<1>1. BandWindow <= MinBars /\ ChannelWindow + 1 <= MinBars
  <2>1. Window(MeanReversion) = BandWindow /\ Window(Breakout) = ChannelWindow + 1
    BY DEF Window, TrendFollowing, MeanReversion, Breakout
  <2> QED
    BY <2>1, StrategiesAre
<1>2. /\ Generate(TrendFollowing, b, r) = GenerateTrendFollowing(b, r)
      /\ Generate(MeanReversion, b, r) = GenerateMeanReversion(b, r)
      /\ Generate(Breakout, b, r) = GenerateBreakout(b, r)
  BY DEF Generate, TrendFollowing, MeanReversion, Breakout
<1>3. CASE s = TrendFollowing
  BY <1>2, <1>3, TrendIsOffered
<1>4. CASE s = MeanReversion
  BY <1>1, <1>2, <1>4, ReversionIsOffered
<1>5. CASE s = Breakout
  BY <1>1, <1>2, <1>5, BreakoutIsOffered
<1> QED
  BY <1>3, <1>4, <1>5, StrategiesAre

\* Nor one that is misplaced.
LEMMA GeneratedIsPlaced ==
    ASSUME NEW b \in Seq(ClosedBars), Len(b) >= MinBars, Resolved, NEW r,
           \A s \in Strategy : Window(s) <= MinBars,
           NEW s \in Strategy
    PROVE  Generate(s, b, r) = NoCandidate \/ Placed(Generate(s, b, r))
<1>1. /\ Window(TrendFollowing) <= MinBars
      /\ BandWindow <= MinBars /\ ChannelWindow + 1 <= MinBars
  BY StrategiesAre, StrategiesAssumption
     DEF Window, TrendFollowing, MeanReversion, Breakout
<1>2. /\ Generate(TrendFollowing, b, r) = GenerateTrendFollowing(b, r)
      /\ Generate(MeanReversion, b, r) = GenerateMeanReversion(b, r)
      /\ Generate(Breakout, b, r) = GenerateBreakout(b, r)
  BY DEF Generate, TrendFollowing, MeanReversion, Breakout
<1>3. CASE s = TrendFollowing
  BY <1>1, <1>2, <1>3, TrendIsPlaced
<1>4. CASE s = MeanReversion
  BY <1>1, <1>2, <1>4, ReversionIsPlaced
<1>5. CASE s = Breakout
  BY <1>1, <1>2, <1>5, BreakoutIsPlaced
<1> QED
  BY <1>3, <1>4, <1>5, StrategiesAre

\* A candidate of a strategy that the regime allows, placed as it should be.
CandidateSound(c, r) ==
    /\ \E s \in Strategy : Offered(c, s, r) /\ r.label \in allowed_regimes[s]
    /\ Resolved => Placed(c)

\* Candidates that are all sound.
AllSound(q, r) == q \in Seq({c \in ToSet(q) : CandidateSound(c, r)})

\* run_strategies asks only the strategies allowed in the regime.
LEMMA CandidatesAreSound ==
    ASSUME NEW b \in Seq(ClosedBars), Len(b) >= MinBars, NEW r, RegimeSound(r),
           \A s \in Strategy : Window(s) <= MinBars
    PROVE  AllSound(RunStrategies(b, r), r)
<1> DEFINE t == Generate(TrendFollowing, b, r)
           m == Generate(MeanReversion, b, r)
           k == Generate(Breakout, b, r)
           T == {c \in {t, m, k} : CandidateSound(c, r)}
<1>3. /\ Generate(TrendFollowing, b, r) = t /\ Generate(MeanReversion, b, r) = m
      /\ Generate(Breakout, b, r) = k
  OBVIOUS
<1>4. /\ t = NoCandidate \/ Offered(t, TrendFollowing, r)
      /\ m = NoCandidate \/ Offered(m, MeanReversion, r)
      /\ k = NoCandidate \/ Offered(k, Breakout, r)
  BY GeneratedIs, StrategiesAre
<1>2. Resolved => /\ t = NoCandidate \/ Placed(t)
                  /\ m = NoCandidate \/ Placed(m)
                  /\ k = NoCandidate \/ Placed(k)
  BY GeneratedIsPlaced, StrategiesAre
<1> HIDE DEF t, m, k
<1>5. ASSUME NEW s \in Strategy, NEW c \in {t, m, k}, Generate(s, b, r) = c,
             c = NoCandidate \/ Offered(c, s, r), Resolved => c = NoCandidate \/ Placed(c)
      PROVE  Asked(s, b, r) \in Seq(T)
  <2>1. CASE r.label \in allowed_regimes[s] /\ c # NoCandidate
    <3>1. c \in T
      BY <1>5, <2>1 DEF CandidateSound
    <3>2. Asked(s, b, r) = <<c>>
      BY <1>5, <2>1 DEF Asked, Proposed
    <3> HIDE DEF T
    <3> QED
      BY <3>1, <3>2
  <2>2. CASE ~(r.label \in allowed_regimes[s] /\ c # NoCandidate)
    <3>1. Asked(s, b, r) = << >>
      BY <1>5, <2>2 DEF Asked, Proposed
    <3> HIDE DEF T
    <3> QED
      BY <3>1
  <2> QED
    BY <2>1, <2>2
<1>6. /\ Asked(TrendFollowing, b, r) \in Seq(T) /\ Asked(MeanReversion, b, r) \in Seq(T)
      /\ Asked(Breakout, b, r) \in Seq(T)
  BY <1>2, <1>3, <1>4, <1>5, StrategiesAre
<1> DEFINE q == RunStrategies(b, r)
<1>7. q \in Seq(T)
  <2> HIDE DEF T
  <2> QED
    BY <1>6 DEF RunStrategies
<1> HIDE DEF q
<1>8. \A i \in DOMAIN q : q[i] \in {c \in ToSet(q) : CandidateSound(c, r)}
  <2>1. \A i \in DOMAIN q : q[i] \in T /\ q[i] \in ToSet(q)
    BY <1>7 DEF ToSet
  <2> QED
    BY <2>1
<1>9. q \in Seq({c \in ToSet(q) : CandidateSound(c, r)})
  <2> DEFINE U == {c \in ToSet(q) : CandidateSound(c, r)}
  <2>1. \A i \in DOMAIN q : q[i] \in U
    BY <1>8
  <2>2. q = [i \in 1..Len(q) |-> q[i]] /\ Len(q) \in Nat /\ DOMAIN q = 1..Len(q)
    BY <1>7
  <2> HIDE DEF U
  <2>3. q \in Seq(U)
    BY <2>1, <2>2
  <2> QED
    BY <2>3 DEF U
<1> QED
  BY <1>9 DEF q, AllSound

-----------------------------------------------------------------------------
(* How far back they look                                                  *)

\* The newest of the newest entries.
LEMMA NewestOfNewest ==
    ASSUME NEW S, NEW s \in Seq(S), NEW m \in Nat, NEW n \in Nat \ {0}, n <= m, m <= Len(s)
    PROVE  Newest(Newest(s, m), n) = Newest(s, n)
<1> DEFINE near == Newest(s, m)
<1>1. near \in Seq(S) /\ Len(near) = m /\ m \in Nat \ {0}
  BY NewestIs
<1>2. Len(s) \in Nat /\ n <= Len(s)
  OBVIOUS
<1>3. \A i \in 1..m : near[i] = s[Len(s) - m + i]
  BY <1>1, <1>2 DEF Newest
<1> HIDE DEF near
<1>4. Newest(near, n) \in Seq(S) /\ Len(Newest(near, n)) = n
  BY <1>1, NewestIs
<1>5. Newest(s, n) \in Seq(S) /\ Len(Newest(s, n)) = n
  BY <1>2, NewestIs
<1>6. \A i \in 1..n : Newest(near, n)[i] = near[m - n + i]
  BY <1>1 DEF Newest
<1>7. \A i \in 1..n : Newest(s, n)[i] = s[Len(s) - n + i]
  BY <1>2 DEF Newest
<1>8. \A i \in 1..n : Newest(near, n)[i] = Newest(s, n)[i]
  <2> SUFFICES ASSUME NEW i \in 1..n PROVE Newest(near, n)[i] = Newest(s, n)[i]
    OBVIOUS
  <2>1. m - n + i \in 1..m /\ Len(s) - m + (m - n + i) = Len(s) - n + i
    BY <1>2
  <2> QED
    BY <1>3, <1>6, <1>7, <2>1
<1> QED
  BY <1>4, <1>5, <1>8 DEF near

\* The closes of the newest bars are the newest closes.
LEMMA ClosesOfNewest ==
    ASSUME NEW b \in Seq(ClosedBars), NEW m \in Nat \ {0}, m <= Len(b)
    PROVE  Closes(Newest(b, m)) = Newest(Closes(b), m)
<1> DEFINE near == Newest(b, m)
<1>1. near \in Seq(ClosedBars) /\ Len(near) = m
  BY NewestIs
<1>2. Len(b) \in Nat
  OBVIOUS
<1>3. \A i \in 1..m : near[i] = b[Len(b) - m + i]
  BY NewestAt
<1>4. /\ Closes(b) \in Seq(Positives) /\ Len(Closes(b)) = Len(b)
      /\ \A i \in DOMAIN b : Closes(b)[i] = Whole(b[i].close)
  BY ClosesAre
<1> HIDE DEF near
<1>5. /\ Closes(near) \in Seq(Positives) /\ Len(Closes(near)) = m
      /\ \A i \in 1..m : Closes(near)[i] = Whole(near[i].close)
  BY <1>1, ClosesAre
<1>6. Newest(Closes(b), m) \in Seq(Positives) /\ Len(Newest(Closes(b), m)) = m
  BY <1>4, NewestIs
<1>7. \A i \in 1..m : Newest(Closes(b), m)[i] = Closes(b)[Len(b) - m + i]
  BY <1>4, NewestAt
<1>8. \A i \in 1..m : Closes(near)[i] = Newest(Closes(b), m)[i]
  <2> SUFFICES ASSUME NEW i \in 1..m PROVE Closes(near)[i] = Newest(Closes(b), m)[i]
    OBVIOUS
  <2>1. Len(b) - m + i \in DOMAIN b
    BY <1>2
  <2>2. near[i] = b[Len(b) - m + i] /\ Closes(near)[i] = Whole(near[i].close)
    BY <1>3, <1>5, Zenon
  <2>3. Newest(Closes(b), m)[i] = Whole(b[Len(b) - m + i].close)
    BY <1>4, <1>7, <2>1, Zenon
  <2> QED
    BY <2>2, <2>3, Zenon
<1> QED
  BY <1>5, <1>6, <1>8 DEF near

\* The last of the newest bars is the last bar.
LEMMA LastOfNewest ==
    ASSUME NEW S, NEW s \in Seq(S), NEW m \in Nat \ {0}, m <= Len(s)
    PROVE  Last(Newest(s, m)) = Last(s)
<1>1. Newest(s, m) \in Seq(S) /\ Len(Newest(s, m)) = m /\ Len(s) \in Nat
  BY NewestIs
<1>2. Newest(s, m)[m] = s[Len(s)]
  <2>1. Newest(s, m)[m] = s[Len(s) - m + m] /\ Len(s) - m + m = Len(s)
    BY <1>1, NewestAt
  <2> QED
    BY <2>1
<1> QED
  BY <1>1, <1>2 DEF Last

\* A window over the newest closes that is no longer than they are.
LEMMA WindowOfNewest ==
    ASSUME NEW b \in Seq(ClosedBars), NEW m \in Nat, NEW n \in Nat \ {0}, n <= m, m <= Len(b)
    PROVE  /\ Newest(Closes(Newest(b, m)), n) = Newest(Closes(b), n)
           /\ Sma(Closes(Newest(b, m)), n) = Sma(Closes(b), n)
<1>1. Closes(Newest(b, m)) = Newest(Closes(b), m)
  BY ClosesOfNewest
<1>2. Closes(b) \in Seq(Positives) /\ Len(Closes(b)) = Len(b)
  BY ClosesAre
<1>3. Newest(Newest(Closes(b), m), n) = Newest(Closes(b), n)
  BY <1>2, NewestOfNewest
<1> QED
  BY <1>1, <1>3 DEF Sma

\* classify_regime reads no bar before its longest window.
LEMMA RegimeLooksBack ==
    ASSUME NEW b \in Seq(ClosedBars), NEW m \in Nat, MinBars <= m, m <= Len(b)
    PROVE  ClassifyRegime(Newest(b, m)) = ClassifyRegime(b)
<1> DEFINE c == Newest(b, m)
<1>1. /\ SlowWindow <= m /\ FastWindow <= m /\ VolatilityWindow + 1 <= m /\ ObvWindow <= m
      /\ SlowWindow \in Nat \ {0} /\ FastWindow \in Nat \ {0}
      /\ VolatilityWindow + 1 \in Nat \ {0} /\ ObvWindow \in Nat \ {0}
  BY WindowsAre
<1>2. /\ Sma(Closes(c), SlowWindow) = Sma(Closes(b), SlowWindow)
      /\ Sma(Closes(c), FastWindow) = Sma(Closes(b), FastWindow)
      /\ Newest(Closes(c), VolatilityWindow + 1) = Newest(Closes(b), VolatilityWindow + 1)
  BY <1>1, WindowOfNewest
<1>3. Newest(c, ObvWindow) = Newest(b, ObvWindow)
  BY <1>1, NewestOfNewest
<1> HIDE DEF c
<1>4. Metrics(c) = Metrics(b)
  BY <1>2, <1>3, Zenon DEF Metrics
<1> QED
  BY <1>4, Zenon DEF ClassifyRegime, c

\* The channel of the newest bars is the channel.
LEMMA ChannelLooksBack ==
    ASSUME NEW b \in Seq(ClosedBars), NEW m \in Nat, ChannelWindow + 1 <= m, m <= Len(b)
    PROVE  Channel(Newest(b, m)) = Channel(b)
<1> DEFINE c == Newest(b, m)
<1>1. ChannelWindow \in Nat \ {0} /\ m \in Nat \ {0} /\ Len(b) \in Nat
  BY StrategiesAssumption
<1>2. c \in Seq(ClosedBars) /\ Len(c) = m /\ \A i \in 1..m : c[i] = b[Len(b) - m + i]
  BY <1>1, NewestIs DEF Newest
<1> HIDE DEF c
<1>3. /\ Front(c) = SubSeq(c, 1, m - 1) /\ Front(b) = SubSeq(b, 1, Len(b) - 1)
      /\ Front(b) \in Seq(ClosedBars) /\ Len(Front(b)) = Len(b) - 1
      /\ Front(c) \in Seq(ClosedBars) /\ Len(Front(c)) = m - 1
  BY <1>1, <1>2 DEF Front
<1>4. /\ \A i \in 1..(m - 1) : Front(c)[i] = c[i]
      /\ \A i \in 1..(Len(b) - 1) : Front(b)[i] = b[i]
  BY <1>1, <1>2, <1>3
<1>5. Newest(Front(b), m - 1) \in Seq(ClosedBars) /\ Len(Newest(Front(b), m - 1)) = m - 1
  <2> DEFINE o == m - 1
  <2>1. o \in Nat \ {0} /\ o <= Len(Front(b))
    BY <1>1, <1>3
  <2> HIDE DEF o
  <2>2. Newest(Front(b), o) \in Seq(ClosedBars) /\ Len(Newest(Front(b), o)) = o
    BY <1>3, <2>1, NewestIs
  <2> QED
    BY <2>2 DEF o
<1>6. \A i \in 1..(m - 1) : Newest(Front(b), m - 1)[i] = Front(b)[Len(b) - m + i]
  <2> DEFINE o == m - 1
             f == Front(b)
  <2>1. /\ o \in Nat \ {0} /\ f \in Seq(ClosedBars) /\ o <= Len(f)
        /\ \A i \in 1..o : Len(f) - o + i = Len(b) - m + i
    BY <1>1, <1>3
  <2> HIDE DEF o, f
  <2>2. \A i \in 1..o : Newest(f, o)[i] = f[Len(f) - o + i]
    BY <2>1, NewestAt
  <2>3. \A i \in 1..o : Newest(f, o)[i] = f[Len(b) - m + i]
    <3> SUFFICES ASSUME NEW i \in 1..o PROVE Newest(f, o)[i] = f[Len(b) - m + i]
      OBVIOUS
    <3>1. Len(f) - o + i = Len(b) - m + i /\ Newest(f, o)[i] = f[Len(f) - o + i]
      BY <2>1, <2>2
    <3> QED
      BY <3>1, Zenon
  <2> QED
    BY <2>3, Zenon DEF o, f
<1>7. \A i \in 1..(m - 1) : Front(c)[i] = Newest(Front(b), m - 1)[i]
  <2> SUFFICES ASSUME NEW i \in 1..(m - 1) PROVE Front(c)[i] = Newest(Front(b), m - 1)[i]
    OBVIOUS
  <2>1. Len(b) - m + i \in 1..(Len(b) - 1) /\ i \in 1..m
    BY <1>1
  <2> QED
    BY <1>2, <1>4, <1>6, <2>1
<1>8. Front(c) = Newest(Front(b), m - 1)
  BY <1>3, <1>5, <1>7
<1>9. Newest(Front(c), ChannelWindow) = Newest(Front(b), ChannelWindow)
  <2> DEFINE o == m - 1
  <2>1. o \in Nat /\ ChannelWindow <= o /\ o <= Len(Front(b))
    BY <1>1, <1>3
  <2> HIDE DEF o
  <2>2. Newest(Newest(Front(b), o), ChannelWindow) = Newest(Front(b), ChannelWindow)
    BY <1>1, <1>3, <2>1, NewestOfNewest
  <2> QED
    BY <1>8, <2>2 DEF o
<1> QED
  BY <1>9, Zenon DEF Channel, c

\* Two proposals that give a position: the same direction and the same strength.
SameProposal(x, y) ==
    /\ x = NoCandidate <=> y = NoCandidate
    /\ x # NoCandidate => x.direction = y.direction /\ x.signalStrength = y.signalStrength

\* Whatever the strategy, the position it proposes is that of the newest bars:
\* the true range alone goes back to the first, and only the stop and the target
\* of a trend depend on it.
LEMMA GenerateLooksBack ==
    ASSUME NEW b \in Seq(ClosedBars), NEW m \in Nat, MinBars <= m, m <= Len(b),
           \A s \in Strategy : Window(s) <= MinBars,
           NEW s \in Strategy, NEW r
    PROVE  SameProposal(Generate(s, Newest(b, m), r), Generate(s, b, r))
<1> DEFINE c == Newest(b, m)
<1>1. BandWindow <= m /\ ChannelWindow + 1 <= m /\ SlowWindow <= m /\ FastWindow <= m
  <2>1. Window(MeanReversion) = BandWindow /\ Window(Breakout) = ChannelWindow + 1
    BY DEF Window, TrendFollowing, MeanReversion, Breakout
  <2>2. BandWindow <= MinBars /\ ChannelWindow + 1 <= MinBars
    BY <2>1, StrategiesAre
  <2> QED
    BY <2>2, WindowsAre, StrategiesAssumption
<1>2. /\ Sma(Closes(c), SlowWindow) = Sma(Closes(b), SlowWindow)
      /\ Sma(Closes(c), FastWindow) = Sma(Closes(b), FastWindow)
  BY <1>1, WindowsAre, WindowOfNewest
<1>3. Newest(Closes(c), BandWindow) = Newest(Closes(b), BandWindow)
  BY <1>1, StrategiesAssumption, WindowOfNewest
<1>4. Channel(c) = Channel(b)
  BY <1>1, ChannelLooksBack
<1>5. Entry(c) = Entry(b)
  <2>1. m \in Nat \ {0}
    BY <1>1, WindowsAre
  <2> QED
    BY <2>1, LastOfNewest DEF Entry
<1> HIDE DEF c
<1>6. /\ Generate(TrendFollowing, c, r) = GenerateTrendFollowing(c, r)
      /\ Generate(TrendFollowing, b, r) = GenerateTrendFollowing(b, r)
      /\ Generate(MeanReversion, c, r) = GenerateMeanReversion(c, r)
      /\ Generate(MeanReversion, b, r) = GenerateMeanReversion(b, r)
      /\ Generate(Breakout, c, r) = GenerateBreakout(c, r)
      /\ Generate(Breakout, b, r) = GenerateBreakout(b, r)
  BY DEF Generate, TrendFollowing, MeanReversion, Breakout
<1>7. CASE s = TrendFollowing
  <2> DEFINE fast == Sma(Closes(b), FastWindow)
             slow == Sma(Closes(b), SlowWindow)
             direction == CASE r.label = "BULLISH_TREND" /\ Below(slow, fast) -> "LONG"
                            [] r.label = "BEARISH_TREND" /\ Below(fast, slow) -> "SHORT"
                            [] OTHER -> "NONE"
  <2>1. /\ direction = "NONE" => GenerateTrendFollowing(b, r) = NoCandidate
        /\ direction # "NONE" =>
              /\ GenerateTrendFollowing(b, r).strategyId = TrendFollowing
              /\ GenerateTrendFollowing(b, r).direction = direction
              /\ GenerateTrendFollowing(b, r).signalStrength = r.confidence
    BY DEF GenerateTrendFollowing
  <2>2. /\ direction = "NONE" => GenerateTrendFollowing(c, r) = NoCandidate
        /\ direction # "NONE" =>
              /\ GenerateTrendFollowing(c, r).strategyId = TrendFollowing
              /\ GenerateTrendFollowing(c, r).direction = direction
              /\ GenerateTrendFollowing(c, r).signalStrength = r.confidence
    BY <1>2 DEF GenerateTrendFollowing
  <2>3. NoCandidate.strategyId # TrendFollowing
    BY DEF NoCandidate, TrendFollowing
  <2> HIDE DEF direction
  <2> QED
    BY <1>6, <1>7, <2>1, <2>2, <2>3 DEF SameProposal, c
<1>8. CASE s = MeanReversion
  <2>1. GenerateMeanReversion(c, r) = GenerateMeanReversion(b, r)
    <3> DEFINE Made(window, entry) ==
                 LET middle    == Mean(window)
                     distance  == Product(NumStd,
                                     Root(Share(SquaredDeviations(window), BandWindow), Steps))
                     width     == Times(2, distance)
                     direction == CASE Below(entry, Minus(middle, distance)) -> "LONG"
                                    [] Below(Plus(middle, distance), entry)  -> "SHORT"
                                    [] OTHER -> "NONE"
                     band      == Behind(middle, direction, distance)
                 IN  IF direction = "NONE" THEN NoCandidate
                     ELSE [strategyId |-> MeanReversion, regime |-> r.label,
                           direction |-> direction, entry |-> entry,
                           stop   |-> StopBeyondBand(band, direction, width),
                           target |-> middle,
                           signalStrength |-> IF Positive(width)
                                 THEN Capped(Over(Absolute(Minus(entry, band)), width))
                                 ELSE Whole(0),
                           expectedEdge |-> Over(Absolute(Minus(middle, entry)), entry)]
    <3>1. /\ GenerateMeanReversion(c, r) = Made(Newest(Closes(c), BandWindow), Entry(c))
          /\ GenerateMeanReversion(b, r) = Made(Newest(Closes(b), BandWindow), Entry(b))
      BY Zenon DEF GenerateMeanReversion
    <3> HIDE DEF Made
    <3> QED
      BY <1>3, <1>5, <3>1
  <2> QED
    BY <1>6, <1>8, <2>1 DEF SameProposal, c
<1>9. CASE s = Breakout
  <2>1. GenerateBreakout(c, r) = GenerateBreakout(b, r)
    BY <1>4, <1>5, Zenon DEF GenerateBreakout
  <2> QED
    BY <1>6, <1>9, <2>1 DEF SameProposal, c
<1> QED
  BY <1>7, <1>8, <1>9, StrategiesAre DEF c

\* The entries of two sequences put together.
LEMMA ToSetOfConcat ==
    ASSUME NEW S, NEW p \in Seq(S), NEW q \in Seq(S)
    PROVE  p \o q \in Seq(S) /\ ToSet(p \o q) = ToSet(p) \cup ToSet(q)
<1> DEFINE both == p \o q
<1>1. /\ both \in Seq(S) /\ Len(both) = Len(p) + Len(q) /\ Len(p) \in Nat /\ Len(q) \in Nat
      /\ \A i \in 1..Len(p) : both[i] = p[i]
      /\ \A i \in 1..Len(q) : both[Len(p) + i] = q[i]
  OBVIOUS
<1> HIDE DEF both
<1>2. /\ DOMAIN both = 1..(Len(p) + Len(q)) /\ DOMAIN p = 1..Len(p) /\ DOMAIN q = 1..Len(q)
  BY <1>1
<1>3. ToSet(both) \subseteq ToSet(p) \cup ToSet(q)
  <2> SUFFICES ASSUME NEW i \in DOMAIN both PROVE both[i] \in ToSet(p) \cup ToSet(q)
    BY DEF ToSet
  <2>1. CASE i <= Len(p)
    BY <1>1, <1>2, <2>1 DEF ToSet
  <2>2. CASE ~(i <= Len(p))
    <3>1. i - Len(p) \in 1..Len(q) /\ Len(p) + (i - Len(p)) = i
      BY <1>1, <1>2, <2>2
    <3> QED
      BY <1>1, <1>2, <3>1 DEF ToSet
  <2> QED
    BY <2>1, <2>2
<1>4. ToSet(p) \subseteq ToSet(both)
  BY <1>1, <1>2 DEF ToSet
<1>5. ToSet(q) \subseteq ToSet(both)
  <2> SUFFICES ASSUME NEW i \in DOMAIN q PROVE q[i] \in ToSet(both)
    BY DEF ToSet
  <2>1. Len(p) + i \in DOMAIN both /\ both[Len(p) + i] = q[i]
    BY <1>1, <1>2
  <2> QED
    BY <2>1 DEF ToSet
<1> QED
  BY <1>1, <1>3, <1>4, <1>5 DEF both

\* Of the candidates of a run those of one strategy: its proposal, if the
\* regime allows it to make one.
LEMMA CandidatesOfStrategy ==
    ASSUME NEW b \in Seq(ClosedBars), Len(b) >= MinBars, NEW r, RegimeSound(r),
           \A s \in Strategy : Window(s) <= MinBars,
           NEW s \in Strategy
    PROVE  {c \in ToSet(RunStrategies(b, r)) : c.strategyId = s} =
                IF r.label \in allowed_regimes[s] /\ Generate(s, b, r) # NoCandidate
                THEN {Generate(s, b, r)} ELSE {}
<1> DEFINE Put(x) == IF r.label \in allowed_regimes[x] /\ Generate(x, b, r) # NoCandidate
                     THEN {Generate(x, b, r)} ELSE {}
<1>1. ASSUME NEW x \in Strategy
      PROVE  /\ Asked(x, b, r) \in Seq(Put(x)) /\ ToSet(Asked(x, b, r)) = Put(x)
             /\ \A c \in Put(x) : c.strategyId = x
  <2> DEFINE g == Generate(x, b, r)
  <2>1. g = NoCandidate \/ g.strategyId = x
    BY GeneratedIs DEF Offered
  <2>2. Asked(x, b, r) = IF r.label \in allowed_regimes[x] /\ g # NoCandidate
                         THEN <<g>> ELSE << >>
    BY DEF Asked, Proposed
  <2>3. Put(x) = IF r.label \in allowed_regimes[x] /\ g # NoCandidate THEN {g} ELSE {}
    OBVIOUS
  <2> HIDE DEF g, Put
  <2>4. << >> \in Seq({}) /\ ToSet(<< >>) = {} /\ <<g>> \in Seq({g}) /\ ToSet(<<g>>) = {g}
    <3>1. << >> \in Seq({}) /\ <<g>> \in Seq({g})
      OBVIOUS
    <3>2. DOMAIN << >> = {} /\ DOMAIN <<g>> = {1} /\ <<g>>[1] = g
      OBVIOUS
    <3> QED
      BY <3>1, <3>2 DEF ToSet
  <2> QED
    BY <2>1, <2>2, <2>3, <2>4
<1> DEFINE t == Asked(TrendFollowing, b, r)
           m == Asked(MeanReversion, b, r)
           k == Asked(Breakout, b, r)
           U == Put(TrendFollowing) \cup Put(MeanReversion) \cup Put(Breakout)
<1>2. /\ t \in Seq(Put(TrendFollowing)) /\ ToSet(t) = Put(TrendFollowing)
      /\ m \in Seq(Put(MeanReversion)) /\ ToSet(m) = Put(MeanReversion)
      /\ k \in Seq(Put(Breakout)) /\ ToSet(k) = Put(Breakout)
      /\ \A x \in Strategy : \A c \in Put(x) : c.strategyId = x
  BY <1>1, StrategiesAre
<1>3. RunStrategies(b, r) = t \o m \o k
  BY DEF RunStrategies
<1> HIDE DEF t, m, k, Put
<1>4. ToSet(t \o m \o k) = U
  <2>1. t \in Seq(U) /\ m \in Seq(U) /\ k \in Seq(U)
    BY <1>2
  <2> HIDE DEF U
  <2>2. \A p, q \in Seq(U) : p \o q \in Seq(U) /\ ToSet(p \o q) = ToSet(p) \cup ToSet(q)
    BY ToSetOfConcat
  <2>3. t \o m \in Seq(U) /\ ToSet(t \o m) = ToSet(t) \cup ToSet(m)
    BY <2>1, <2>2
  <2>4. ToSet((t \o m) \o k) = ToSet(t \o m) \cup ToSet(k)
    BY <2>1, <2>2, <2>3
  <2> QED
    BY <1>2, <2>3, <2>4 DEF U
<1>5. Put(s) \subseteq U
  BY StrategiesAre
<1>6. {c \in U : c.strategyId = s} = Put(s)
  <2>1. \A c \in U : \E x \in Strategy : c \in Put(x)
    BY StrategiesAre
  <2> HIDE DEF U
  <2> QED
    BY <1>2, <1>5, <2>1
<1> QED
  BY <1>3, <1>4, <1>6 DEF Put

=============================================================================
