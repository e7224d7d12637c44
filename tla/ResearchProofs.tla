---------------------------- MODULE ResearchProofs ----------------------------
(***************************************************************************)
(* Theorems about the research run: what it commits, for any number of     *)
(* runs, failures and symbols, and what a walk holds, earns and records,   *)
(* for every series of bars and every threshold.                           *)
(***************************************************************************)
EXTENDS Research, StrategyLemmas

-----------------------------------------------------------------------------
(* Positions and equities                                                  *)

\* The strategies as research_runner takes them, one after the other.
LEMMA IdsAre ==
    /\ DOMAIN StrategyIds = 1..3 /\ Len(StrategyIds) = 3
    /\ Strategy = {StrategyIds[j] : j \in 1..3}
    /\ \A j \in 1..3 : StrategyIds[j] \in Strategy
    /\ \A s \in Strategy : Window(s) <= MinBars
<1>1. DOMAIN StrategyIds = 1..3 /\ Len(StrategyIds) = 3
  BY DEF StrategyIds
<1>2. Strategy = {StrategyIds[j] : j \in 1..3}
  BY <1>1 DEF Strategy, ToSet
<1>3. \A s \in Strategy : Window(s) <= MinBars
  BY ResearchAssumption
<1> QED
  BY <1>1, <1>2, <1>3

\* The windows of the strategies are numbers.
LEMMA WindowTypes == \A s \in Strategy : Window(s) \in Nat
<1>1. /\ SlowWindow \in Nat /\ AtrWindow \in Nat /\ BandWindow \in Nat /\ ChannelWindow \in Nat
  BY WindowsAre, StrategiesAssumption
<1>2. /\ Window(TrendFollowing) \in Nat /\ Window(MeanReversion) \in Nat /\ Window(Breakout) \in Nat
  BY <1>1 DEF Window, TrendFollowing, MeanReversion, Breakout
<1> QED
  BY <1>2, StrategiesAre

\* A strength rounded to a multiple of 1 / Grain stays in [0, 1].
LEMMA RoundedIs ==
    ASSUME NEW a \in Rational, UnitInterval(a)
    PROVE  Rounded(a) \in Rational /\ UnitInterval(Rounded(a))
<1> DEFINE N == 2 * a.n * Grain + a.d
           D == 2 * a.d
           q == N \div D
<1>1. a.n \in Int /\ a.d \in Nat \ {0} /\ a = Frac(a.n, a.d) /\ Grain \in Nat \ {0}
  BY RationalIsFrac, BacktestAssumption
<1>2. 0 <= a.n /\ a.n <= a.d
  <2>1. UnitInterval(Frac(a.n, a.d)) <=> 0 <= a.n /\ a.n <= a.d
    BY <1>1, UnitFrac
  <2> QED
    BY <1>1, <2>1
<1>3. a.n * Grain \in Nat /\ a.n * Grain <= a.d * Grain /\ a.d * Grain \in Nat
  BY <1>1, <1>2
<1>4. N \in Nat /\ D \in Nat \ {0} /\ N < D * (Grain + 1)
  <2>1. D * (Grain + 1) = 2 * (a.d * Grain) + 2 * a.d
    BY <1>1
  <2>2. N = 2 * (a.n * Grain) + a.d
    BY <1>1
  <2> QED
    BY <1>1, <1>3, <2>1, <2>2
<1> HIDE DEF N, D
<1>5. q \in Nat /\ D * q <= N
  BY <1>4
<1>6. q <= Grain
  <2> SUFFICES ASSUME q >= Grain + 1 PROVE FALSE
    BY <1>1, <1>5
  <2>1. D * q >= D * (Grain + 1)
    BY <1>1, <1>4, <1>5
  <2>2. D * (Grain + 1) \in Int /\ D * q \in Int
    BY <1>1, <1>4, <1>5
  <2> QED
    BY <1>4, <1>5, <2>1, <2>2
<1>7. Rounded(a) = Frac(q, Grain)
  BY Zenon DEF Rounded, N, D
<1> HIDE DEF q
<1>8. Frac(q, Grain) \in Rational /\ (UnitInterval(Frac(q, Grain)) <=> 0 <= q /\ q <= Grain)
  BY <1>1, <1>5, UnitFrac
<1> QED
  BY <1>5, <1>6, <1>7, <1>8

\* A position of at most one unit, long or short.
Bounded(a) == a \in Rational /\ AtMost(Absolute(a), Whole(1))

\* A strength in [0, 1] is a position of at most one unit in either direction.
LEMMA SignedIs ==
    ASSUME NEW a \in Rational, UnitInterval(a), NEW sign \in {1, -1}
    PROVE  Bounded(Times(sign, a))
<1>1. a.n \in Int /\ a.d \in Nat \ {0} /\ a = Frac(a.n, a.d)
  BY RationalIsFrac
<1>2. 0 <= a.n /\ a.n <= a.d
  <2>1. UnitInterval(Frac(a.n, a.d)) <=> 0 <= a.n /\ a.n <= a.d
    BY <1>1, UnitFrac
  <2> QED
    BY <1>1, <2>1
<1> DEFINE x == a.n
           d == a.d
           y == sign * x
<1>3. sign \in Int /\ x \in Nat /\ d \in Nat \ {0} /\ y \in Int
  BY <1>1, <1>2
<1>4. Magnitude(y) = x
  BY <1>3 DEF Magnitude
<1> HIDE DEF x, d
<1>5. Times(sign, a) = Frac(y, d)
  <2>1. Times(sign, Frac(x, d)) = Frac(sign * x, d)
    BY <1>3, TimesOverOne
  <2> QED
    BY <1>1, <2>1 DEF x, d
<1> HIDE DEF y
<1>6. Absolute(Frac(y, d)) = Frac(x, d)
  BY <1>3, <1>4, AbsOverOne
<1>7. Frac(y, d) \in Rational
  BY <1>3, FracIs
<1>8. AtMost(Frac(x, d), Whole(1))
  BY <1>1 DEF UnitInterval, x, d
<1> QED
  BY <1>5, <1>6, <1>7, <1>8 DEF Bounded

\* No position at all.
LEMMA FlatIs == Bounded(Whole(0))
<1>1. UnitInterval(Frac(0, 1)) /\ Frac(0, 1) \in Rational
  BY UnitFrac
<1>2. Whole(0) = Frac(0 * 1, 1) /\ Whole(0) \in Rational
  BY WholeIs
<1>3. UnitInterval(Whole(0))
  BY <1>1, <1>2
<1>4. Absolute(Whole(0)) = Whole(0)
  BY DEF Absolute, Whole, Magnitude
<1> QED
  BY <1>2, <1>3, <1>4 DEF Bounded, UnitInterval

\* Whatever the bars, a strategy holds at most one unit.
LEMMA PositionIs ==
    ASSUME NEW s \in Strategy, NEW b \in Seq(ClosedBars)
    PROVE  Bounded(PositionFn(s, b))
<1> DEFINE r == ClassifyRegime(b)
           g == Generate(s, b, r)
<1>1. \/ PositionFn(s, b) = Whole(0)
      \/ Len(b) >= MinBars /\ PositionFn(s, b) = Signal(g)
  <2>1. Len(b) \in Int /\ MinBars \in Int
    BY WindowsAre
  <2>2. ~(Len(b) < MinBars) => Len(b) >= MinBars
    BY <2>1
  <2> QED
    BY <2>2, Zenon DEF PositionFn
<1>2. ASSUME Len(b) >= MinBars
      PROVE  Bounded(Signal(g))
  <2>1. RegimeSound(r)
    BY <1>2, RegimeIsSound
  <2> HIDE DEF r
  <2>2. g = NoCandidate \/ Offered(g, s, r)
    BY <1>2, <2>1, IdsAre, GeneratedIs
  <2> HIDE DEF g
  <2>3. CASE g = NoCandidate
    BY <2>3, FlatIs DEF Signal
  <2>4. CASE g # NoCandidate
    <3>1. Rounded(g.signalStrength) \in Rational /\ UnitInterval(Rounded(g.signalStrength))
      BY <2>2, <2>4, RoundedIs DEF Offered
    <3>2. \E sign \in {1, -1} : Signal(g) = Times(sign, Rounded(g.signalStrength))
      BY <2>4 DEF Signal
    <3> QED
      BY <3>1, <3>2, SignedIs
  <2> QED
    BY <2>3, <2>4
<1> QED
  BY <1>1, <1>2, FlatIs

\* The equity after one more bar is a fraction.
LEMMA NextEquityType ==
    ASSUME NEW equity \in Rational, NEW position \in Rational, NEW signal \in Rational,
           NEW from \in Nat \ {0}, NEW to \in Nat \ {0}
    PROVE  NextEquity(equity, position, signal, from, to) \in Rational
<1> DEFINE bar_return == Minus(Over(Whole(to), Whole(from)), Whole(1))
           cost == Cost(Absolute(Minus(signal, position)))
<1>1. Whole(to) \in Positives /\ Whole(from) \in Positives
  <2>1. from \in Int /\ to \in Int
    OBVIOUS
  <2>2. Whole(to) \in Rational /\ Whole(from) \in Rational
    BY <2>1, WholeIs
  <2> QED
    BY <2>2 DEF Whole, Positives
<1>2. Whole(1) \in Rational
  BY SmallFractions
<1>3. bar_return \in Rational
  BY <1>1, <1>2, OverTypes, PlusTypes, SmallFractions
<1>4. CostRate \in Rational
  BY BacktestAssumption, FractionsAre
<1>5. cost \in Rational
  <2>1. Absolute(Minus(signal, position)) \in Rational
    BY PlusTypes, AbsTypes, SmallFractions
  <2> QED
    BY <1>4, <2>1, ProductTypes DEF Cost
<1> HIDE DEF bar_return, cost
<1>6. /\ Plus(Whole(1), Product(signal, bar_return)) \in Rational
      /\ Minus(Whole(1), cost) \in Rational
  BY <1>2, <1>3, <1>5, PlusTypes, ProductTypes
<1>7. Product(equity, Product(Plus(Whole(1), Product(signal, bar_return)),
                              Minus(Whole(1), cost))) \in Rational
  BY <1>6, ProductTypes
<1> QED
  BY <1>7 DEF NextEquity, bar_return, cost

-----------------------------------------------------------------------------
(* The bars of a run                                                       *)

\* In a finite set of numbers there is one for every number of greater ones.
LEMMA RankExists ==
    ASSUME NEW S \in SUBSET Nat, IsFiniteSet(S), NEW m \in Nat, m < Cardinality(S)
    PROVE  \E j \in S : Cardinality({x \in S : x > j}) = m
<1> DEFINE Above(s, j) == {x \in s : x > j}
           Ranked(s) == \A i \in Nat : i < Cardinality(s) => \E j \in s : Cardinality(Above(s, j)) = i
           T == {s \in SUBSET S : ~Ranked(s)}
<1>1. ASSUME T # {} PROVE FALSE
  <2>1. T \in SUBSET SUBSET S
    OBVIOUS
  <2>2. PICK s \in T : \A t \in SUBSET s : t # s => t \notin T
    <3> HIDE DEF T
    <3> QED
      BY <1>1, <2>1, MinimalSubset
  <2>3. s \in SUBSET S /\ ~Ranked(s)
    BY <2>2
  <2>4. PICK i \in Nat : i < Cardinality(s) /\ \A j \in s : Cardinality(Above(s, j)) # i
    BY <2>3
  <2>5. IsFiniteSet(s) /\ Cardinality(s) \in Nat /\ s \in SUBSET Nat
    BY <2>3, FS_Subset, FS_CardinalityType
  <2>6. s # {}
    BY <2>4, <2>5, FS_EmptySet
  <2>7. PICK a \in s : \A y \in s : y <= a
    BY <2>5, <2>6, FiniteExtremes
  <2> DEFINE r == s \ {a}
  <2>8. /\ r \in SUBSET s /\ r # s /\ a \notin r /\ IsFiniteSet(r)
        /\ Cardinality(r) = Cardinality(s) - 1 /\ Ranked(r)
    <3>1. r \in SUBSET s /\ r # s /\ a \notin r
      BY <2>7
    <3>2. IsFiniteSet(r) /\ Cardinality(r) = Cardinality(s) - 1
      BY <2>5, <2>7, FS_RemoveElement
    <3>3. r \notin T /\ r \in SUBSET S
      BY <2>2, <2>3, <3>1
    <3> QED
      BY <3>1, <3>2, <3>3
  <2>9. CASE i = 0
    <3>1. Above(s, a) = {}
      <4> SUFFICES ASSUME NEW x \in s, x > a PROVE FALSE
        OBVIOUS
      <4>1. x \in Nat /\ a \in Nat /\ x <= a
        BY <2>5, <2>7
      <4> QED
        BY <4>1
    <3>2. Cardinality({}) = 0
      BY FS_EmptySet
    <3> QED
      BY <2>4, <2>7, <2>9, <3>1, <3>2
  <2>10. CASE i # 0
    <3>1. i - 1 \in Nat /\ i - 1 < Cardinality(r)
      BY <2>4, <2>5, <2>8, <2>10
    <3>2. PICK j \in r : Cardinality(Above(r, j)) = i - 1
      BY <2>8, <3>1
    <3>3. j \in s /\ j < a
      <4>1. j \in s /\ j # a /\ j <= a /\ j \in Nat /\ a \in Nat
        BY <2>5, <2>7, <2>8, <3>2
      <4> QED
        BY <4>1
    <3>4. Above(s, j) = Above(r, j) \cup {a} /\ a \notin Above(r, j)
      BY <2>7, <2>8, <3>3
    <3>5. IsFiniteSet(Above(r, j))
      <4>1. Above(r, j) \in SUBSET r
        OBVIOUS
      <4> QED
        BY <2>8, <4>1, FS_Subset
    <3> DEFINE A == Above(r, j)
    <3>6. A \cup {a} = Above(s, j) /\ a \notin A /\ IsFiniteSet(A) /\ Cardinality(A) = i - 1
      BY <3>2, <3>4, <3>5
    <3> HIDE DEF A
    <3>7. Cardinality(A \cup {a}) = Cardinality(A) + 1
      BY <3>6, FS_AddElement
    <3>8. Cardinality(Above(s, j)) = i
      <4> HIDE DEF Above
      <4>1. Cardinality(Above(s, j)) = Cardinality(A) + 1
        BY <3>6, <3>7
      <4> QED
        BY <2>4, <3>6, <4>1
    <3>9. Cardinality(Above(s, j)) # i
      <4> HIDE DEF Above
      <4> QED
        BY <2>4, <3>3
    <3> QED
      BY <3>8, <3>9
  <2> QED
    BY <2>9, <2>10
<1>2. S \notin T
  BY <1>1
<1>3. Ranked(S)
  BY <1>2
<1> QED
  BY <1>3

\* fetch_all_ohlcv returns the prices of closed bars, no more than MAX_BARS.
LEMMA FetchedAre ==
    ASSUME NEW s \in Symbol, ohlcv \in [Symbol -> Seq(StoredBars)]
    PROVE  FetchAllOhlcv(s) \in Seq(ClosedBars) /\ Len(FetchAllOhlcv(s)) <= MaxBars
<1> DEFINE table  == ohlcv[s]
           usable == {i \in DOMAIN ohlcv[s] : ~ohlcv[s][i].rejected}
           size   == IF Cardinality(usable) < MaxBars THEN Cardinality(usable) ELSE MaxBars
           at(i)  == CHOOSE j \in usable : Cardinality({x \in usable : x > j}) = size - i
<1>1. FetchAllOhlcv(s) = [i \in 1..size |-> Price(ohlcv[s][at(i)])]
  BY Zenon DEF FetchAllOhlcv
<1>2. table \in Seq(StoredBars) /\ DOMAIN table = 1..Len(table) /\ Len(table) \in Nat
  OBVIOUS
<1>3. usable \in SUBSET Nat /\ IsFiniteSet(usable) /\ usable \subseteq DOMAIN table
  <2>1. usable \in SUBSET (1..Len(table))
    BY <1>2
  <2>2. IsFiniteSet(1..Len(table))
    BY <1>2, FS_Interval
  <2> HIDE DEF usable, table
  <2>3. IsFiniteSet(usable)
    BY <2>1, <2>2, FS_Subset
  <2> QED
    BY <1>2, <2>1, <2>3
<1>4. \A j \in usable : Price(table[j]) \in ClosedBars
  <2> SUFFICES ASSUME NEW j \in usable PROVE Price(table[j]) \in ClosedBars
    OBVIOUS
  <2>1. table[j] \in StoredBars /\ ~table[j].rejected
    BY <1>2
  <2> HIDE DEF table
  <2> QED
    BY <2>1 DEF StoredBars, Price, ClosedBars
<1> HIDE DEF usable
<1>5. Cardinality(usable) \in Nat /\ MaxBars \in Nat
  BY <1>3, FS_CardinalityType, ResearchAssumption
<1>6. size \in Nat /\ size <= Cardinality(usable) /\ size <= MaxBars
  BY <1>5
<1> HIDE DEF size
<1>7. ASSUME NEW i \in 1..size
      PROVE  at(i) \in usable
  <2> DEFINE m == size - i
  <2>1. m \in Nat /\ m < Cardinality(usable)
    BY <1>5, <1>6, <1>7
  <2> HIDE DEF m
  <2>2. \E j \in usable : Cardinality({x \in usable : x > j}) = m
    BY <1>3, <2>1, RankExists
  <2>3. at(i) = CHOOSE j \in usable : Cardinality({x \in usable : x > j}) = m
    BY DEF m
  <2> HIDE DEF at
  <2> QED
    BY <2>2, <2>3
<1> HIDE DEF at
<1>8. \A i \in 1..size : Price(ohlcv[s][at(i)]) \in ClosedBars
  BY <1>4, <1>7 DEF table
<1>9. [i \in 1..size |-> Price(ohlcv[s][at(i)])] \in [1..size -> ClosedBars]
  BY <1>8
<1> DEFINE f == [i \in 1..size |-> Price(ohlcv[s][at(i)])]
<1> HIDE DEF f
<1>10. f \in Seq(ClosedBars) /\ Len(f) = size
  <2>1. f \in [1..size -> ClosedBars]
    BY <1>9 DEF f
  <2> QED
    BY <1>6, <2>1
<1> QED
  BY <1>1, <1>6, <1>10 DEF f

-----------------------------------------------------------------------------
(* The run                                                                 *)

\* Where the run is.  It walks over a symbol of the list, over enough bars.
PlaceIs ==
    /\ step \in {"idle", "fetch", "walk"} /\ run \in 0..MaxRuns
    /\ n \in 1..(Len(Symbols) + 1) /\ k \in 1..3
    /\ step = "fetch" => k = 1
    /\ step = "walk" => n \in DOMAIN Symbols /\ Len(bars) >= MinBarsToRun
    /\ step = "idle" => inserted = {}

\* What ingestion stores, and what the walk works on: each position is that of
\* the bars up to then.
StoreIs ==
    /\ ohlcv \in [Symbol -> Seq(StoredBars)] /\ arriving \in [Symbol -> Seq(StoredBars)]

WalkIs ==
    /\ bars \in Seq(ClosedBars) /\ Len(bars) <= MaxBars
    /\ curve \in Seq(Rational) /\ held \in Seq(Rational)
    /\ step = "walk" => Len(held) + 1 = Len(curve) /\ Len(curve) <= Len(bars)
    /\ step # "walk" => held = << >>
    /\ \A i \in DOMAIN held : held[i] = PositionFn(StrategyIds[k], SubSeq(bars, 1, i))

\* Of the rows R those of a run and symbol are of all strategies and over the
\* same bars, as the rows of the table are to be.
Comparable(R, row) ==
    LET together == {other \in R : other.run = row.run /\ other.symbol = row.symbol}
    IN  /\ {other.strategyId : other \in together} = Strategy
        /\ \A other \in together : other.dataset = row.dataset
        /\ Len(row.dataset) >= MinBarsToRun

\* The rows of the symbol the run walks over, and whether a row is one of them.
Current(row) == step = "walk" /\ row.symbol = Symbols[n]

\* The rows of the open transaction are comparable, those of the symbol it is at
\* excepted: they are those of the strategies before the present one.
InsertedIs ==
    /\ \A row \in inserted :
        /\ row.run = run
        /\ \E i \in DOMAIN Symbols : row.symbol = Symbols[i] /\ (i < n \/ Current(row))
        /\ Current(row) \/ Comparable(inserted, row)
    /\ step = "walk" =>
        LET now == {row \in inserted : row.symbol = Symbols[n]}
        IN  /\ {row.strategyId : row \in now} = {StrategyIds[j] : j \in 1..(k - 1)}
            /\ \A row \in now : row.dataset = bars

\* The committed rows are of runs that have ended.
CommittedAre ==
    \A row \in backtests :
        /\ row.run \in Int /\ row.run <= run /\ (step # "idle" => row.run < run)
        /\ Comparable(backtests, row)

\* The inductive invariant.
ResearchInv == StoreIs /\ PlaceIs /\ WalkIs /\ InsertedIs /\ CommittedAre

\* RowsAreComparable says the same of the rows of the table.
LEMMA ComparableRows ==
    (\A row \in backtests : Comparable(backtests, row)) => RowsAreComparable
BY DEF Comparable, RowsAreComparable

\* Rows of another run or symbol make no difference.
LEMMA OthersDoNotMatter ==
    ASSUME NEW R, NEW Q, NEW row, Comparable(R, row),
           \A other \in Q \ R : other.run # row.run \/ other.symbol # row.symbol,
           R \subseteq Q
    PROVE  Comparable(Q, row)
<1>1. {other \in Q : other.run = row.run /\ other.symbol = row.symbol}
        = {other \in R : other.run = row.run /\ other.symbol = row.symbol}
  OBVIOUS
<1> QED
  BY <1>1, Zenon DEF Comparable

\* Where no symbol occurs twice, an index stands for its symbol.
LEMMA SymbolsDiffer ==
    /\ Len(Symbols) \in Nat /\ DOMAIN Symbols = 1..Len(Symbols)
    /\ \A i \in DOMAIN Symbols : Symbols[i] \in Symbol
    /\ \A i, j \in DOMAIN Symbols : Symbols[i] = Symbols[j] => i = j
<1>1. Symbols \in Seq(Symbol) /\ IsInjective(Symbols)
  BY ResearchAssumption
<1> QED
  BY <1>1 DEF IsInjective

\* Before the first run there is nothing.
LEMMA InitResearch == Init => ResearchInv
<1> SUFFICES ASSUME Init PROVE ResearchInv
  OBVIOUS
<1>1. StoreIs
  <2>1. PICK history \in Histories :
           /\ ohlcv = [s \in Symbol |-> history[s].stored]
           /\ arriving = [s \in Symbol |-> history[s].arriving]
    BY DEF Init
  <2>2. history \in [Symbol -> [stored : Seq(StoredBars), arriving : Seq(StoredBars)]]
    BY <2>1, ResearchAssumption
  <2> QED
    BY <2>1, <2>2 DEF StoreIs
<1>2. PlaceIs
  BY SymbolsDiffer, ResearchAssumption DEF Init, PlaceIs
<1>3. WalkIs
  <2>1. << >> \in Seq(ClosedBars) /\ << >> \in Seq(Rational) /\ Len(<< >>) = 0 /\ DOMAIN << >> = {}
    OBVIOUS
  <2>2. MaxBars \in Nat
    BY ResearchAssumption
  <2> QED
    BY <2>1, <2>2 DEF Init, WalkIs
<1> QED
  BY <1>1, <1>2, <1>3 DEF Init, ResearchInv, InsertedIs, CommittedAre

\* Whatever of the walk's progress is unchanged keeps its part.
LEMMA StoreKept == StoreIs /\ UNCHANGED <<ohlcv, arriving>> => StoreIs'
BY DEF StoreIs

LEMMA RowsKept ==
    InsertedIs /\ CommittedAre /\ UNCHANGED <<backtests, inserted, run, step, place, bars>>
        => InsertedIs' /\ CommittedAre'
BY DEF InsertedIs, CommittedAre, Comparable, Current, place

\* A rolled back transaction leaves nothing of it behind.
LEMMA RollBackKeeps == ResearchInv /\ RollBack => ResearchInv'
<1> SUFFICES ASSUME ResearchInv, RollBack PROVE ResearchInv'
  OBVIOUS
<1>1. /\ step' = "idle" /\ inserted' = {} /\ bars' = << >> /\ held' = << >> /\ curve' = << >>
      /\ ohlcv' = ohlcv /\ arriving' = arriving /\ backtests' = backtests
      /\ run' = run /\ n' = n /\ k' = k
  BY DEF RollBack, tables, place
<1>2. StoreIs'
  BY <1>1, StoreKept DEF ResearchInv
<1>3. PlaceIs'
  BY <1>1 DEF ResearchInv, PlaceIs
<1>4. WalkIs'
  <2>1. << >> \in Seq(ClosedBars) /\ << >> \in Seq(Rational) /\ Len(<< >>) = 0 /\ DOMAIN << >> = {}
    OBVIOUS
  <2>2. MaxBars \in Nat
    BY ResearchAssumption
  <2> QED
    BY <1>1, <2>1, <2>2 DEF WalkIs
<1>5. InsertedIs' /\ CommittedAre'
  BY <1>1 DEF ResearchInv, InsertedIs, CommittedAre, Comparable
<1> QED
  BY <1>2, <1>3, <1>4, <1>5 DEF ResearchInv

\* Ingestion touches nothing of the run.
LEMMA StoreBarKeeps == ASSUME ResearchInv, NEW s \in Symbol, StoreBar(s) PROVE ResearchInv'
<1>1. /\ arriving[s] # << >>
      /\ ohlcv' = [ohlcv EXCEPT ![s] = Append(@, Head(arriving[s]))]
      /\ arriving' = [arriving EXCEPT ![s] = Tail(@)]
      /\ UNCHANGED <<backtests, inserted, run, step, n, k, bars, held, curve>>
  BY DEF StoreBar, place, walk
<1>2. StoreIs'
  <2>1. ohlcv \in [Symbol -> Seq(StoredBars)] /\ arriving \in [Symbol -> Seq(StoredBars)]
    BY DEF ResearchInv, StoreIs
  <2>2. ohlcv[s] \in Seq(StoredBars) /\ arriving[s] \in Seq(StoredBars)
    BY <2>1
  <2>3. Head(arriving[s]) \in StoredBars /\ Tail(arriving[s]) \in Seq(StoredBars)
    BY <1>1, <2>2
  <2>4. Append(ohlcv[s], Head(arriving[s])) \in Seq(StoredBars)
    BY <2>2, <2>3
  <2> QED
    BY <1>1, <2>1, <2>3, <2>4 DEF StoreIs
<1>3. PlaceIs' /\ WalkIs'
  BY <1>1 DEF ResearchInv, PlaceIs, WalkIs
<1>4. InsertedIs' /\ CommittedAre'
  BY <1>1, RowsKept DEF ResearchInv, place
<1> QED
  BY <1>2, <1>3, <1>4 DEF ResearchInv

\* A run begins with an empty transaction.
LEMMA StartKeeps == ResearchInv /\ Start => ResearchInv'
<1> SUFFICES ASSUME ResearchInv, Start PROVE ResearchInv'
  OBVIOUS
<1>1. /\ step = "idle" /\ run < MaxRuns
      /\ run' = run + 1 /\ step' = "fetch" /\ n' = 1 /\ k' = 1
      /\ UNCHANGED <<ohlcv, arriving, backtests, inserted, bars, held, curve>>
  BY DEF Start, tables, walk
<1>2. /\ run \in Nat /\ inserted = {} /\ held = << >> /\ DOMAIN << >> = {}
  <2>1. DOMAIN << >> = {}
    OBVIOUS
  <2>2. MaxRuns \in Nat
    BY ResearchAssumption
  <2> QED
    BY <1>1, <2>1, <2>2 DEF ResearchInv, PlaceIs, WalkIs
<1>3. StoreIs'
  BY <1>1, StoreKept DEF ResearchInv
<1>4. PlaceIs'
  BY <1>1, <1>2, SymbolsDiffer, ResearchAssumption DEF ResearchInv, PlaceIs
<1>5. WalkIs'
  BY <1>1, <1>2 DEF ResearchInv, WalkIs
<1>6. InsertedIs'
  BY <1>1, <1>2 DEF InsertedIs
<1>7. CommittedAre'
  <2> SUFFICES ASSUME NEW row \in backtests
               PROVE  row.run \in Int /\ row.run < run + 1 /\ Comparable(backtests, row)
    BY <1>1, <1>2 DEF CommittedAre, Comparable
  <2>1. row.run \in Int /\ row.run <= run /\ Comparable(backtests, row)
    BY DEF ResearchInv, CommittedAre
  <2> QED
    BY <1>2, <2>1
<1> QED
  BY <1>3, <1>4, <1>5, <1>6, <1>7 DEF ResearchInv

\* The next symbol has no rows of this run yet.
LEMMA FetchKeeps == ResearchInv /\ Fetch => ResearchInv'
<1> SUFFICES ASSUME ResearchInv, Fetch PROVE ResearchInv'
  OBVIOUS
<1> DEFINE fetched == FetchAllOhlcv(Symbols[n])
<1>1. /\ step = "fetch" /\ n <= Len(Symbols)
      /\ UNCHANGED <<ohlcv, arriving, backtests, inserted, run, k>>
      /\ \/ n' = n + 1 /\ UNCHANGED <<step, bars, held, curve>>
         \/ /\ ~(Len(fetched) < MinBarsToRun)
            /\ bars' = fetched /\ held' = << >> /\ curve' = <<Whole(1)>>
            /\ step' = "walk" /\ n' = n
  BY DEF Fetch, tables, walk
<1>2. n \in DOMAIN Symbols /\ n \in Nat /\ k = 1 /\ held = << >>
  BY <1>1, SymbolsDiffer DEF ResearchInv, PlaceIs, WalkIs
<1>3. StoreIs'
  BY <1>1, StoreKept DEF ResearchInv
<1>4. CommittedAre'
  BY <1>1 DEF ResearchInv, CommittedAre, Comparable
<1>5. \A row \in inserted :
        /\ row.run = run /\ Comparable(inserted, row)
        /\ \E i \in DOMAIN Symbols : row.symbol = Symbols[i] /\ i < n
  BY <1>1 DEF ResearchInv, InsertedIs, Current
<1>6. CASE n' = n + 1 /\ UNCHANGED <<step, bars, held, curve>>
  <2>1. PlaceIs'
    BY <1>1, <1>2, <1>6, SymbolsDiffer DEF ResearchInv, PlaceIs
  <2>2. WalkIs'
    BY <1>1, <1>6 DEF ResearchInv, WalkIs
  <2>3. InsertedIs'
    <3> SUFFICES ASSUME NEW row \in inserted
                 PROVE  /\ row.run = run /\ Comparable(inserted, row)
                        /\ \E i \in DOMAIN Symbols : row.symbol = Symbols[i] /\ i < n + 1
      BY <1>1, <1>6 DEF InsertedIs, Comparable
    <3>1. PICK i \in DOMAIN Symbols : row.symbol = Symbols[i] /\ i < n
      BY <1>5
    <3>2. i < n + 1
      BY <1>2, <3>1, SymbolsDiffer
    <3> QED
      BY <1>5, <3>1, <3>2
  <2> QED
    BY <1>3, <1>4, <2>1, <2>2, <2>3 DEF ResearchInv
<1>7. CASE /\ ~(Len(fetched) < MinBarsToRun)
           /\ bars' = fetched /\ held' = << >> /\ curve' = <<Whole(1)>>
           /\ step' = "walk" /\ n' = n
  <2>1. fetched \in Seq(ClosedBars) /\ Len(fetched) <= MaxBars
    BY <1>2, SymbolsDiffer, FetchedAre DEF ResearchInv, StoreIs
  <2>2. MinBarsToRun \in Nat /\ MinBarsToRun >= 2
    BY ResearchAssumption
  <2> HIDE DEF fetched
  <2>3. Len(fetched) >= MinBarsToRun /\ Len(fetched) >= 1
    BY <1>7, <2>1, <2>2
  <2>4. PlaceIs'
    BY <1>1, <1>2, <1>7, <2>3 DEF ResearchInv, PlaceIs
  <2>5. WalkIs'
    <3>1. <<Whole(1)>> \in Seq(Rational) /\ Len(<<Whole(1)>>) = 1
      <4>1. Whole(1) \in Rational
        BY SmallFractions
      <4> QED
        BY <4>1
    <3>2. << >> \in Seq(Rational) /\ Len(<< >>) = 0 /\ DOMAIN << >> = {}
      OBVIOUS
    <3> QED
      BY <1>1, <1>7, <2>1, <2>3, <3>1, <3>2 DEF WalkIs
  <2>6. \A row \in inserted : row.symbol # Symbols[n]
    <3> SUFFICES ASSUME NEW row \in inserted, row.symbol = Symbols[n] PROVE FALSE
      OBVIOUS
    <3>1. PICK i \in DOMAIN Symbols : row.symbol = Symbols[i] /\ i < n
      BY <1>5
    <3>2. i = n
      BY <1>2, <3>1, SymbolsDiffer
    <3> QED
      BY <1>2, <3>1, <3>2
  <2>7. InsertedIs'
    <3>1. {row \in inserted : row.symbol = Symbols[n]} = {}
      BY <2>6
    <3>2. {StrategyIds[j] : j \in 1..(k - 1)} = {}
      BY <1>2
    <3>3. inserted' = inserted /\ run' = run /\ n' = n /\ k' = k
      BY <1>1, <1>7
    <3>4. \A row \in inserted :
            /\ row.run = run /\ Comparable(inserted, row)
            /\ \E i \in DOMAIN Symbols : row.symbol = Symbols[i] /\ i < n
      BY <1>5
    <3> QED
      BY <3>1, <3>2, <3>3, <3>4 DEF InsertedIs, Comparable
  <2> QED
    BY <1>3, <1>4, <2>4, <2>5, <2>7 DEF ResearchInv
<1> QED
  BY <1>1, <1>6, <1>7

\* One more bar: the position of the bars so far, and the equity after it.
LEMMA WalkKeeps == ResearchInv /\ Walk => ResearchInv'
<1> SUFFICES ASSUME ResearchInv, Walk PROVE ResearchInv'
  OBVIOUS
<1> DEFINE t == Len(curve)
           signal == PositionFn(StrategyIds[k], SubSeq(bars, 1, t))
<1>1. CASE Last(curve) = Whole(0)
  BY <1>1, RollBackKeeps DEF Walk
<1>2. CASE Last(curve) # Whole(0)
  <2>1. /\ step = "walk" /\ t < Len(bars)
        /\ held' = Append(held, signal)
        /\ curve' = Append(curve, NextEquity(Last(curve), Before(held', t), signal,
                                             bars[t].close, bars[t + 1].close))
        /\ UNCHANGED <<ohlcv, arriving, backtests, inserted, run, step, n, k, bars>>
    BY <1>2 DEF Walk, tables, place
  <2>2. /\ bars \in Seq(ClosedBars) /\ Len(bars) <= MaxBars
        /\ curve \in Seq(Rational) /\ held \in Seq(Rational)
        /\ Len(held) + 1 = t /\ t <= Len(bars) /\ k \in 1..3
        /\ \A i \in DOMAIN held : held[i] = PositionFn(StrategyIds[k], SubSeq(bars, 1, i))
    BY <2>1 DEF ResearchInv, WalkIs, PlaceIs
  <2>3. t \in Nat \ {0} /\ t + 1 \in DOMAIN bars /\ t \in DOMAIN bars /\ t \in DOMAIN curve
    BY <2>1, <2>2
  <2>4. signal \in Rational
    <3>1. SubSeq(bars, 1, t) \in Seq(ClosedBars)
      BY <2>2, <2>3
    <3> QED
      BY <2>2, <3>1, IdsAre, PositionIs DEF Bounded
  <2> DEFINE next == NextEquity(Last(curve), Before(held', t), signal,
                                bars[t].close, bars[t + 1].close)
  <2>5. next \in Rational
    <3>1. Last(curve) \in Rational
      BY <2>2, <2>3 DEF Last
    <3>2. bars[t].close \in Nat \ {0} /\ bars[t + 1].close \in Nat \ {0}
      <4>1. bars[t] \in ClosedBars /\ bars[t + 1] \in ClosedBars
        BY <2>2, <2>3
      <4> QED
        BY <4>1, BarIs
    <3>3. Before(held', t) \in Rational
      <4> HIDE DEF signal, t
      <4>1. held' \in Seq(Rational) /\ Len(held') = t
        BY <2>1, <2>2, <2>4
      <4>2. t # 1 => t - 1 \in 1..Len(held')
        BY <2>3, <4>1
      <4>3. Whole(0) \in Rational
        BY SmallFractions
      <4> QED
        BY <4>1, <4>2, <4>3 DEF Before
    <3> HIDE DEF signal, t
    <3> QED
      BY <2>4, <3>1, <3>2, <3>3, NextEquityType
  <2>6. curve' = Append(curve, next)
    BY <2>1
  <2> HIDE DEF next
  <2>7. StoreIs'
    BY <2>1, StoreKept DEF ResearchInv
  <2>8. PlaceIs'
    BY <2>1 DEF ResearchInv, PlaceIs
  <2>9. InsertedIs' /\ CommittedAre'
    BY <2>1, RowsKept DEF ResearchInv, place
  <2>10. WalkIs'
    <3> HIDE DEF signal
    <3>1. curve' \in Seq(Rational) /\ Len(curve') = t + 1
      BY <2>2, <2>5, <2>6
    <3>2. held' \in Seq(Rational) /\ Len(held') = t
      BY <2>1, <2>2, <2>4
    <3>3. \A i \in DOMAIN held' : held'[i] = PositionFn(StrategyIds[k], SubSeq(bars, 1, i))
      <4> SUFFICES ASSUME NEW i \in DOMAIN held'
                   PROVE  held'[i] = PositionFn(StrategyIds[k], SubSeq(bars, 1, i))
        OBVIOUS
      <4> HIDE DEF t
      <4>1. CASE i = t
        <5>1. held'[t] = signal
          BY <2>1, <2>2, <2>3
        <5> QED
          BY <4>1, <5>1 DEF signal
      <4>2. CASE i # t
        <5>1. i \in DOMAIN held /\ held'[i] = held[i]
          BY <2>1, <2>2, <3>2, <4>2
        <5> QED
          BY <2>2, <5>1
      <4> QED
        BY <4>1, <4>2
    <3>4. t + 1 <= Len(bars)
      BY <2>2, <2>3
    <3> QED
      BY <2>1, <2>2, <3>1, <3>2, <3>3, <3>4 DEF WalkIs
  <2> QED
    BY <2>7, <2>8, <2>9, <2>10 DEF ResearchInv
<1> QED
  BY <1>1, <1>2

\* What is inserted joins the rows of its symbol; with the last strategy they
\* are complete.
LEMMA InsertKeeps == ResearchInv /\ InsertBacktest => ResearchInv'
<1> SUFFICES ASSUME ResearchInv, InsertBacktest PROVE ResearchInv'
  OBVIOUS
<1>1. CASE Overflows(curve)
  BY <1>1, RollBackKeeps DEF InsertBacktest
<1>2. CASE ~Overflows(curve)
  <2>1. /\ step = "walk" /\ inserted' = inserted \cup {Row} /\ GoOn
        /\ UNCHANGED <<ohlcv, arriving, backtests, run>>
    BY <1>2 DEF InsertBacktest, tables
  <2>2. /\ bars \in Seq(ClosedBars) /\ Len(bars) <= MaxBars /\ Len(bars) >= MinBarsToRun
        /\ k \in 1..3 /\ n \in DOMAIN Symbols /\ n \in Nat
    BY <2>1, SymbolsDiffer DEF ResearchInv, WalkIs, PlaceIs
  <2>3. /\ Row.run = run /\ Row.symbol = Symbols[n] /\ Row.strategyId = StrategyIds[k]
        /\ Row.dataset = bars
    BY DEF Row
  <2> DEFINE added == Row
             now == {row \in inserted : row.symbol = Symbols[n]}
             after == {row \in inserted \cup {added} : row.symbol = Symbols[n]}
  <2> HIDE DEF added
  <2>4. /\ \A row \in inserted :
             /\ row.run = run
             /\ \E i \in DOMAIN Symbols : row.symbol = Symbols[i] /\ (i < n \/ row.symbol = Symbols[n])
             /\ row.symbol = Symbols[n] \/ Comparable(inserted, row)
        /\ {row.strategyId : row \in now} = {StrategyIds[j] : j \in 1..(k - 1)}
        /\ \A row \in now : row.dataset = bars
    BY <2>1 DEF ResearchInv, InsertedIs, Current
  <2>5. /\ after = now \cup {added}
        /\ added.run = run /\ added.symbol = Symbols[n] /\ added.strategyId = StrategyIds[k]
        /\ added.dataset = bars /\ inserted' = inserted \cup {added}
    BY <2>1, <2>3 DEF added
  <2>6. /\ {row.strategyId : row \in after} = {StrategyIds[j] : j \in 1..k}
        /\ \A row \in after : row.dataset = bars
    <3>1. {row.strategyId : row \in after} = {row.strategyId : row \in now} \cup {StrategyIds[k]}
      BY <2>5
    <3>2. 1..k = (1..(k - 1)) \cup {k}
      BY <2>2
    <3>3. {StrategyIds[j] : j \in 1..k} = {StrategyIds[j] : j \in 1..(k - 1)} \cup {StrategyIds[k]}
      BY <3>2
    <3> QED
      BY <2>4, <2>5, <3>1, <3>3
  <2>7. \A row \in inserted \cup {added} :
          /\ row.run = run
          /\ \E i \in DOMAIN Symbols : row.symbol = Symbols[i] /\ (i < n \/ row.symbol = Symbols[n])
          /\ row.symbol = Symbols[n] \/ Comparable(inserted \cup {added}, row)
    <3> SUFFICES ASSUME NEW row \in inserted \cup {added}
                 PROVE  /\ row.run = run
                        /\ \E i \in DOMAIN Symbols :
                              row.symbol = Symbols[i] /\ (i < n \/ row.symbol = Symbols[n])
                        /\ row.symbol = Symbols[n] \/ Comparable(inserted \cup {added}, row)
      OBVIOUS
    <3>1. CASE row.symbol = Symbols[n]
      BY <2>2, <2>4, <2>5, <3>1
    <3>2. CASE row.symbol # Symbols[n]
      <4>1. row \in inserted /\ Comparable(inserted, row)
        BY <2>4, <2>5, <3>2
      <4>2. \A other \in (inserted \cup {added}) \ inserted :
              other.run # row.run \/ other.symbol # row.symbol
        BY <2>5, <3>2
      <4>3. Comparable(inserted \cup {added}, row)
        BY <4>1, <4>2, OthersDoNotMatter
      <4> QED
        BY <2>4, <4>1, <4>3
    <3> QED
      BY <3>1, <3>2
  <2>8. StoreIs'
    BY <2>1, StoreKept DEF ResearchInv
  <2>9. DOMAIN << >> = {} /\ << >> \in Seq(Rational) /\ << >> \in Seq(ClosedBars) /\ Len(<< >>) = 0
    OBVIOUS
  <2>10. Len(StrategyIds) = 3 /\ MinBarsToRun \in Nat /\ MinBarsToRun >= 2 /\ MaxBars \in Nat
    BY IdsAre, ResearchAssumption
  <2>11. CASE k < 3
    <3>1. /\ k' = k + 1 /\ held' = << >> /\ curve' = <<Whole(1)>>
          /\ step' = step /\ n' = n /\ bars' = bars
      BY <2>1, <2>10, <2>11 DEF GoOn
    <3>2. PlaceIs'
      BY <2>1, <2>2, <2>11, <3>1 DEF ResearchInv, PlaceIs
    <3>3. WalkIs'
      <4>1. <<Whole(1)>> \in Seq(Rational) /\ Len(<<Whole(1)>>) = 1
        <5>1. Whole(1) \in Rational
          BY SmallFractions
        <5> QED
          BY <5>1
      <4>2. 1 <= Len(bars)
        BY <2>2, <2>10
      <4> QED
        BY <2>1, <2>2, <2>9, <3>1, <4>1, <4>2 DEF WalkIs
    <3>4. InsertedIs'
      <4>1. k' - 1 = k
        BY <2>2, <3>1
      <4> HIDE DEF after, now
      <4>2. after = {row \in inserted' : row.symbol = Symbols'[n']}
        BY <2>5, <3>1 DEF after
      <4>3. \A row \in inserted' :
              /\ row.run = run'
              /\ \E i \in DOMAIN Symbols : row.symbol = Symbols[i] /\ (i < n' \/ Current(row)')
              /\ Current(row)' \/ Comparable(inserted', row)
        BY <2>1, <2>5, <2>7, <3>1 DEF Current
      <4>4. /\ {row.strategyId : row \in after} = {StrategyIds[j] : j \in 1..(k' - 1)}
            /\ \A row \in after : row.dataset = bars'
        BY <2>6, <3>1, <4>1
      <4> QED
        BY <4>2, <4>3, <4>4 DEF InsertedIs, Comparable
    <3>5. CommittedAre'
      BY <2>1, <3>1 DEF ResearchInv, CommittedAre, Comparable
    <3> QED
      BY <2>8, <3>2, <3>3, <3>4, <3>5 DEF ResearchInv
  <2>12. CASE ~(k < 3)
    <3>0. k = 3
      BY <2>2, <2>12
    <3>1. /\ k' = 1 /\ n' = n + 1 /\ step' = "fetch"
          /\ bars' = << >> /\ held' = << >> /\ curve' = << >>
      BY <2>1, <2>10, <2>12 DEF GoOn
    <3>2. PlaceIs'
      BY <2>1, <2>2, <3>1, SymbolsDiffer DEF ResearchInv, PlaceIs
    <3>3. WalkIs'
      BY <2>9, <2>10, <3>1 DEF WalkIs
    <3>4. ASSUME NEW row \in inserted \cup {added}
          PROVE  Comparable(inserted \cup {added}, row)
      <4>1. CASE row.symbol # Symbols[n]
        BY <2>7, <4>1
      <4>2. CASE row.symbol = Symbols[n]
        <5>1. {other \in inserted \cup {added} : other.run = row.run /\ other.symbol = row.symbol} = after
          BY <2>7, <4>2
        <5>2. row \in after
          BY <4>2
        <5>3. {other.strategyId : other \in after} = Strategy
          BY <2>6, <3>0, IdsAre
        <5>4. \A other \in after : other.dataset = row.dataset
          BY <2>6, <5>2
        <5>5. Len(row.dataset) >= MinBarsToRun
          BY <2>2, <2>6, <5>2
        <5> HIDE DEF after
        <5> QED
          BY <5>1, <5>3, <5>4, <5>5 DEF Comparable
      <4> QED
        BY <4>1, <4>2
    <3>5. InsertedIs'
      <4> SUFFICES ASSUME NEW row \in inserted'
                   PROVE  /\ row.run = run'
                          /\ \E i \in DOMAIN Symbols : row.symbol = Symbols[i] /\ i < n'
                          /\ Comparable(inserted', row)
        BY <3>1 DEF InsertedIs, Comparable
      <4>1. Comparable(inserted', row) /\ row.run = run'
        BY <2>1, <2>5, <2>7, <3>4
      <4>2. PICK i \in DOMAIN Symbols : row.symbol = Symbols[i] /\ (i < n \/ row.symbol = Symbols[n])
        BY <2>5, <2>7
      <4>3. i \in Nat
        BY SymbolsDiffer
      <4> QED
        BY <2>2, <3>1, <4>1, <4>2, <4>3
    <3>6. CommittedAre'
      BY <2>1, <3>1 DEF ResearchInv, CommittedAre, Comparable
    <3> QED
      BY <2>8, <3>2, <3>3, <3>5, <3>6 DEF ResearchInv
  <2> QED
    BY <2>11, <2>12
<1> QED
  BY <1>1, <1>2

\* The rows of the run become rows of the table, next to those of other runs.
LEMMA CommitKeeps == ResearchInv /\ Commit => ResearchInv'
<1> SUFFICES ASSUME ResearchInv, Commit PROVE ResearchInv'
  OBVIOUS
<1>1. /\ step = "fetch" /\ backtests' = backtests \cup inserted /\ inserted' = {}
      /\ step' = "idle"
      /\ UNCHANGED <<ohlcv, arriving, run, n, k, bars, held, curve>>
  BY DEF Commit, place, walk
<1>2. StoreIs'
  BY <1>1, StoreKept DEF ResearchInv
<1>3. PlaceIs' /\ WalkIs' /\ run \in Int
  BY <1>1, ResearchAssumption DEF ResearchInv, PlaceIs, WalkIs
<1>4. InsertedIs'
  BY <1>1 DEF InsertedIs
<1>5. \A row \in backtests : row.run \in Int /\ row.run < run /\ Comparable(backtests, row)
  BY <1>1 DEF ResearchInv, CommittedAre
<1>6. \A row \in inserted : row.run = run /\ Comparable(inserted, row)
  BY <1>1 DEF ResearchInv, InsertedIs, Current
<1> DEFINE all == backtests \cup inserted
<1>7. ASSUME NEW row \in all
      PROVE  row.run \in Int /\ row.run <= run /\ Comparable(all, row)
  <2>1. CASE row \in backtests
    <3>1. \A other \in all \ backtests : other.run # row.run
      BY <1>3, <1>5, <1>6, <2>1
    <3> HIDE DEF all
    <3>2. backtests \subseteq all
      BY DEF all
    <3>3. Comparable(all, row)
      BY <1>5, <2>1, <3>1, <3>2, OthersDoNotMatter
    <3> QED
      BY <1>3, <1>5, <2>1, <3>3
  <2>2. CASE row \in inserted
    <3>1. \A other \in all \ inserted : other.run # row.run
      BY <1>3, <1>5, <1>6, <2>2
    <3> HIDE DEF all
    <3>2. inserted \subseteq all
      BY DEF all
    <3>3. Comparable(all, row)
      BY <1>6, <2>2, <3>1, <3>2, OthersDoNotMatter
    <3> QED
      BY <1>3, <1>6, <2>2, <3>3
  <2> QED
    BY <2>1, <2>2
<1>8. CommittedAre'
  <2>1. backtests' = all
    BY <1>1
  <2> HIDE DEF all
  <2> QED
    BY <1>1, <1>7, <2>1 DEF CommittedAre, Comparable
<1> QED
  BY <1>2, <1>3, <1>4, <1>8 DEF ResearchInv

LEMMA ResearchHolds == Spec => []ResearchInv
<1>1. ResearchInv /\ [Next]_vars => ResearchInv'
  <2> SUFFICES ASSUME ResearchInv, [Next]_vars PROVE ResearchInv'
    OBVIOUS
  <2>1. ASSUME NEW s \in Symbol, StoreBar(s) PROVE ResearchInv'
    BY <2>1, StoreBarKeeps
  <2>2. CASE Crash
    BY <2>2, RollBackKeeps DEF Crash
  <2>3. CASE UNCHANGED vars
    <3>1. UNCHANGED <<ohlcv, arriving, backtests, inserted, run, step, n, k, bars, held, curve>>
      BY <2>3 DEF vars, tables, place, walk
    <3>2. StoreIs' /\ PlaceIs' /\ WalkIs'
      BY <3>1 DEF ResearchInv, StoreIs, PlaceIs, WalkIs
    <3>3. InsertedIs' /\ CommittedAre'
      BY <3>1, RowsKept DEF ResearchInv, place
    <3> QED
      BY <3>2, <3>3 DEF ResearchInv
  <2> QED
    BY <2>1, <2>2, <2>3, StartKeeps, FetchKeeps, WalkKeeps, InsertKeeps, CommitKeeps DEF Next
<1> QED
  BY <1>1, InitResearch, PTL DEF Spec

-----------------------------------------------------------------------------
(* The theorems                                                            *)

\* However the runs fail and overlap with ingestion, a walk has one position
\* less than equities, never more equities than bars, and no position of more
\* than one unit: run_backtest never raises on a signal outside of [-1, 1].
THEOREM ResearchTypes == Spec => []TypeOK
<1>1. ResearchInv => TypeOK
  <2> SUFFICES ASSUME ResearchInv PROVE TypeOK
    OBVIOUS
  <2>1. \A i \in DOMAIN held : AtMost(Absolute(held[i]), Whole(1))
    <3> SUFFICES ASSUME NEW i \in DOMAIN held PROVE AtMost(Absolute(held[i]), Whole(1))
      OBVIOUS
    <3>1. /\ held \in Seq(Rational) /\ bars \in Seq(ClosedBars) /\ k \in 1..3
          /\ held[i] = PositionFn(StrategyIds[k], SubSeq(bars, 1, i))
          /\ step = "walk" => Len(held) + 1 = Len(curve) /\ Len(curve) <= Len(bars)
          /\ step # "walk" => held = << >>
      BY DEF ResearchInv, WalkIs, PlaceIs
    <3>2. step = "walk" /\ i \in 1..Len(bars)
      <4>1. DOMAIN << >> = {}
        OBVIOUS
      <4>2. step = "walk"
        BY <3>1, <4>1
      <4> QED
        BY <3>1, <4>2
    <3>3. SubSeq(bars, 1, i) \in Seq(ClosedBars)
      BY <3>1, <3>2
    <3> QED
      BY <3>1, <3>3, IdsAre, PositionIs DEF Bounded
  <2> QED
    BY <2>1, IdsAre DEF TypeOK, ResearchInv, WalkIs, PlaceIs
<1> QED
  BY <1>1, ResearchHolds, PTL

\* For any number of runs, symbols and failures, what is committed of one run
\* and symbol are the rows of all strategies, over the same bars and enough.
THEOREM CommittedRowsCompare == Spec => []RowsAreComparable
<1>1. ResearchInv => RowsAreComparable
  BY ComparableRows DEF ResearchInv, CommittedAre
<1> QED
  BY <1>1, ResearchHolds, PTL

\* For every series of bars and every threshold a backtest holds what the live
\* pipeline would have proposed from the newest bars closed by then.
THEOREM BacktestsFollowThePipeline == Spec => []BacktestHoldsWhatThePipelineProposes
<1>1. ResearchInv => BacktestHoldsWhatThePipelineProposes
  <2> SUFFICES ASSUME ResearchInv, held # << >> PROVE BacktestHoldsWhatThePipelineProposes
    BY DEF BacktestHoldsWhatThePipelineProposes
  <2> DEFINE t == Len(held)
             s == StrategyIds[k]
             b == SubSeq(bars, 1, t)
             m == IF t < Lookback THEN t ELSE Lookback
             live == Newest(b, m)
             r == ClassifyRegime(live)
             candidates == IF t < MinBars THEN << >> ELSE RunStrategies(live, r)
             own == {c \in ToSet(candidates) : c.strategyId = s}
  <2>1. /\ held \in Seq(Rational) /\ bars \in Seq(ClosedBars) /\ k \in 1..3
        /\ \A i \in DOMAIN held : held[i] = PositionFn(StrategyIds[k], SubSeq(bars, 1, i))
        /\ Len(held) + 1 = Len(curve) /\ Len(curve) <= Len(bars)
    BY DEF ResearchInv, WalkIs, PlaceIs
  <2>2. t \in Nat \ {0} /\ t \in DOMAIN held /\ t \in 1..Len(bars)
    BY <2>1
  <2>3. b \in Seq(ClosedBars) /\ Len(b) = t
    BY <2>1, <2>2
  <2>4. held[t] = PositionFn(s, b) /\ s \in Strategy
    BY <2>1, <2>2, IdsAre
  <2>5. /\ MinBars \in Nat /\ MinBars <= Lookback /\ Lookback \in Nat
        /\ \A x \in Strategy : Window(x) <= MinBars
    BY WindowsAre, ResearchAssumption
  <2>6. CASE t < MinBars
    <3>1. own = {}
      <4>1. candidates = << >>
        BY <2>6
      <4>2. DOMAIN << >> = {}
        OBVIOUS
      <4> QED
        BY <4>1, <4>2 DEF ToSet
    <3>2. held[t] = Whole(0)
      <4> HIDE DEF t, b, s
      <4> QED
        BY <2>3, <2>4, <2>6 DEF PositionFn
    <3> QED
      BY <3>1, <3>2, Zenon DEF BacktestHoldsWhatThePipelineProposes
  <2>7. CASE ~(t < MinBars)
    <3>1. /\ m \in Nat /\ MinBars <= m /\ m <= Len(b) /\ MinBars <= Len(b) /\ m \in Nat \ {0}
      <4>1. m = (IF t < Lookback THEN t ELSE Lookback) /\ MinBars >= 1
        BY WindowsAre
      <4> HIDE DEF m, b, t
      <4> QED
        BY <2>2, <2>3, <2>5, <2>7, <4>1
    <3>2. candidates = RunStrategies(live, r)
      BY <2>7
    <3> HIDE DEF t, b, m, s, candidates
    <3>3. r = ClassifyRegime(b)
      BY <2>3, <3>1, RegimeLooksBack
    <3>4. live \in Seq(ClosedBars) /\ Len(live) = m
      BY <2>3, <3>1, NewestIs
    <3> HIDE DEF live
    <3>5. RegimeSound(r)
      BY <3>1, <3>4, RegimeIsSound
    <3> HIDE DEF r
    <3>6. own = IF r.label \in allowed_regimes[s] /\ Generate(s, live, r) # NoCandidate
                THEN {Generate(s, live, r)} ELSE {}
      BY <2>4, <2>5, <3>1, <3>2, <3>4, <3>5, CandidatesOfStrategy
    <3>7. SameProposal(Generate(s, live, r), Generate(s, b, r))
      BY <2>3, <2>4, <2>5, <3>1, GenerateLooksBack DEF live
    <3>8. held[t] = IF r.label \notin allowed_regimes[s] THEN Whole(0)
                    ELSE Signal(Generate(s, b, r))
      <4>1. ~(Len(b) < MinBars \/ Len(b) < Window(s))
        <5>1. Window(s) \in Int
          BY <2>4, WindowTypes
        <5> QED
          BY <2>3, <2>4, <2>5, <3>1, <5>1
      <4> QED
        BY <2>4, <3>3, <4>1, Zenon DEF PositionFn
    <3>9. \/ own = {} /\ held[t] = Whole(0)
          \/ own = {Generate(s, live, r)} /\ held[t] = Signal(Generate(s, live, r))
      <4>1. Generate(s, b, r) = NoCandidate => Signal(Generate(s, b, r)) = Whole(0)
        BY DEF Signal
      <4>2. Generate(s, live, r) # NoCandidate =>
                Signal(Generate(s, live, r)) = Signal(Generate(s, b, r))
        BY <3>7 DEF SameProposal, Signal
      <4> QED
        BY <3>6, <3>7, <3>8, <4>1, <4>2 DEF SameProposal
    <3> HIDE DEF own
    <3>10. IF own = {} THEN held[t] = Whole(0) ELSE \A c \in own : held[t] = Signal(c)
      BY <3>9
    <3> QED
      BY <3>10, Zenon DEF BacktestHoldsWhatThePipelineProposes, own, candidates, r, live, m, b, s, t
  <2> QED
    BY <2>6, <2>7
<1> QED
  BY <1>1, ResearchHolds, PTL

-----------------------------------------------------------------------------
(* Trades                                                                  *)

\* Where trades open, and where the position of a bar is given up.
Opened(h) == {i \in DOMAIN h : h[i] # Whole(0) /\ h[i] # Before(h, i)}
Holds(h, i, j) ==
    /\ \A m \in i..j : h[m] = h[i]
    /\ j < Len(h) => h[j + 1] # h[i]
EndOf(h, i) == CHOOSE j \in i..Len(h) : Holds(h, i, j)

\* RoundTrips in these terms.
LEMMA TradesAre ==
    ASSUME NEW h, NEW c
    PROVE  RoundTrips(h, c) = [i \in Opened(h) |-> Minus(Over(c[EndOf(h, i) + 1], c[i]), Whole(1))]
BY Zenon DEF RoundTrips, Opened, EndOf, Holds

\* Every position is given up at one bar.
LEMMA EndIs ==
    ASSUME NEW h \in Seq(Rational), NEW i \in DOMAIN h
    PROVE  /\ EndOf(h, i) \in i..Len(h) /\ Holds(h, i, EndOf(h, i))
           /\ \A j \in i..Len(h) : Holds(h, i, j) => EndOf(h, i) = j
<1> DEFINE t == Len(h)
           C == {j \in i..t : j = t \/ h[j + 1] # h[i]}
<1>1. t \in Nat /\ DOMAIN h = 1..t /\ i \in 1..t
  OBVIOUS
<1> HIDE DEF t
<1>2. C \in SUBSET Nat /\ C # {}
  <2>1. t \in C
    BY <1>1
  <2> QED
    BY <1>1, <2>1
<1>3. PICK j \in C : \A m \in C : j <= m
  <2> HIDE DEF C
  <2> QED
    BY <1>2, LeastNatural
<1>4. j \in i..t /\ j \in Nat /\ (j < t => h[j + 1] # h[i])
  BY <1>1, <1>3
<1>5. ASSUME NEW m \in i..j, h[m] # h[i] PROVE FALSE
  <2> DEFINE B == {l \in i..j : h[l] # h[i]}
  <2>1. B \in SUBSET Nat /\ B # {}
    BY <1>1, <1>5
  <2>2. PICK l \in B : \A k1 \in B : l <= k1
    <3> HIDE DEF B
    <3> QED
      BY <2>1, LeastNatural
  <2>3. l \in i..j /\ h[l] # h[i] /\ l # i
    BY <2>2
  <2>4. l - 1 \in i..j /\ l - 1 \notin B /\ l - 1 < j /\ l - 1 \in i..t
    BY <1>1, <1>4, <2>2, <2>3
  <2>5. (l - 1) + 1 = l
    BY <1>1, <2>3
  <2>6. l - 1 \in C
    BY <2>3, <2>4, <2>5
  <2>7. j <= l - 1
    BY <1>3, <2>6
  <2> QED
    BY <1>1, <1>4, <2>3, <2>4, <2>7
<1>6. Holds(h, i, j)
  BY <1>4, <1>5 DEF Holds, t
<1>7. \E k1 \in i..t : Holds(h, i, k1)
  BY <1>4, <1>6
<1>8. EndOf(h, i) \in i..t /\ Holds(h, i, EndOf(h, i))
  BY <1>7 DEF EndOf, t
<1>9. ASSUME NEW a \in i..t, NEW b \in i..t, Holds(h, i, a), Holds(h, i, b), a < b
      PROVE  FALSE
  <2>1. a + 1 \in i..b /\ a < t
    BY <1>1, <1>9
  <2>2. h[a + 1] = h[i] /\ h[a + 1] # h[i]
    BY <1>9, <2>1 DEF Holds, t
  <2> QED
    BY <2>2
<1>10. \A k1 \in i..t : Holds(h, i, k1) => EndOf(h, i) = k1
  <2> SUFFICES ASSUME NEW k1 \in i..t, Holds(h, i, k1), EndOf(h, i) # k1 PROVE FALSE
    OBVIOUS
  <2> DEFINE e == EndOf(h, i)
  <2>1. e \in i..t /\ Holds(h, i, e) /\ e # k1
    BY <1>8
  <2> HIDE DEF e
  <2>2. e < k1 \/ k1 < e
    BY <1>1, <2>1
  <2> QED
    BY <1>9, <2>1, <2>2
<1> QED
  BY <1>8, <1>10 DEF t

\* A walk: one position less than equities, none of which but the last is zero.
WalkOver(h, c) ==
    /\ h \in Seq(Rational) /\ c \in Seq(Rational) /\ Len(c) = Len(h) + 1
    /\ \A i \in DOMAIN h : c[i] # Whole(0)

\* What TradesAndExitsExplainTheCurve multiplies.
Growth(h, c) ==
    [i \in DOMAIN h |->
        IF i \in DOMAIN RoundTrips(h, c) THEN Plus(Whole(1), RoundTrips(h, c)[i])
        ELSE IF h[i] # Whole(0) THEN Whole(1)
        ELSE Minus(Whole(1), Cost(Absolute(Before(h, i))))]

\* The last equity is the product of that.
Explained(h, c) == Last(c) = ProductOf(Growth(h, c))

\* The property says so of the walk at hand.
LEMMA ExplainedIs == TradesAndExitsExplainTheCurve <=> (step = "walk" => Explained(held, curve))
BY Zenon DEF TradesAndExitsExplainTheCurve, Explained, Growth

\* A trade's factor is what its equity has come to.
LEMMA GrowthIs ==
    ASSUME NEW h, NEW c, WalkOver(h, c)
    PROVE  /\ Growth(h, c) \in [DOMAIN h -> Rational]
           /\ \A i \in Opened(h) : Growth(h, c)[i] = Over(c[EndOf(h, i) + 1], c[i])
           /\ \A i \in DOMAIN h \ Opened(h) :
                Growth(h, c)[i] = IF h[i] # Whole(0) THEN Whole(1)
                                  ELSE Minus(Whole(1), Cost(Absolute(Before(h, i))))
<1> DEFINE g == Growth(h, c)
           r == RoundTrips(h, c)
<1>1. /\ h \in Seq(Rational) /\ c \in Seq(Rational) /\ Len(c) = Len(h) + 1 /\ Len(h) \in Nat
      /\ DOMAIN h = 1..Len(h) /\ \A i \in DOMAIN h : c[i] # Whole(0)
  BY DEF WalkOver
<1>2. /\ DOMAIN r = Opened(h)
      /\ \A i \in Opened(h) : r[i] = Minus(Over(c[EndOf(h, i) + 1], c[i]), Whole(1))
  BY TradesAre
<1> HIDE DEF r
<1>3. /\ DOMAIN g = DOMAIN h /\ Opened(h) \subseteq DOMAIN h
      /\ \A i \in Opened(h) : g[i] = Plus(Whole(1), r[i])
      /\ \A i \in DOMAIN h \ Opened(h) :
            g[i] = IF h[i] # Whole(0) THEN Whole(1)
                   ELSE Minus(Whole(1), Cost(Absolute(Before(h, i))))
  BY <1>2 DEF Growth, Opened, r
<1>4. Whole(0) \in Rational /\ Whole(1) \in Rational
  BY SmallFractions
<1>5. ASSUME NEW i \in Opened(h)
      PROVE  g[i] = Over(c[EndOf(h, i) + 1], c[i]) /\ g[i] \in Rational
  <2> DEFINE e == EndOf(h, i)
             a == c[e + 1]
             b == c[i]
  <2>1. i \in DOMAIN h /\ e \in i..Len(h)
    BY <1>1, <1>3, EndIs
  <2>2. a \in Rational /\ b \in Rational /\ b # Whole(0)
    <3> HIDE DEF e
    <3> QED
      BY <1>1, <2>1
  <2>3. g[i] = Plus(Whole(1), Minus(Over(a, b), Whole(1)))
    BY <1>2, <1>3
  <2> HIDE DEF a, b, g
  <2>4. Over(a, b) \in Rational
    BY <2>2, OverCancels
  <2>5. g[i] = Over(a, b)
    BY <1>4, <2>3, <2>4, DifferenceAdds
  <2> QED
    BY <2>4, <2>5 DEF a, b
<1>6. ASSUME NEW i \in DOMAIN h \ Opened(h)
      PROVE  g[i] \in Rational
  <2>1. Before(h, i) \in Rational
    <3>1. i # 1 => i - 1 \in 1..Len(h)
      BY <1>1
    <3> QED
      BY <1>1, <1>4, <3>1 DEF Before
  <2>2. Absolute(Before(h, i)) \in Rational
    BY <2>1, AbsTypes, SmallFractions
  <2>3. Cost(Absolute(Before(h, i))) \in Rational
    <3>1. CostRate \in Rational
      BY BacktestAssumption, FractionsAre
    <3> QED
      BY <2>2, <3>1, ProductTypes DEF Cost
  <2>4. Minus(Whole(1), Cost(Absolute(Before(h, i)))) \in Rational
    BY <1>4, <2>3, PlusTypes
  <2> QED
    BY <1>3, <1>4, <2>4
<1>7. g = [i \in DOMAIN h |-> g[i]]
  BY DEF Growth
<1> HIDE DEF g
<1>8. g \in [DOMAIN h -> Rational]
  BY <1>5, <1>6, <1>7
<1> QED
  BY <1>3, <1>5, <1>8 DEF g

\* One more bar: h and c with the position x and the equity y.
Grown(h, c, x, y, h2, c2) ==
    /\ WalkOver(h, c) /\ c[Len(c)] # Whole(0) /\ x \in Rational /\ y \in Rational
    /\ h2 = Append(h, x) /\ c2 = Append(c, y)

\* What that leaves as it was, and what is new.
GrownFacts(h, c, x, y, h2, c2, t) ==
    /\ t \in Nat /\ DOMAIN h = 1..t /\ DOMAIN h2 = 1..(t + 1) /\ Len(h2) = t + 1
    /\ Len(c) = t + 1 /\ Last(c) = c[t + 1] /\ Last(c2) = y
    /\ h2[t + 1] = x /\ c2[t + 2] = y /\ (\A i \in 1..t : h2[i] = h[i])
    /\ (\A i \in 1..(t + 1) : c2[i] = c[i] /\ c[i] # Whole(0) /\ c[i] \in Rational)
    /\ h \in Seq(Rational) /\ h2 \in Seq(Rational) /\ c2 \in Seq(Rational) /\ WalkOver(h2, c2)
    /\ Before(h2, t + 1) = (IF t = 0 THEN Whole(0) ELSE h[t])
    /\ (\A i \in 1..t : Before(h2, i) = Before(h, i))

\* The walk with one more bar is a walk.
LEMMA GrownIs ==
    ASSUME NEW h, NEW c, NEW x, NEW y, NEW h2, NEW c2, Grown(h, c, x, y, h2, c2)
    PROVE  GrownFacts(h, c, x, y, h2, c2, Len(h))
<1> DEFINE t == Len(h)
<1>1. /\ h \in Seq(Rational) /\ c \in Seq(Rational) /\ Len(c) = t + 1 /\ t \in Nat
      /\ \A i \in DOMAIN h : c[i] # Whole(0)
      /\ c[Len(c)] # Whole(0) /\ x \in Rational /\ y \in Rational
      /\ h2 = Append(h, x) /\ c2 = Append(c, y) /\ t = Len(h)
  BY DEF Grown, WalkOver
<1> HIDE DEF t
<1>2. /\ DOMAIN h = 1..t /\ DOMAIN h2 = 1..(t + 1) /\ Len(h2) = t + 1 /\ h2 \in Seq(Rational)
      /\ h2[t + 1] = x /\ \A i \in 1..t : h2[i] = h[i]
  BY <1>1
<1>3. /\ DOMAIN c = 1..(t + 1) /\ Len(c2) = t + 2 /\ c2 \in Seq(Rational)
      /\ c2[t + 2] = y /\ \A i \in 1..(t + 1) : c2[i] = c[i] /\ c[i] \in Rational
  BY <1>1
<1>4. \A i \in 1..(t + 1) : c[i] # Whole(0)
  BY <1>1, <1>2
<1>5. WalkOver(h2, c2)
  BY <1>1, <1>2, <1>3, <1>4 DEF WalkOver
<1>6. Last(c) = c[t + 1] /\ Last(c2) = y
  BY <1>1, <1>2, <1>3 DEF Last
<1>7. Before(h2, t + 1) = (IF t = 0 THEN Whole(0) ELSE h[t])
  <2>1. (t + 1) - 1 = t /\ (t + 1 = 1 <=> t = 0)
    BY <1>1
  <2>2. t # 0 => h2[t] = h[t]
    BY <1>1, <1>2
  <2> QED
    BY <2>1, <2>2 DEF Before
<1>8. ASSUME NEW i \in 1..t PROVE Before(h2, i) = Before(h, i)
  <2>1. i # 1 => i - 1 \in 1..t
    BY <1>1
  <2> QED
    BY <1>2, <2>1 DEF Before
<1>9. GrownFacts(h, c, x, y, h2, c2, t)
  BY <1>1, <1>2, <1>3, <1>4, <1>5, <1>6, <1>7, <1>8 DEF GrownFacts
<1> QED
  BY <1>9 DEF t

\* The positions that were given up before stay as they were; the one that is
\* still held is held on or given up.
LEMMA EndsGrow ==
    ASSUME NEW h, NEW c, NEW x, NEW y, NEW h2, NEW c2, Grown(h, c, x, y, h2, c2),
           NEW t, t = Len(h)
    PROVE  \A i \in 1..t :
              EndOf(h2, i) = IF EndOf(h, i) = t /\ x = h[i] THEN t + 1 ELSE EndOf(h, i)
<1>0. GrownFacts(h, c, x, y, h2, c2, t)
  BY GrownIs
<1>1. /\ t \in Nat /\ DOMAIN h = 1..t /\ DOMAIN h2 = 1..(t + 1) /\ Len(h2) = t + 1
      /\ h2[t + 1] = x /\ (\A j \in 1..t : h2[j] = h[j])
      /\ h \in Seq(Rational) /\ h2 \in Seq(Rational)
  BY <1>0 DEF GrownFacts
<1> SUFFICES ASSUME NEW i \in 1..t
             PROVE  EndOf(h2, i) = IF EndOf(h, i) = t /\ x = h[i] THEN t + 1 ELSE EndOf(h, i)
  OBVIOUS
<1> DEFINE e == EndOf(h, i)
<1>2. e \in i..t /\ Holds(h, i, e)
  BY <1>1, EndIs
<1> HIDE DEF e
<1>3. (\A m \in i..e : h[m] = h[i]) /\ (e < t => h[e + 1] # h[i])
  BY <1>2 DEF Holds
<1>4. CASE e = t /\ x = h[i]
  <2>1. \A m \in i..(t + 1) : h2[m] = h2[i]
    BY <1>1, <1>3, <1>4
  <2>2. Holds(h2, i, t + 1)
    BY <1>1, <2>1 DEF Holds
  <2>3. i \in DOMAIN h2 /\ t + 1 \in i..Len(h2)
    BY <1>1
  <2>4. EndOf(h2, i) = t + 1
    BY <1>1, <2>2, <2>3, EndIs
  <2> QED
    BY <1>4, <2>4 DEF e
<1>5. CASE ~(e = t /\ x = h[i])
  <2>1. \A m \in i..e : h2[m] = h2[i]
    BY <1>1, <1>2, <1>3
  <2>2. h2[e + 1] # h2[i]
    <3>1. CASE e = t
      BY <1>1, <1>5, <3>1
    <3>2. CASE e < t
      BY <1>1, <1>2, <1>3, <3>2
    <3> QED
      BY <1>1, <1>2, <3>1, <3>2
  <2>3. Holds(h2, i, e)
    BY <2>1, <2>2 DEF Holds
  <2>4. i \in DOMAIN h2 /\ e \in i..Len(h2)
    BY <1>1, <1>2
  <2>5. EndOf(h2, i) = e
    BY <1>1, <2>3, <2>4, EndIs
  <2> QED
    BY <1>5, <2>5 DEF e
<1> QED
  BY <1>4, <1>5

\* What is still held was opened at one bar.
LEMMA LastOpened ==
    ASSUME NEW h \in Seq(Rational), NEW t, t = Len(h), t # 0, h[t] # Whole(0)
    PROVE  /\ \E i \in Opened(h) : EndOf(h, i) = t /\ h[i] = h[t]
           /\ \A i, j \in Opened(h) : EndOf(h, i) = t /\ EndOf(h, j) = t => i = j
<1>1. t \in Nat \ {0} /\ DOMAIN h = 1..t
  OBVIOUS
<1> DEFINE C == {i \in 1..t : \A m \in i..t : h[m] = h[t]}
<1>2. C \in SUBSET Nat /\ C # {}
  <2>1. t \in C
    BY <1>1
  <2> QED
    BY <1>1, <2>1
<1>3. PICK a \in C : \A b \in C : a <= b
  <2> HIDE DEF C
  <2> QED
    BY <1>2, LeastNatural
<1>4. a \in 1..t /\ (\A m \in a..t : h[m] = h[t]) /\ h[a] = h[t]
  BY <1>1, <1>3
<1>5. h[a] # Before(h, a)
  <2>1. CASE a = 1
    BY <1>4, <2>1 DEF Before
  <2>2. CASE a # 1
    <3> DEFINE p == a - 1
    <3>1. p \in 1..t /\ p < a /\ p + 1 = a
      BY <1>1, <1>4, <2>2
    <3>2. p \notin C
      <4> HIDE DEF C, p
      <4> QED
        BY <1>1, <1>3, <1>4, <3>1
    <3>3. PICK m \in p..t : h[m] # h[t]
      BY <3>1, <3>2
    <3>4. m = p
      <4>1. m \notin a..t
        BY <1>4, <3>3
      <4> HIDE DEF p
      <4> QED
        BY <1>1, <1>4, <3>1, <4>1
    <3>5. Before(h, a) = h[p]
      BY <2>2 DEF Before
    <3> QED
      BY <1>4, <3>3, <3>4, <3>5
  <2> QED
    BY <2>1, <2>2
<1>6. a \in Opened(h) /\ EndOf(h, a) = t
  <2>1. a \in DOMAIN h /\ t \in a..Len(h)
    BY <1>1, <1>4
  <2>2. Holds(h, a, t)
    BY <1>1, <1>4 DEF Holds
  <2>3. EndOf(h, a) = t
    BY <2>1, <2>2, EndIs
  <2> QED
    BY <1>4, <1>5, <2>1, <2>3 DEF Opened
<1>7. ASSUME NEW i \in Opened(h), NEW j \in Opened(h), EndOf(h, i) = t, EndOf(h, j) = t, i < j
      PROVE  FALSE
  <2>1. i \in 1..t /\ j \in 1..t /\ h[j] # Before(h, j)
    BY <1>1 DEF Opened
  <2>2. \A m \in i..t : h[m] = h[i]
    BY <1>1, <1>7, <2>1, EndIs DEF Holds
  <2>3. j \in i..t /\ j - 1 \in i..t /\ j # 1
    BY <1>1, <1>7, <2>1
  <2>4. h[j] = h[i] /\ h[j - 1] = h[i]
    BY <2>2, <2>3
  <2> QED
    BY <2>1, <2>3, <2>4 DEF Before
<1>8. ASSUME NEW i \in Opened(h), NEW j \in Opened(h), EndOf(h, i) = t, EndOf(h, j) = t
      PROVE  i = j
  <2>1. i \in 1..t /\ j \in 1..t
    BY <1>1 DEF Opened
  <2> QED
    BY <1>1, <1>7, <1>8, <2>1
<1> QED
  BY <1>4, <1>6, <1>8

\* Which bars open a trade, with one more of them.
LEMMA OpenedGrow ==
    ASSUME NEW h, NEW c, NEW x, NEW y, NEW h2, NEW c2, Grown(h, c, x, y, h2, c2),
           NEW t, t = Len(h)
    PROVE  /\ \A i \in 1..t : i \in Opened(h2) <=> i \in Opened(h)
           /\ t + 1 \in Opened(h2) <=> x # Whole(0) /\ x # Before(h2, t + 1)
           /\ EndOf(h2, t + 1) = t + 1
<1>0. GrownFacts(h, c, x, y, h2, c2, t)
  BY GrownIs
<1>1. /\ t \in Nat /\ DOMAIN h = 1..t /\ DOMAIN h2 = 1..(t + 1) /\ Len(h2) = t + 1
      /\ h2[t + 1] = x /\ (\A j \in 1..t : h2[j] = h[j])
      /\ h2 \in Seq(Rational) /\ \A i \in 1..t : Before(h2, i) = Before(h, i)
  BY <1>0 DEF GrownFacts
<1>2. \A i \in 1..t : i \in Opened(h2) <=> i \in Opened(h)
  BY <1>1 DEF Opened
<1>3. t + 1 \in Opened(h2) <=> x # Whole(0) /\ x # Before(h2, t + 1)
  BY <1>1 DEF Opened
<1> DEFINE n1 == t + 1
<1>4. n1 \in DOMAIN h2 /\ n1 \in n1..Len(h2) /\ Len(h2) = n1 /\ n1 \in Nat
  BY <1>1
<1> HIDE DEF n1
<1>5. Holds(h2, n1, n1)
  BY <1>4 DEF Holds
<1>6. EndOf(h2, n1) = n1
  BY <1>1, <1>4, <1>5, EndIs
<1> QED
  BY <1>2, <1>3, <1>6 DEF n1

\* The last equity is explained with one more bar: a bar opens a trade, adds to
\* the one that is open, or is flat and pays for the exit.
LEMMA ExplainedGrows ==
    ASSUME NEW h, NEW c, NEW x, NEW y, NEW h2, NEW c2, Grown(h, c, x, y, h2, c2),
           NEW t, t = Len(h), Explained(h, c),
           x = Whole(0) =>
              y = Product(Last(c), Minus(Whole(1), Cost(Absolute(Before(h2, t + 1)))))
    PROVE  Explained(h2, c2)
<1>0. GrownFacts(h, c, x, y, h2, c2, t)
  BY GrownIs
<1> DEFINE S == 1..t
           a == t + 1
           v == Growth(h, c)
           w == Growth(h2, c2)
           z == c[a]
           q == Over(y, z)
<1>1. /\ t \in Nat /\ DOMAIN h = S /\ DOMAIN h2 = 1..a /\ Len(h2) = a
      /\ Last(c) = z /\ Last(c2) = y
      /\ h2[a] = x /\ c2[a + 1] = y /\ (\A i \in S : h2[i] = h[i])
      /\ (\A i \in 1..a : c2[i] = c[i] /\ c[i] # Whole(0) /\ c[i] \in Rational)
      /\ WalkOver(h2, c2)
      /\ Before(h2, a) = (IF t = 0 THEN Whole(0) ELSE h[t])
      /\ (\A i \in S : Before(h2, i) = Before(h, i))
  <2>1. (t + 1) + 1 = t + 2
    BY <1>0 DEF GrownFacts
  <2> QED
    BY <1>0, <2>1 DEF GrownFacts
<1>2. WalkOver(h, c) /\ y \in Rational /\ h \in Seq(Rational) /\ x \in Rational
  BY DEF Grown, WalkOver
<1>3. /\ \A i \in S : i \in Opened(h2) <=> i \in Opened(h)
      /\ a \in Opened(h2) <=> x # Whole(0) /\ x # Before(h2, a)
      /\ EndOf(h2, a) = a
  BY OpenedGrow
<1>4. \A i \in S : EndOf(h2, i) = IF EndOf(h, i) = t /\ x = h[i] THEN a ELSE EndOf(h, i)
  BY EndsGrow
<1>5. /\ v \in [S -> Rational]
      /\ \A i \in Opened(h) : v[i] = Over(c[EndOf(h, i) + 1], c[i])
      /\ \A i \in S \ Opened(h) :
            v[i] = IF h[i] # Whole(0) THEN Whole(1)
                   ELSE Minus(Whole(1), Cost(Absolute(Before(h, i))))
  BY <1>1, <1>2, GrowthIs
<1>6. /\ w \in [1..a -> Rational]
      /\ \A i \in Opened(h2) : w[i] = Over(c2[EndOf(h2, i) + 1], c2[i])
      /\ \A i \in (1..a) \ Opened(h2) :
            w[i] = IF h2[i] # Whole(0) THEN Whole(1)
                   ELSE Minus(Whole(1), Cost(Absolute(Before(h2, i))))
  BY <1>1, GrowthIs
<1>7. /\ IsFiniteSet(S) /\ a \notin S /\ a \in 1..a /\ 1..a = S \cup {a}
      /\ S \subseteq 1..a /\ Opened(h) \subseteq S /\ Opened(h2) \subseteq 1..a
  <2>1. IsFiniteSet(1..t)
    BY <1>1, FS_Interval
  <2>2. Opened(h) \subseteq S /\ Opened(h2) \subseteq 1..a
    BY <1>1 DEF Opened
  <2> QED
    BY <1>1, <2>1, <2>2
<1>8. \A i \in Opened(h) : EndOf(h, i) \in S /\ EndOf(h, i) + 1 \in 1..a
  <2> SUFFICES ASSUME NEW i \in Opened(h) PROVE EndOf(h, i) \in S /\ EndOf(h, i) + 1 \in 1..a
    OBVIOUS
  <2>1. i \in S /\ EndOf(h, i) \in i..t
    BY <1>1, <1>2, <1>7, EndIs
  <2> QED
    BY <1>1, <2>1
<1>9. z \in Rational /\ z # Whole(0) /\ q \in Rational /\ Product(q, z) = y
  <2>1. z \in Rational /\ z # Whole(0)
    BY <1>1, <1>7
  <2> HIDE DEF z
  <2> QED
    BY <1>2, <2>1, OverCancels
<1>10. Last(c) = ProductOf(v) /\ (Explained(h2, c2) <=> Last(c2) = ProductOf(w))
  BY DEF Explained
<1> HIDE DEF S, v, w, q
<1>11. ASSUME NEW i \in S, ~(i \in Opened(h) /\ EndOf(h, i) = t /\ x = h[i])
       PROVE  w[i] = v[i]
  <2>1. CASE i \in Opened(h)
    <3> DEFINE e == EndOf(h, i)
    <3>1. EndOf(h2, i) = e
      BY <1>4, <1>11, <2>1
    <3>2. e + 1 \in 1..a /\ i \in 1..a
      BY <1>7, <1>8, <2>1
    <3>3. c2[e + 1] = c[e + 1] /\ c2[i] = c[i]
      BY <1>1, <3>2
    <3>4. i \in Opened(h2)
      BY <1>3, <2>1
    <3>5. w[i] = Over(c2[EndOf(h2, i) + 1], c2[i])
      BY <1>6, <3>4
    <3>6. v[i] = Over(c[EndOf(h, i) + 1], c[i])
      BY <1>5, <2>1
    <3> QED
      BY <3>1, <3>3, <3>5, <3>6
  <2>2. CASE i \notin Opened(h)
    <3>1. i \in (1..a) \ Opened(h2) /\ h2[i] = h[i] /\ Before(h2, i) = Before(h, i)
      BY <1>1, <1>3, <1>7, <2>2
    <3>2. w[i] = IF h2[i] # Whole(0) THEN Whole(1)
                 ELSE Minus(Whole(1), Cost(Absolute(Before(h2, i))))
      BY <1>6, <3>1
    <3>3. v[i] = IF h[i] # Whole(0) THEN Whole(1)
                 ELSE Minus(Whole(1), Cost(Absolute(Before(h, i))))
      BY <1>5, <2>2
    <3> QED
      BY <3>1, <3>2, <3>3
  <2> QED
    BY <2>1, <2>2
<1>14. /\ v \in [S -> Rational] /\ w \in [1..a -> Rational]
       /\ IsFiniteSet(S) /\ a \notin S /\ 1..a = S \cup {a}
  BY <1>5, <1>6, <1>7
<1>12. CASE ~\E i \in Opened(h) : EndOf(h, i) = t /\ x = h[i]
  <2>1. Agree(v, w, S)
    BY <1>11, <1>12 DEF Agree
  <2>2. ProductOf(v) \in Rational /\ ProductOf(w) = Product(w[a], ProductOf(v))
    <3> HIDE DEF a
    <3> QED
      BY <1>14, <2>1, ProductAppend
  <2>3. CASE x = Whole(0)
    <3>1. a \in (1..a) \ Opened(h2) /\ h2[a] = Whole(0)
      BY <1>1, <1>3, <1>7, <2>3
    <3>2. w[a] = Minus(Whole(1), Cost(Absolute(Before(h2, a))))
      BY <1>6, <3>1
    <3>3. w[a] \in Rational
      BY <1>6, <1>7
    <3>4. y = Product(z, w[a])
      BY <1>1, <2>3, <3>2
    <3>5. y = Product(w[a], z)
      BY <1>9, <3>3, <3>4, ProductCommutes
    <3> QED
      BY <1>1, <1>10, <2>2, <3>5
  <2>4. CASE x # Whole(0)
    <3>1. x # Before(h2, a)
      <4> SUFFICES ASSUME x = Before(h2, a) PROVE FALSE
        OBVIOUS
      <4>1. t # 0 /\ x = h[t]
        BY <1>1, <2>4
      <4>2. \E i \in Opened(h) : EndOf(h, i) = t /\ h[i] = h[t]
        BY <1>2, <2>4, <4>1, LastOpened
      <4> QED
        BY <1>12, <4>1, <4>2
    <3>2. a \in Opened(h2)
      BY <1>3, <2>4, <3>1
    <3>3. w[a] = q
      BY <1>1, <1>3, <1>6, <1>7, <3>2 DEF q
    <3> QED
      BY <1>1, <1>9, <1>10, <2>2, <3>3
  <2> QED
    BY <2>3, <2>4
<1>13. CASE \E i \in Opened(h) : EndOf(h, i) = t /\ x = h[i]
  <2>1. PICK i \in Opened(h) : EndOf(h, i) = t /\ x = h[i]
    BY <1>13
  <2>2. i \in S /\ t \in S /\ t # 0 /\ x # Whole(0) /\ x = h[t]
    <3>1. i \in S /\ t \in S /\ h[i] # Whole(0)
      BY <1>7, <1>8, <2>1 DEF Opened
    <3>2. Holds(h, i, t) /\ t \in i..t
      BY <1>1, <1>2, <2>1, <3>1, EndIs
    <3>3. h[t] = h[i]
      BY <3>2 DEF Holds
    <3> QED
      BY <1>1, <2>1, <3>1, <3>3 DEF S
  <2>3. \A j \in S \ {i} : w[j] = v[j]
    <3>1. \A j, l \in Opened(h) : EndOf(h, j) = t /\ EndOf(h, l) = t => j = l
      BY <1>2, <2>2, LastOpened
    <3> QED
      BY <1>11, <2>1, <3>1
  <2>4. w[i] = Product(q, v[i])
    <3> DEFINE b == c[i]
    <3>1. i \in Opened(h2) /\ EndOf(h2, i) = a /\ i \in 1..a
      BY <1>3, <1>4, <1>7, <2>1, <2>2
    <3>2. c2[i] = b /\ b \in Rational /\ b # Whole(0)
      BY <1>1, <3>1
    <3>3. w[i] = Over(c2[EndOf(h2, i) + 1], c2[i])
      BY <1>6, <3>1
    <3>4. w[i] = Over(y, b)
      BY <1>1, <3>1, <3>2, <3>3
    <3>5. v[i] = Over(c[EndOf(h, i) + 1], c[i])
      BY <1>5, <2>1
    <3>6. v[i] = Over(z, b)
      BY <2>1, <3>5
    <3> HIDE DEF b, z
    <3>7. Product(Over(y, z), Over(z, b)) = Over(y, b)
      BY <1>2, <1>9, <3>2, QuotientsChain
    <3> QED
      BY <3>4, <3>6, <3>7 DEF q
  <2> DEFINE u == [j \in S |-> w[j]]
  <2>5. u \in [S -> Rational] /\ \A j \in S : u[j] = w[j]
    BY <1>6, <1>7
  <2> HIDE DEF u
  <2>6. ProductOf(v) \in Rational /\ ProductOf(u) = Product(q, ProductOf(v))
    <3>1. Agree(v, u, S \ {i})
      BY <2>3, <2>5 DEF Agree
    <3>2. u[i] = Product(q, v[i])
      BY <2>2, <2>4, <2>5
    <3>3. /\ v \in [S -> Rational] /\ u \in [S -> Rational] /\ IsFiniteSet(S)
          /\ i \in S /\ q \in Rational
      BY <1>9, <1>14, <2>2, <2>5
    <3> QED
      BY ONLY <3>1, <3>2, <3>3, ProductUpdate
  <2>7. ProductOf(u) \in Rational /\ ProductOf(w) = Product(w[a], ProductOf(u))
    <3>1. Agree(u, w, S)
      BY <2>5 DEF Agree
    <3>2. u \in [S -> Rational]
      BY <2>5
    <3> HIDE DEF a
    <3> QED
      BY ONLY <1>14, <3>1, <3>2, ProductAppend
  <2>8. w[a] = Whole(1)
    <3>1. Before(h2, a) = x
      BY <1>1, <2>2
    <3>2. a \in (1..a) \ Opened(h2) /\ h2[a] # Whole(0)
      BY <1>1, <1>3, <1>7, <2>2, <3>1
    <3> QED
      BY <1>6, <3>2
  <2>9. ProductOf(w) = ProductOf(u)
    BY <2>7, <2>8, ProductByOne
  <2> QED
    BY <1>1, <1>9, <1>10, <2>6, <2>9
<1> QED
  BY <1>12, <1>13

-----------------------------------------------------------------------------
(* The curve                                                               *)

\* A flat bar leaves the equity as it was, but for the cost of the exit.
LEMMA FlatEquity ==
    ASSUME NEW equity \in Rational, NEW position \in Rational,
           NEW from \in Nat \ {0}, NEW to \in Nat \ {0}
    PROVE  /\ NextEquity(equity, position, Whole(0), from, to)
                = Product(equity, Minus(Whole(1), Cost(Absolute(position))))
           /\ NextEquity(equity, Whole(0), Whole(0), from, to) = equity
<1> DEFINE bar_return == Minus(Over(Whole(to), Whole(from)), Whole(1))
<1>1. Whole(0) \in Rational /\ Whole(1) \in Rational
  BY SmallFractions
<1>2. bar_return \in Rational
  <2>1. from \in Int /\ to \in Int
    OBVIOUS
  <2>2. Whole(to) \in Rational /\ Whole(from) \in Rational
    BY <2>1, WholeIs
  <2>3. Whole(from) \in Positives
    BY <2>2 DEF Whole, Positives
  <2> QED
    BY <1>1, <2>2, <2>3, OverTypes, PlusTypes
<1>3. CostRate \in Rational
  BY BacktestAssumption, FractionsAre
<1>4. Plus(Whole(1), Product(Whole(0), bar_return)) = Whole(1)
  BY <1>1, <1>2, ProductByZero, PlusZero
<1>5. \A p : NextEquity(equity, p, Whole(0), from, to)
              = Product(equity, Product(Plus(Whole(1), Product(Whole(0), bar_return)),
                                        Minus(Whole(1), Cost(Absolute(Minus(Whole(0), p))))))
  BY DEF NextEquity
<1> HIDE DEF bar_return
<1>6. ASSUME NEW p \in Rational
      PROVE  NextEquity(equity, p, Whole(0), from, to)
                = Product(equity, Minus(Whole(1), Cost(Absolute(p))))
  <2> DEFINE kept == Minus(Whole(1), Cost(Absolute(p)))
  <2>1. Absolute(p) \in Rational
    BY AbsTypes, SmallFractions
  <2>2. Cost(Absolute(p)) \in Rational
    BY <1>3, <2>1, ProductTypes DEF Cost
  <2>3. kept \in Rational
    BY <1>1, <2>2, PlusTypes
  <2>4. Absolute(Minus(Whole(0), p)) = Absolute(p)
    BY MinusZero
  <2>5. NextEquity(equity, p, Whole(0), from, to) = Product(equity, Product(Whole(1), kept))
    BY <1>4, <1>5, <2>4
  <2> HIDE DEF kept
  <2>6. Product(Whole(1), kept) = kept
    BY <2>3, ProductByOne
  <2> QED
    BY <2>5, <2>6 DEF kept
<1>7. NextEquity(equity, Whole(0), Whole(0), from, to) = equity
  <2>1. Absolute(Whole(0)) = Whole(0)
    BY DEF Absolute, Whole, Magnitude
  <2>2. Cost(Whole(0)) = Whole(0)
    BY <1>3, ProductByZero DEF Cost
  <2>3. Minus(Whole(1), Whole(0)) = Whole(1)
    BY <1>1, MinusZero
  <2>4. Product(equity, Whole(1)) = equity
    BY ProductByOne
  <2>5. NextEquity(equity, Whole(0), Whole(0), from, to)
          = Product(equity, Minus(Whole(1), Cost(Absolute(Whole(0)))))
    BY <1>1, <1>6
  <2> QED
    BY <2>1, <2>2, <2>3, <2>4, <2>5
<1> QED
  BY <1>6, <1>7

\* How the equities of a walk over b come from its positions.
Follows(h, c, b) ==
    /\ c[1] = Whole(1)
    /\ \A i \in DOMAIN h :
         c[i + 1] = NextEquity(c[i], Before(h, i), h[i], b[i].close, b[i + 1].close)

\* What Walk keeps: the equities follow the positions and are explained by them.
CurveIs == step = "walk" =>
    WalkOver(held, curve) /\ Follows(held, curve, bars) /\ Explained(held, curve)

\* A walk begins with an equity of one.
LEMMA CurveBegins ==
    ASSUME NEW b
    PROVE  /\ WalkOver(<< >>, <<Whole(1)>>) /\ Follows(<< >>, <<Whole(1)>>, b)
           /\ Explained(<< >>, <<Whole(1)>>)
<1> DEFINE h == << >>
           c == <<Whole(1)>>
<1>1. /\ h \in Seq(Rational) /\ DOMAIN h = {} /\ Len(h) = 0
      /\ c \in Seq(Rational) /\ Len(c) = 1 /\ c[1] = Whole(1)
  <2>1. Whole(1) \in Rational
    BY SmallFractions
  <2> QED
    BY <2>1
<1> HIDE DEF h, c
<1>2. WalkOver(h, c) /\ Follows(h, c, b)
  BY <1>1 DEF WalkOver, Follows
<1>3. DOMAIN Growth(h, c) = {}
  BY <1>1 DEF Growth
<1>4. ProductOf(Growth(h, c)) = Whole(1)
  BY <1>3, ProductOfNone
<1>5. Explained(h, c)
  BY <1>1, <1>4 DEF Explained, Last
<1> QED
  BY <1>2, <1>5 DEF h, c

\* One more bar.
LEMMA CurveGrows == ResearchInv /\ CurveIs /\ Walk => CurveIs'
<1> SUFFICES ASSUME ResearchInv, CurveIs, Walk PROVE CurveIs'
  OBVIOUS
<1> DEFINE t == Len(curve)
           x == PositionFn(StrategyIds[k], SubSeq(bars, 1, t))
           p == Before(held', t)
           y == NextEquity(Last(curve), p, x, bars[t].close, bars[t + 1].close)
<1>1. CASE Last(curve) = Whole(0)
  <2>1. step' = "idle"
    BY <1>1 DEF Walk, RollBack
  <2> QED
    BY <2>1 DEF CurveIs
<1>2. CASE Last(curve) # Whole(0)
  <2>1. /\ step = "walk" /\ step' = "walk" /\ t < Len(bars) /\ bars' = bars
        /\ held' = Append(held, x) /\ curve' = Append(curve, y)
    BY <1>2 DEF Walk
  <2>2. /\ WalkOver(held, curve) /\ Follows(held, curve, bars) /\ Explained(held, curve)
        /\ bars \in Seq(ClosedBars) /\ k \in 1..3
    BY <2>1 DEF CurveIs, ResearchInv, WalkIs, PlaceIs
  <2>3. /\ held \in Seq(Rational) /\ curve \in Seq(Rational) /\ t = Len(held) + 1
        /\ Len(held) \in Nat /\ t \in Nat \ {0} /\ t \in DOMAIN bars /\ t + 1 \in DOMAIN bars
    BY <2>1, <2>2 DEF WalkOver
  <2>4. x \in Rational
    <3>1. SubSeq(bars, 1, t) \in Seq(ClosedBars)
      BY <2>2, <2>3
    <3> QED
      BY <2>2, <3>1, IdsAre, PositionIs DEF Bounded
  <2>5. bars[t].close \in Nat \ {0} /\ bars[t + 1].close \in Nat \ {0}
    <3>1. bars[t] \in ClosedBars /\ bars[t + 1] \in ClosedBars
      BY <2>2, <2>3
    <3> QED
      BY <3>1, BarIs
  <2>6. Last(curve) \in Rational /\ Last(curve) = curve[t]
    BY <2>3 DEF Last
  <2> HIDE DEF x
  <2>7. p \in Rational
    <3> HIDE DEF t
    <3>1. held' \in Seq(Rational) /\ Len(held') = t
      BY <2>1, <2>3, <2>4
    <3>2. t # 1 => t - 1 \in 1..Len(held')
      BY <2>3, <3>1
    <3>3. Whole(0) \in Rational
      BY SmallFractions
    <3> QED
      BY <3>1, <3>2, <3>3 DEF Before
  <2> HIDE DEF p
  <2>8. y \in Rational
    <3> HIDE DEF t
    <3> QED
      BY <2>4, <2>5, <2>6, <2>7, NextEquityType
  <2>9. x = Whole(0) => y = Product(Last(curve), Minus(Whole(1), Cost(Absolute(p))))
    <3> HIDE DEF t
    <3> QED
      BY <2>5, <2>6, <2>7, FlatEquity
  <2> HIDE DEF y
  <2>10. Grown(held, curve, x, y, held', curve')
    BY <1>2, <2>1, <2>2, <2>4, <2>6, <2>8 DEF Grown
  <2> DEFINE s == Len(held)
  <2>11. GrownFacts(held, curve, x, y, held', curve', s)
    BY <2>10, GrownIs
  <2>12. x = Whole(0) =>
            y = Product(Last(curve), Minus(Whole(1), Cost(Absolute(Before(held', s + 1)))))
    BY <2>3, <2>9 DEF p
  <2>13. Explained(held', curve')
    BY <2>2, <2>10, <2>12, ExplainedGrows
  <2>14. Follows(held', curve', bars)
    <3> HIDE DEF s, t
    <3>1. /\ s \in Nat /\ s + 1 = t /\ DOMAIN held' = 1..t /\ DOMAIN held = 1..s
          /\ held'[t] = x /\ curve'[t + 1] = y
          /\ (\A i \in 1..s : held'[i] = held[i] /\ Before(held', i) = Before(held, i))
          /\ (\A i \in 1..t : curve'[i] = curve[i])
      <4>1. s + 1 = t /\ s + 2 = t + 1
        BY <2>3 DEF s
      <4> QED
        BY <2>11, <4>1 DEF GrownFacts
    <3>2. curve'[1] = Whole(1)
      BY <2>2, <2>3, <3>1 DEF Follows
    <3>3. ASSUME NEW i \in DOMAIN held'
          PROVE  curve'[i + 1] = NextEquity(curve'[i], Before(held', i), held'[i],
                                            bars[i].close, bars[i + 1].close)
      <4>1. CASE i = t
        <5>1. curve'[t] = Last(curve)
          <6>1. t \in 1..t
            BY <2>3
          <6> QED
            BY <2>6, <3>1, <6>1
        <5> QED
          BY <3>1, <4>1, <5>1 DEF y, p
      <4>2. CASE i # t
        <5>1. i \in 1..s /\ i \in 1..t /\ i + 1 \in 1..t
          BY <2>3, <3>1, <4>2
        <5>2. curve[i + 1] = NextEquity(curve[i], Before(held, i), held[i],
                                        bars[i].close, bars[i + 1].close)
          BY <2>2, <3>1, <5>1 DEF Follows
        <5> QED
          BY <3>1, <5>1, <5>2
      <4> QED
        BY <4>1, <4>2
    <3> QED
      BY <3>2, <3>3 DEF Follows
  <2>15. WalkOver(held', curve')
    BY <2>11 DEF GrownFacts
  <2> QED
    BY <2>1, <2>13, <2>14, <2>15 DEF CurveIs
<1> QED
  BY <1>1, <1>2

\* Every step keeps it.
LEMMA CurveHolds == Spec => [](ResearchInv /\ CurveIs)
<1>1. Init => CurveIs
  BY DEF Init, CurveIs
<1>2. ResearchInv /\ CurveIs /\ [Next]_vars => CurveIs'
  <2> SUFFICES ASSUME ResearchInv, CurveIs, [Next]_vars PROVE CurveIs'
    OBVIOUS
  <2>1. ASSUME UNCHANGED <<step, bars, held, curve>> PROVE CurveIs'
    BY <2>1 DEF CurveIs
  <2>2. ASSUME step' # "walk" PROVE CurveIs'
    BY <2>2 DEF CurveIs
  <2>3. ASSUME held' = << >>, curve' = <<Whole(1)>> PROVE CurveIs'
    BY <2>3, CurveBegins DEF CurveIs
  <2>4. ASSUME NEW s \in Symbol, StoreBar(s) PROVE CurveIs'
    BY <2>1, <2>4 DEF StoreBar, walk
  <2>5. CASE Start
    BY <2>2, <2>5 DEF Start
  <2>6. CASE Fetch
    <3>1. \/ UNCHANGED <<step, bars, held, curve>>
          \/ held' = << >> /\ curve' = <<Whole(1)>>
      BY <2>6 DEF Fetch, walk
    <3> QED
      BY <2>1, <2>3, <3>1
  <2>7. CASE InsertBacktest
    <3>1. \/ step' # "walk"
          \/ held' = << >> /\ curve' = <<Whole(1)>>
      BY <2>7 DEF InsertBacktest, RollBack, GoOn
    <3> QED
      BY <2>2, <2>3, <3>1
  <2>8. CASE Commit
    BY <2>2, <2>8 DEF Commit
  <2>9. CASE Crash
    BY <2>2, <2>9 DEF Crash, RollBack
  <2>10. CASE UNCHANGED vars
    BY <2>1, <2>10 DEF vars, walk
  <2> QED
    BY <2>4, <2>5, <2>6, <2>7, <2>8, <2>9, <2>10, CurveGrows DEF Next
<1> QED
  BY <1>1, <1>2, ResearchHolds, PTL DEF Spec

\* Whatever the prices, the thresholds and the costs: the returns of the trades
\* and the costs of the exits are the whole of the curve.
THEOREM TradesExplainTheCurve == Spec => []TradesAndExitsExplainTheCurve
<1>1. CurveIs => TradesAndExitsExplainTheCurve
  BY ExplainedIs DEF CurveIs
<1> QED
  BY <1>1, CurveHolds, PTL

-----------------------------------------------------------------------------
(* Records                                                                 *)

\* What NoTradesNoRecord says of the metrics of a row.
Recorded(m) ==
    /\ (m.numTrades = 0) = (m.turnover = Whole(0))
    /\ m.numTrades = 0 =>
        /\ m.totalReturn = Whole(0)
        /\ {m.winRate, m.expectancy, m.payoffRatio, m.profitFactor, m.sharpeRatio,
            m.sortinoRatio, m.calmarRatio, m.recoveryFactor} = {None}
    /\ m.numTrades > 0 =>
        /\ None \notin {m.winRate, m.expectancy}
        /\ m.sharpeRatio = None => m.totalReturn = Whole(0) /\ m.recoveryFactor = None

\* The property says so of every row.
LEMMA RecordedIs ==
    NoTradesNoRecord <=> \A row \in backtests \cup inserted : Recorded(row.metrics)
BY Zenon DEF NoTradesNoRecord, Recorded

\* A walk holds nothing throughout.
Flat(h) == \A i \in DOMAIN h : h[i] = Whole(0)

\* As many trades as bars that open one: none when nothing is ever held.
LEMMA TradesOfFlat ==
    ASSUME NEW h \in Seq(Rational)
    PROVE  /\ IsFiniteSet(Opened(h)) /\ Cardinality(Opened(h)) \in Nat
           /\ Opened(h) = {} <=> Flat(h)
           /\ Cardinality(Opened(h)) = 0 <=> Flat(h)
<1> DEFINE t == Len(h)
           O == Opened(h)
<1>1. t \in Nat /\ DOMAIN h = 1..t
  OBVIOUS
<1>2. IsFiniteSet(O) /\ Cardinality(O) \in Nat
  <2>1. O \in SUBSET (1..t)
    BY <1>1 DEF Opened
  <2>2. IsFiniteSet(1..t)
    BY <1>1, FS_Interval
  <2> HIDE DEF O, t
  <2> QED
    BY <2>1, <2>2, FS_Subset, FS_CardinalityType
<1>3. Flat(h) => O = {}
  BY DEF Flat, Opened
<1>4. ASSUME ~Flat(h) PROVE O # {}
  <2> DEFINE C == {i \in 1..t : h[i] # Whole(0)}
  <2>1. C \in SUBSET Nat /\ C # {}
    BY <1>1, <1>4 DEF Flat
  <2>2. PICK i \in C : \A j \in C : i <= j
    <3> HIDE DEF C
    <3> QED
      BY <2>1, LeastNatural
  <2>3. i \in 1..t /\ h[i] # Whole(0)
    BY <2>2
  <2>4. Before(h, i) = Whole(0)
    <3>1. CASE i = 1
      BY <3>1 DEF Before
    <3>2. CASE i # 1
      <4> DEFINE j == i - 1
      <4>1. j \in 1..t /\ j < i /\ j \in Nat /\ i \in Nat
        BY <1>1, <2>3, <3>2
      <4>2. j \notin C
        <5> HIDE DEF j, C
        <5> QED
          BY <2>2, <4>1
      <4>3. h[j] = Whole(0)
        BY <4>1, <4>2
      <4> QED
        BY <3>2, <4>3 DEF Before
    <3> QED
      BY <3>1, <3>2
  <2>5. i \in O
    BY <1>1, <2>3, <2>4 DEF Opened
  <2> QED
    BY <2>5
<1>5. Cardinality(O) = 0 <=> O = {}
  BY <1>2, FS_EmptySet
<1> QED
  BY <1>2, <1>3, <1>4, <1>5

\* The size of what is not zero is positive.
LEMMA NonZeroSize ==
    ASSUME NEW a \in Rational, a # Whole(0)
    PROVE  Absolute(a) \in Positives
<1>1. a.n \in Int /\ a.d \in Nat \ {0} /\ a = [n |-> a.n, d |-> a.d]
  BY RationalIsFrac
<1>2. a.n # 0
  <2> SUFFICES ASSUME a.n = 0 PROVE FALSE
    OBVIOUS
  <2>1. Whole(0) \in Rational /\ a.n * Whole(0).d = Whole(0).n * a.d
    <3>1. Whole(0) \in Rational
      BY SmallFractions
    <3> QED
      BY <1>1, <3>1 DEF Whole
  <2> QED
    BY <2>1, SameFraction
<1>3. Absolute(a) \in Rational /\ Absolute(a).n = Magnitude(a.n)
  <2>1. Absolute(a) \in Rational
    BY AbsTypes, SmallFractions
  <2>2. Absolute(a) = [n |-> Magnitude(a.n), d |-> a.d]
    BY <1>1 DEF Absolute
  <2> QED
    BY <2>1, <2>2
<1>4. Magnitude(a.n) > 0
  BY <1>1, <1>2 DEF Magnitude
<1> QED
  BY <1>3, <1>4 DEF Positives

\* Nothing is turned over just when nothing is ever held.
LEMMA TurnoverOfFlat ==
    ASSUME NEW h \in Seq(Rational)
    PROVE  Turnover(h) = Whole(0) <=> Flat(h)
<1> DEFINE S == 1..Len(h)
           f == [i \in DOMAIN h |-> Absolute(Minus(h[i], Before(h, i)))]
<1>1. Len(h) \in Nat /\ DOMAIN h = S /\ Whole(0) \in Rational
  BY SmallFractions
<1>2. IsFiniteSet(S)
  BY <1>1, FS_Interval
<1>3. ASSUME NEW i \in S PROVE h[i] \in Rational /\ Before(h, i) \in Rational
  <2>1. i # 1 => i - 1 \in S
    BY <1>1
  <2> QED
    BY <1>1, <2>1 DEF Before
<1>4. /\ f \in [S -> Ratios]
      /\ \A i \in S : f[i] = Absolute(Minus(h[i], Before(h, i)))
  <2>1. ASSUME NEW i \in S PROVE Absolute(Minus(h[i], Before(h, i))) \in Ratios
    BY <1>3, PlusTypes, AbsTypes
  <2> QED
    BY <1>1, <2>1
<1>5. Turnover(h) = Total(f)
  BY DEF Turnover
<1> HIDE DEF S, f
<1>6. ASSUME Flat(h) PROVE Total(f) = Whole(0)
  <2>1. ASSUME NEW i \in S PROVE f[i] = Whole(0)
    <3>1. h[i] = Whole(0) /\ Before(h, i) = Whole(0)
      <4>1. i # 1 => i - 1 \in S
        BY <1>1 DEF S
      <4> QED
        BY <1>1, <1>6, <4>1 DEF Flat, Before
    <3>2. Minus(Whole(0), Whole(0)) = Whole(0)
      BY <1>1, MinusZero
    <3>3. Absolute(Whole(0)) = Whole(0)
      BY DEF Absolute, Whole, Magnitude
    <3> QED
      BY <1>4, <3>1, <3>2, <3>3
  <2>2. f \in [S -> Rational]
    BY <1>4 DEF Ratios
  <2> QED
    BY <1>2, <2>1, <2>2, TotalZero
<1>7. ASSUME ~Flat(h) PROVE Total(f) # Whole(0)
  <2>1. PICK i \in Opened(h) : TRUE
    BY <1>7, TradesOfFlat
  <2>2. i \in S /\ h[i] # Before(h, i)
    BY <1>1 DEF Opened
  <2>3. Minus(h[i], Before(h, i)) \in Rational /\ Minus(h[i], Before(h, i)) # Whole(0)
    BY <1>3, <2>2, PlusTypes, DifferenceAdds
  <2>4. f[i] \in Positives
    BY <1>4, <2>2, <2>3, NonZeroSize
  <2>5. Total(f) \in Positives
    BY <1>2, <1>4, <2>2, <2>4, TotalSign
  <2>6. Whole(0) \notin Positives
    BY DEF Whole, Positives
  <2> QED
    BY <2>5, <2>6
<1> QED
  BY <1>5, <1>6, <1>7

\* An equity that never moves.
Constant(c, t) == \A i \in 1..(t + 1) : c[i] = Whole(1)

\* It is where no step moves it.
LEMMA StepsAreConstant ==
    ASSUME NEW c, NEW t \in Nat, c[1] = Whole(1), \A i \in 1..t : c[i + 1] = c[i]
    PROVE  Constant(c, t)
<1> DEFINE C == {i \in 1..(t + 1) : c[i] # Whole(1)}
<1> SUFFICES ASSUME C # {} PROVE FALSE
  BY DEF Constant
<1>1. C \in SUBSET Nat
  OBVIOUS
<1>2. PICK i \in C : \A j \in C : i <= j
  <2> HIDE DEF C
  <2> QED
    BY <1>1, LeastNatural
<1>3. i \in 1..(t + 1) /\ c[i] # Whole(1) /\ i # 1
  BY <1>2
<1> DEFINE j == i - 1
<1>4. j \in 1..t /\ j \in 1..(t + 1) /\ j + 1 = i /\ j < i /\ j \in Nat /\ i \in Nat
  BY <1>3
<1>5. j \notin C
  <2> HIDE DEF j, C
  <2> QED
    BY <1>2, <1>4
<1>6. c[j] = Whole(1) /\ c[j + 1] = c[j]
  BY <1>4, <1>5
<1> HIDE DEF j
<1> QED
  BY <1>3, <1>4, <1>6

\* One over one, and nothing over one.
LEMMA OverUnit == Over(Whole(1), Whole(1)) = Whole(1) /\ Over(Whole(0), Whole(1)) = Whole(0)
<1>1. Whole(0) \in Rational /\ Whole(1) \in Rational /\ Whole(1) # Whole(0)
  BY SmallFractions DEF Whole
<1>2. ASSUME NEW a \in Rational PROVE Over(a, Whole(1)) = a
  <2>1. Over(a, Whole(1)) \in Rational /\ Product(Over(a, Whole(1)), Whole(1)) = a
    BY <1>1, OverCancels
  <2> QED
    BY <2>1, ProductByOne
<1> QED
  BY <1>1, <1>2

\* The returns of a walk.
LEMMA ReturnsAre ==
    ASSUME NEW h, NEW c, WalkOver(h, c)
    PROVE  /\ DOMAIN PeriodReturns(c) = DOMAIN h
           /\ \A i \in DOMAIN h : PeriodReturns(c)[i] = Minus(Over(c[i + 1], c[i]), Whole(1))
           /\ ToSet(PeriodReturns(c)) = {PeriodReturns(c)[i] : i \in DOMAIN h}
<1>1. h \in Seq(Rational) /\ Len(c) = Len(h) + 1 /\ Len(c) - 1 = Len(h) /\ DOMAIN h = 1..Len(h)
  BY DEF WalkOver
<1>2. PeriodReturns(c) = [i \in DOMAIN h |-> Minus(Over(c[i + 1], c[i]), Whole(1))]
  BY <1>1 DEF PeriodReturns
<1> DEFINE r == PeriodReturns(c)
<1> HIDE DEF r
<1>3. /\ DOMAIN r = DOMAIN h
      /\ \A i \in DOMAIN h : r[i] = Minus(Over(c[i + 1], c[i]), Whole(1))
  BY <1>2 DEF r
<1>4. ToSet(r) = {r[i] : i \in DOMAIN h}
  BY <1>3 DEF ToSet
<1> QED
  BY <1>3, <1>4 DEF r

\* Where nothing is held the equity never moves.
LEMMA FlatCurve ==
    ASSUME NEW h, NEW c, NEW b \in Seq(ClosedBars), WalkOver(h, c), Follows(h, c, b),
           Len(c) <= Len(b)
    PROVE  /\ Flat(h) => Constant(c, Len(h))
           /\ \A i \in DOMAIN h :
                h[i] = Whole(0) /\ Before(h, i) = Whole(0) => c[i + 1] = c[i]
<1>1. /\ h \in Seq(Rational) /\ c \in Seq(Rational) /\ Len(c) = Len(h) + 1 /\ Len(h) \in Nat
      /\ DOMAIN h = 1..Len(h) /\ Len(b) \in Nat
  BY DEF WalkOver
<1>2. ASSUME NEW i \in DOMAIN h, h[i] = Whole(0), Before(h, i) = Whole(0)
      PROVE  c[i + 1] = c[i]
  <2>1. c[i + 1] = NextEquity(c[i], Whole(0), Whole(0), b[i].close, b[i + 1].close)
    BY <1>2 DEF Follows
  <2>2. c[i] \in Rational /\ i \in DOMAIN b /\ i + 1 \in DOMAIN b
    BY <1>1
  <2>3. b[i].close \in Nat \ {0} /\ b[i + 1].close \in Nat \ {0}
    <3>1. b[i] \in ClosedBars /\ b[i + 1] \in ClosedBars
      BY <2>2
    <3> QED
      BY <3>1, BarIs
  <2>4. Whole(0) \in Rational
    BY SmallFractions
  <2> QED
    BY <2>1, <2>2, <2>3, <2>4, FlatEquity
<1>3. ASSUME Flat(h) PROVE Constant(c, Len(h))
  <2>1. ASSUME NEW i \in 1..Len(h) PROVE c[i + 1] = c[i]
    <3>1. h[i] = Whole(0) /\ Before(h, i) = Whole(0)
      <4>1. i # 1 => i - 1 \in DOMAIN h
        BY <1>1
      <4> QED
        BY <1>1, <1>3, <4>1 DEF Flat, Before
    <3> QED
      BY <1>1, <1>2, <3>1
  <2>2. c[1] = Whole(1)
    BY DEF Follows
  <2> QED
    BY <1>1, <2>1, <2>2, StepsAreConstant
<1> QED
  BY <1>2, <1>3

\* The metrics of an equity that never moved.
LEMMA ConstantMetrics ==
    ASSUME NEW h, NEW c, WalkOver(h, c), Constant(c, Len(h))
    PROVE  /\ \A r \in ToSet(PeriodReturns(c)) : r = Whole(0)
           /\ Minus(Last(c), Whole(1)) = Whole(0) /\ MaxDrawdown(c) = Whole(0)
<1>1. /\ h \in Seq(Rational) /\ c \in Seq(Rational) /\ Len(c) = Len(h) + 1 /\ Len(h) \in Nat
      /\ DOMAIN h = 1..Len(h) /\ DOMAIN c = 1..Len(c)
      /\ \A i \in DOMAIN c : c[i] = Whole(1)
  BY DEF WalkOver, Constant
<1>2. Whole(0) \in Rational /\ Whole(1) \in Rational
  BY SmallFractions
<1>3. Minus(Whole(1), Whole(1)) = Whole(0)
  BY <1>2, DifferenceAdds
<1>4. ASSUME NEW i \in DOMAIN h PROVE PeriodReturns(c)[i] = Whole(0)
  <2>1. i \in DOMAIN c /\ i + 1 \in DOMAIN c
    BY <1>1
  <2>2. PeriodReturns(c)[i] = Minus(Over(Whole(1), Whole(1)), Whole(1))
    BY <1>1, <2>1, ReturnsAre
  <2> QED
    BY <1>3, <2>2, OverUnit
<1>5. \A r \in ToSet(PeriodReturns(c)) : r = Whole(0)
  BY <1>4, ReturnsAre
<1>6. Last(c) = Whole(1)
  BY <1>1 DEF Last
<1>7. MaxDrawdown(c) = Whole(0)
  <2> DEFINE peak(j) == Greatest({c[i] : i \in 1..j})
             fall(j) == Over(Minus(peak(j), c[j]), peak(j))
  <2>1. MaxDrawdown(c) = Greatest({Whole(0)} \cup {fall(j) : j \in DOMAIN c})
    BY Zenon DEF MaxDrawdown
  <2>2. \A a \in {Whole(0), Whole(1)} : Greatest({a}) = a
    <3>1. \A a \in {Whole(0), Whole(1)} : AtMost(a, a)
      BY DEF AtMost, Whole
    <3> QED
      BY <3>1 DEF Greatest
  <2>3. ASSUME NEW j \in DOMAIN c PROVE fall(j) = Whole(0)
    <3>1. {c[i] : i \in 1..j} = {Whole(1)}
      <4>1. j \in 1..j /\ 1..j \subseteq DOMAIN c
        BY <1>1
      <4> QED
        BY <1>1, <4>1
    <3>2. peak(j) = Whole(1)
      BY <2>2, <3>1
    <3> HIDE DEF peak
    <3> QED
      BY <1>1, <1>3, <3>2, OverUnit
  <2> HIDE DEF fall
  <2>4. {Whole(0)} \cup {fall(j) : j \in DOMAIN c} = {Whole(0)}
    BY <2>3
  <2> QED
    BY <2>1, <2>2, <2>4
<1> QED
  BY <1>3, <1>5, <1>6, <1>7

\* Where the returns are equal and the first is none the equity never moved.
LEMMA EqualReturns ==
    ASSUME NEW h, NEW c, NEW b \in Seq(ClosedBars), WalkOver(h, c), Follows(h, c, b),
           Len(c) <= Len(b), Len(h) >= 1, h[1] = Whole(0),
           ~\E r, s \in ToSet(PeriodReturns(c)) : r # s
    PROVE  Constant(c, Len(h))
<1>1. /\ h \in Seq(Rational) /\ c \in Seq(Rational) /\ Len(c) = Len(h) + 1 /\ Len(h) \in Nat
      /\ DOMAIN h = 1..Len(h) /\ 1 \in DOMAIN h /\ \A i \in DOMAIN h : c[i] # Whole(0)
  BY DEF WalkOver
<1> DEFINE g == PeriodReturns(c)
<1>2. /\ \A i \in DOMAIN h : g[i] = Minus(Over(c[i + 1], c[i]), Whole(1))
      /\ ToSet(g) = {g[i] : i \in DOMAIN h}
  BY ReturnsAre
<1>3. \A i \in DOMAIN h : g[i] = g[1]
  BY <1>1, <1>2
<1> HIDE DEF g
<1>4. c[1] = Whole(1) /\ c[1 + 1] = c[1]
  <2>1. Before(h, 1) = Whole(0)
    BY DEF Before
  <2>2. c[1] = Whole(1)
    BY DEF Follows
  <2> QED
    BY <1>1, <2>1, <2>2, FlatCurve
<1>5. Whole(0) \in Rational /\ Whole(1) \in Rational
  BY SmallFractions
<1>6. g[1] = Whole(0)
  <2>1. Minus(Whole(1), Whole(1)) = Whole(0)
    BY <1>5, DifferenceAdds
  <2> QED
    BY <1>1, <1>2, <1>4, <2>1, OverUnit
<1>7. ASSUME NEW i \in DOMAIN h PROVE c[i + 1] = c[i]
  <2> DEFINE x == c[i + 1]
             y == c[i]
  <2>1. x \in Rational /\ y \in Rational /\ y # Whole(0)
    BY <1>1
  <2>2. Minus(Over(x, y), Whole(1)) = Whole(0)
    BY <1>2, <1>3, <1>6
  <2> HIDE DEF x, y
  <2>3. Over(x, y) \in Rational /\ Product(Over(x, y), y) = x
    BY <2>1, OverCancels
  <2>4. Over(x, y) = Whole(1)
    BY <1>5, <2>2, <2>3, DifferenceAdds
  <2>5. Product(Whole(1), y) = y
    BY <2>1, ProductByOne
  <2>6. x = y
    BY <2>3, <2>4, <2>5
  <2> QED
    BY <2>6 DEF x, y
<1> QED
  BY <1>1, <1>4, <1>7, StepsAreConstant

\* No fraction is taken for a metric that is not defined.
LEMMA NumbersAreNotNone == None \notin Rational /\ \A x : Sign(x) # None
<1>1. None \notin Rational
  <2> SUFFICES ASSUME None \in Rational PROVE FALSE
    OBVIOUS
  <2>1. None \in [n : Int, d : Nat \ {0}] /\ None = Frac(None.n, None.d)
    BY RationalIsFrac DEF Rational
  <2> QED
    BY <2>1, BacktestAssumption DEF IsFraction
<1>2. \A i \in {0, 1, -1} : Whole(i) \in Rational
  <2>1. ASSUME NEW i \in Int PROVE Whole(i) \in Rational
    BY WholeIs
  <2> QED
    BY <2>1
<1>3. ASSUME NEW x PROVE Sign(x) # None
  BY <1>1, <1>2 DEF Sign
<1> QED
  BY <1>1, <1>3

\* The trades of a walk, those won and those lost.
LEMMA TradesCounted ==
    ASSUME NEW h, NEW c, WalkOver(h, c)
    PROVE  LET r == RoundTrips(h, c)
           IN  /\ Size(r) = Cardinality(Opened(h)) /\ Size(r) \in Nat
               /\ Size(r) = 0 <=> Flat(h)
               /\ r \in [Opened(h) -> Rational] /\ IsFiniteSet(Opened(h))
               /\ Size(Won(r)) \in Nat /\ Size(Lost(r)) \in Nat
               /\ Flat(h) => Size(Won(r)) = 0 /\ Size(Lost(r)) = 0
<1> DEFINE r == RoundTrips(h, c)
           O == Opened(h)
<1>1. /\ h \in Seq(Rational) /\ c \in Seq(Rational) /\ Len(c) = Len(h) + 1 /\ Len(h) \in Nat
      /\ DOMAIN h = 1..Len(h) /\ \A i \in DOMAIN h : c[i] # Whole(0)
  BY DEF WalkOver
<1>2. r = [i \in O |-> Minus(Over(c[EndOf(h, i) + 1], c[i]), Whole(1))]
  BY TradesAre
<1>3. ASSUME NEW i \in O PROVE Minus(Over(c[EndOf(h, i) + 1], c[i]), Whole(1)) \in Rational
  <2> DEFINE e == EndOf(h, i)
  <2>1. i \in DOMAIN h
    BY DEF Opened
  <2>2. e \in i..Len(h)
    BY <1>1, <2>1, EndIs
  <2> HIDE DEF e
  <2>3. c[e + 1] \in Rational /\ c[i] \in Rational /\ c[i] # Whole(0)
    BY <1>1, <2>1, <2>2
  <2>4. Over(c[e + 1], c[i]) \in Rational
    BY <2>3, OverCancels
  <2>5. Whole(1) \in Rational
    BY SmallFractions
  <2>6. Minus(Over(c[e + 1], c[i]), Whole(1)) \in Rational
    BY <2>4, <2>5, PlusTypes
  <2> QED
    BY <2>6 DEF e
<1>4. IsFiniteSet(O) /\ Cardinality(O) \in Nat /\ (O = {} <=> Flat(h))
      /\ (Cardinality(O) = 0 <=> Flat(h))
  BY <1>1, TradesOfFlat
<1> HIDE DEF O, r
<1>5. r \in [O -> Rational] /\ DOMAIN r = O
  BY <1>2, <1>3
<1>6. Size(r) = Cardinality(O)
  BY <1>5 DEF Size
<1>7. ASSUME NEW S \in SUBSET O
      PROVE  Size(Restrict(r, S)) \in Nat /\ (Flat(h) => Size(Restrict(r, S)) = 0)
  <2>1. DOMAIN Restrict(r, S) = S
    BY DEF Restrict
  <2>2. IsFiniteSet(S) /\ Cardinality(S) \in Nat
    BY <1>4, FS_Subset, FS_CardinalityType
  <2>3. O = {} => Cardinality(S) = 0
    BY FS_EmptySet
  <2> QED
    BY <1>4, <2>1, <2>2, <2>3 DEF Size
<1>8. Size(Won(r)) \in Nat /\ (Flat(h) => Size(Won(r)) = 0)
  <2> DEFINE S == {i \in DOMAIN r : r[i].n > 0}
  <2>1. S \in SUBSET O /\ Won(r) = Restrict(r, S)
    BY <1>5 DEF Won
  <2> QED
    BY <1>7, <2>1
<1>9. Size(Lost(r)) \in Nat /\ (Flat(h) => Size(Lost(r)) = 0)
  <2> DEFINE S == {i \in DOMAIN r : r[i].n < 0}
  <2>1. S \in SUBSET O /\ Lost(r) = Restrict(r, S)
    BY <1>5 DEF Lost
  <2> QED
    BY <1>7, <2>1
<1>10. /\ Size(r) = Cardinality(O) /\ Size(r) \in Nat
       /\ (Size(r) = 0 <=> Flat(h))
       /\ r \in [O -> Rational] /\ IsFiniteSet(O)
       /\ Size(Won(r)) \in Nat /\ Size(Lost(r)) \in Nat
       /\ (Flat(h) => Size(Won(r)) = 0 /\ Size(Lost(r)) = 0)
  BY <1>4, <1>5, <1>6, <1>8, <1>9
<1> QED
  BY Zenon, <1>10 DEF O, r

\* The metrics of a walk that begins with no position: the three cases are that
\* nothing is ever held, that the equity never moved, and that returns differ.
LEMMA MetricsAreRecorded ==
    ASSUME NEW h, NEW c, NEW b \in Seq(ClosedBars), WalkOver(h, c), Follows(h, c, b),
           Len(c) <= Len(b), Len(h) >= 1, h[1] = Whole(0)
    PROVE  Recorded(ComputeMetrics(b, h, c))
<1> DEFINE m     == ComputeMetrics(b, h, c)
           r     == RoundTrips(h, c)
           won   == Won(r)
           lost  == Lost(r)
           steps == ToSet(PeriodReturns(c))
           fall  == MaxDrawdown(c)
<1>1. /\ m.numTrades = Size(r) /\ m.turnover = Turnover(h)
      /\ m.totalReturn = Minus(Last(c), Whole(1))
      /\ m.winRate = Safe(Size(r) > 0, Frac(Size(won), Size(r)))
      /\ m.expectancy = Safe(Size(r) > 0, Average(r))
      /\ m.payoffRatio = Safe(Size(won) > 0 /\ Size(lost) > 0,
                              Over(Average(won), Absolute(Average(lost))))
      /\ m.profitFactor = Safe(Size(lost) > 0, Over(Total(won), Absolute(Total(lost))))
      /\ m.sharpeRatio = Safe(\E x, y \in steps : x # y, Sign(Mean(PeriodReturns(c))))
      /\ m.sortinoRatio = Safe(\E x \in steps : x.n < 0, Sign(Mean(PeriodReturns(c))))
      /\ m.calmarRatio = Safe(Last(c).n >= 0 /\ fall # Whole(0), Sign(Minus(Last(c), Whole(1))))
      /\ m.recoveryFactor = Safe(fall # Whole(0), Over(Minus(Last(c), Whole(1)), fall))
  BY DEF ComputeMetrics
<1>2. /\ Size(r) \in Nat /\ (Size(r) = 0 <=> Flat(h))
      /\ r \in [Opened(h) -> Rational] /\ IsFiniteSet(Opened(h))
      /\ Size(won) \in Nat /\ Size(lost) \in Nat
      /\ (Flat(h) => Size(won) = 0 /\ Size(lost) = 0)
  BY Zenon, TradesCounted
<1>3. m.turnover = Whole(0) <=> Flat(h)
  <2>1. h \in Seq(Rational)
    BY DEF WalkOver
  <2> HIDE DEF m
  <2> QED
    BY <1>1, <2>1, TurnoverOfFlat
<1>4. ASSUME Constant(c, Len(h))
      PROVE  /\ \A x \in steps : x = Whole(0)
             /\ Minus(Last(c), Whole(1)) = Whole(0) /\ fall = Whole(0)
  BY <1>4, ConstantMetrics
<1>5. None \notin Rational /\ (\A x : Sign(x) # None)
  BY NumbersAreNotNone
<1> HIDE DEF m, r, won, lost, steps, fall
<1>6. ASSUME m.numTrades = 0
      PROVE  /\ m.totalReturn = Whole(0)
             /\ {m.winRate, m.expectancy, m.payoffRatio, m.profitFactor, m.sharpeRatio,
                 m.sortinoRatio, m.calmarRatio, m.recoveryFactor} = {None}
  <2>1. Size(r) = 0 /\ Size(won) = 0 /\ Size(lost) = 0 /\ Flat(h)
    BY <1>1, <1>2, <1>6
  <2>2. Constant(c, Len(h))
    BY <2>1, FlatCurve
  <2>3. m.totalReturn = Whole(0) /\ fall = Whole(0)
    BY <1>1, <1>4, <2>2
  <2>4. m.winRate = None /\ m.expectancy = None /\ m.payoffRatio = None /\ m.profitFactor = None
    BY <1>1, <2>1 DEF Safe
  <2>5. m.sharpeRatio = None /\ m.sortinoRatio = None
    <3>1. ~\E x, y \in steps : x # y
      BY <1>4, <2>2
    <3>2. ~\E x \in steps : x.n < 0
      BY <1>4, <2>2 DEF Whole
    <3> QED
      BY <1>1, <3>1, <3>2 DEF Safe
  <2>6. m.calmarRatio = None /\ m.recoveryFactor = None
    BY <1>1, <2>3 DEF Safe
  <2> QED
    BY <2>3, <2>4, <2>5, <2>6
<1>7. ASSUME m.numTrades > 0 PROVE None \notin {m.winRate, m.expectancy}
  <2>1. Size(r) \in Nat \ {0} /\ Size(r) > 0 /\ Size(won) \in Int
    BY <1>1, <1>2, <1>7
  <2>2. Frac(Size(won), Size(r)) \in Rational
    BY <2>1, FracIs
  <2>3. Total(r) \in Rational
    BY <1>2, TotalType
  <2>4. Average(r) \in Rational
    BY <2>1, <2>3, ShareTypes DEF Average
  <2>5. m.winRate = Frac(Size(won), Size(r)) /\ m.expectancy = Average(r)
    BY <1>1, <2>1 DEF Safe
  <2> QED
    BY <1>5, <2>2, <2>4, <2>5
<1>8. ASSUME m.sharpeRatio = None PROVE m.totalReturn = Whole(0) /\ m.recoveryFactor = None
  <2>1. ~\E x, y \in steps : x # y
    BY <1>1, <1>5, <1>8 DEF Safe
  <2>2. Constant(c, Len(h))
    BY <2>1, EqualReturns DEF steps
  <2>3. Minus(Last(c), Whole(1)) = Whole(0) /\ fall = Whole(0)
    BY <1>4, <2>2
  <2> QED
    BY <1>1, <2>3 DEF Safe
<1>9. (m.numTrades = 0) = (m.turnover = Whole(0))
  BY <1>1, <1>2, <1>3
<1>10. Recorded(m)
  BY <1>6, <1>7, <1>8, <1>9 DEF Recorded
<1> QED
  BY <1>10 DEF m

\* One bar is too few to decide a position from.
LEMMA OneBarIsTooFew ==
    ASSUME NEW s, NEW b \in Seq(ClosedBars), Len(b) >= 1
    PROVE  PositionFn(s, SubSeq(b, 1, 1)) = Whole(0)
<1>1. Len(SubSeq(b, 1, 1)) = 1
  OBVIOUS
<1>2. MinBars > 1
  BY WindowsAre
<1> HIDE DEF MinBars
<1> DEFINE x == SubSeq(b, 1, 1)
<1> HIDE DEF x
<1>3. Len(x) < MinBars
  BY <1>1, <1>2 DEF x
<1>4. PositionFn(s, x) = Whole(0)
  BY <1>3 DEF PositionFn
<1> QED
  BY <1>4 DEF x

\* Every step keeps the records: only InsertBacktest adds one.
LEMMA RecordsKept ==
    ResearchInv /\ CurveIs /\ NoTradesNoRecord /\ [Next]_vars => NoTradesNoRecord'
<1> SUFFICES ASSUME ResearchInv, CurveIs, NoTradesNoRecord, [Next]_vars
             PROVE  NoTradesNoRecord'
  OBVIOUS
<1>1. \A row \in backtests \cup inserted : Recorded(row.metrics)
  BY RecordedIs
<1>2. ASSUME backtests' \cup inserted' \subseteq backtests \cup inserted
      PROVE  NoTradesNoRecord'
  <2>1. \A row \in backtests' \cup inserted' : Recorded(row.metrics)
    BY <1>1, <1>2
  <2> QED
    BY Zenon, <2>1 DEF NoTradesNoRecord, Recorded
<1>3. ASSUME RollBack PROVE NoTradesNoRecord'
  BY <1>2, <1>3 DEF RollBack, tables
<1>4. ASSUME NEW s \in Symbol, StoreBar(s) PROVE NoTradesNoRecord'
  BY <1>2, <1>4 DEF StoreBar
<1>5. CASE Start
  BY <1>2, <1>5 DEF Start, tables
<1>6. CASE Fetch
  BY <1>2, <1>6 DEF Fetch, tables
<1>7. CASE Walk
  BY <1>2, <1>3, <1>7 DEF Walk, tables
<1>8. CASE InsertBacktest
  <2>1. CASE Overflows(curve)
    BY <1>3, <1>8, <2>1 DEF InsertBacktest
  <2>2. CASE ~Overflows(curve)
    <3>1. /\ step = "walk" /\ Len(curve) = Len(bars)
          /\ inserted' = inserted \cup {Row} /\ backtests' = backtests
      BY <1>8, <2>2 DEF InsertBacktest, tables
    <3>2. /\ WalkOver(held, curve) /\ Follows(held, curve, bars)
          /\ bars \in Seq(ClosedBars) /\ Len(bars) >= MinBarsToRun /\ MinBarsToRun \in Nat
          /\ MinBarsToRun >= 2
          /\ \A i \in DOMAIN held : held[i] = PositionFn(StrategyIds[k], SubSeq(bars, 1, i))
      BY <3>1, ResearchAssumption DEF CurveIs, ResearchInv, WalkIs, PlaceIs
    <3>3. /\ held \in Seq(Rational) /\ Len(curve) = Len(held) + 1 /\ Len(held) >= 1
          /\ 1 \in DOMAIN held
      BY <3>1, <3>2 DEF WalkOver
    <3>4. held[1] = Whole(0)
      <4>1. Len(bars) >= 1
        BY <3>2
      <4>2. PositionFn(StrategyIds[k], SubSeq(bars, 1, 1)) = Whole(0)
        BY <3>2, <4>1, OneBarIsTooFew
      <4> QED
        BY <3>2, <3>3, <4>2
    <3>5. Recorded(ComputeMetrics(bars, held, curve))
      <4>1. Len(curve) <= Len(bars)
        BY <3>1, <3>2
      <4> QED
        BY <3>2, <3>3, <3>4, <4>1, MetricsAreRecorded
    <3>6. Row.metrics = ComputeMetrics(bars, held, curve)
      BY DEF Row
    <3> DEFINE added == Row
    <3>7. Recorded(added.metrics) /\ inserted' = inserted \cup {added}
      BY <3>1, <3>5, <3>6
    <3> HIDE DEF added
    <3>8. \A row \in backtests' \cup inserted' : Recorded(row.metrics)
      BY <1>1, <3>1, <3>7
    <3> QED
      BY Zenon, <3>8 DEF NoTradesNoRecord, Recorded
  <2> QED
    BY <2>1, <2>2
<1>9. CASE Commit
  BY <1>2, <1>9 DEF Commit
<1>10. CASE Crash
  BY <1>3, <1>10 DEF Crash
<1>11. CASE UNCHANGED vars
  BY <1>2, <1>11 DEF vars, tables
<1> QED
  BY <1>4, <1>5, <1>6, <1>7, <1>8, <1>9, <1>10, <1>11 DEF Next

\* Whatever the prices, the thresholds and the costs: a walk without trades is
\* recorded without ratios, one with trades with them.
THEOREM RecordsComeFromTrades == Spec => []NoTradesNoRecord
<1>1. Init => NoTradesNoRecord
  BY DEF Init, NoTradesNoRecord
<1> QED
  BY <1>1, RecordsKept, CurveHolds, PTL DEF Spec

=============================================================================
