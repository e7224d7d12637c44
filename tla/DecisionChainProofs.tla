------------------------- MODULE DecisionChainProofs -------------------------
(***************************************************************************)
(* Theorems about DecisionChain: what council, pick and note make of any   *)
(* series of bars, threshold, track record and decision of the gate.       *)
(***************************************************************************)
EXTENDS DecisionChain, StrategyLemmas

-----------------------------------------------------------------------------
(* The council                                                             *)

\* The findings that doubt the regime.
Doubts == {"LOW_REGIME_CONFIDENCE", "REGIME_MISMATCH"}

\* Findings from a set without doubts about the regime hold none.
LEMMA NoDoubts ==
    ASSUME NEW S, NEW q \in Seq(S), S \cap Doubts = {}
    PROVE  ToSet(q) \cap Doubts = {}
<1>1. ToSet(q) = {q[i] : i \in DOMAIN q} /\ \A i \in DOMAIN q : q[i] \in S
  BY DEF ToSet
<1> QED
  BY <1>1

\* A finding is raised or it is not.
LEMMA FindingIs ==
    ASSUME NEW raised \in BOOLEAN, NEW code
    PROVE  /\ Finding(raised, code) \in Seq({code})
           /\ raised => Finding(raised, code) = <<code>>
           /\ ~raised => Finding(raised, code) = << >>
<1>1. <<code>> \in Seq({code}) /\ << >> \in Seq({code})
  OBVIOUS
<1>2. CASE raised
  <2>1. Finding(raised, code) = <<code>>
    BY <1>2, Zenon DEF Finding
  <2> QED
    BY <1>1, <1>2, <2>1
<1>3. CASE ~raised
  <2>1. Finding(raised, code) = << >>
    BY <1>3, Zenon DEF Finding
  <2> QED
    BY <1>1, <1>3, <2>1
<1> QED
  BY <1>2, <1>3

\* Joined sequences, typed.
LEMMA ConcatIs ==
    ASSUME NEW S, NEW q \in Seq(S), NEW r \in Seq(S)
    PROVE  q \o r \in Seq(S) /\ Len(q \o r) = Len(q) + Len(r)
OBVIOUS

\* The ratio the quant judges by.
LEMMA EdgeToCostIs ==
    ASSUME NEW c, NEW r, CandidateSound(c, r)
    PROVE  EdgeToCost(c) \in Ratios
<1>1. c.expectedEdge \in Ratios
  BY DEF CandidateSound, Offered
<1> QED
  BY <1>1, ConstantsArePositive, OverTypes, SmallFractions DEF EdgeToCost

\* An opposing quant is less than a quarter certain.
LEMMA QuantIs ==
    ASSUME NEW c, NEW r, CandidateSound(c, r)
    PROVE  LET o == QuantAgent(c)
           IN  /\ o.confidence \in Rational /\ UnitInterval(o.confidence)
               /\ o.stance \in {"SUPPORT", "NEUTRAL", "OPPOSE"}
               /\ o.stance = "OPPOSE" => Below(Times(4, o.confidence), Whole(1))
               /\ ToSet(o.findings) \cap Doubts = {}
<1> DEFINE ratio == EdgeToCost(c)
           covered == AtMost(NeutralRatio, ratio)
           top == Times(2, SupportRatio)
           stance == IF AtMost(SupportRatio, ratio) THEN "SUPPORT"
                     ELSE IF covered THEN "NEUTRAL" ELSE "OPPOSE"
           confidence == Capped(Over(ratio, top))
           findings == <<"EDGE_TO_COST_RATIO">> \o Finding(~covered, "EDGE_DOES_NOT_COVER_COSTS")
           o == QuantAgent(c)
<1>1. o.stance = stance /\ o.confidence = confidence /\ o.findings = findings
  BY DEF QuantAgent, Opinion
<1>2. ratio \in Ratios /\ ratio \in Rational
  BY EdgeToCostIs, SmallFractions
<1>3. ratio.n \in Nat /\ ratio.d \in Nat \ {0} /\ ratio = Frac(ratio.n, ratio.d)
  BY <1>2, RationalIsFrac DEF Ratios
<1> DEFINE x == ratio.n
           d == ratio.d
           two == 2
           four == 4
<1>4. two \in Int /\ four \in Int /\ two * two = four /\ two * (two * d) = four * d
      /\ four * d \in Nat \ {0} /\ four * d \in Int /\ two * d \in Int
  BY <1>3
<1>5. top = Frac(four * d, d)
  <2>1. SupportRatio = Whole(two)
    BY DEF SupportRatio
  <2>2. top = Times(two, SupportRatio)
    OBVIOUS
  <2> HIDE DEF two, four, top, x, d
  <2>3. Whole(two) = Frac(two * d, d)
    BY <1>3, <1>4, WholeIs DEF d
  <2>4. Times(two, Frac(two * d, d)) = Frac(two * (two * d), d)
    BY <1>3, <1>4, TimesOverOne DEF d
  <2> QED
    BY <1>4, <2>1, <2>2, <2>3, <2>4
<1>6. Over(ratio, top) = Frac(x, four * d) /\ Over(ratio, top) \in Ratios
  <2> HIDE DEF four, top
  <2>1. x \in Int /\ x >= 0 /\ four * d > 0 /\ four * d # 0
    BY <1>3, <1>4
  <2>2. ratio = Frac(x, d) /\ d \in Nat \ {0}
    BY <1>3
  <2> HIDE DEF ratio, x, d
  <2>3. Over(Frac(x, d), Frac(four * d, d)) = Frac(x, four * d)
    BY <1>4, <2>1, <2>2, OverOne
  <2>4. Frac(x, four * d) \in Ratios
    BY <1>4, <2>1, RatioFrac
  <2> QED
    BY <1>5, <2>2, <2>3, <2>4
<1>7. confidence \in Rational /\ UnitInterval(confidence)
  <2> HIDE DEF top, ratio
  <2> QED
    BY <1>6, CappedIs
<1>8. ASSUME ~covered
      PROVE  Below(Times(4, confidence), Whole(1))
  <2>1. x < d
    <3>1. AtMost(Frac(1, 1), Frac(x, d)) <=> 1 * d <= x * 1
      BY <1>3, FracOrder
    <3>2. NeutralRatio = Frac(1, 1)
      BY SmallFractions DEF NeutralRatio
    <3>3. ~AtMost(Frac(1, 1), Frac(x, d))
      BY <1>3, <1>8, <3>2
    <3> QED
      BY <1>3, <3>1, <3>3
  <2>2. ~Below(Whole(1), Frac(x, four * d))
    <3>1. Below(Whole(1), Frac(x, four * d)) <=> four * d < x
      <4> HIDE DEF four, x
      <4>1. x \in Int
        BY <1>3 DEF x
      <4> QED
        BY <1>4, <4>1, UnitFrac
    <3> QED
      BY <1>3, <2>1, <3>1
  <2>3. confidence = Frac(x, four * d)
    <3> HIDE DEF top, four, ratio
    <3> QED
      BY <1>6, <2>2 DEF Capped
  <2>4. Times(four, Frac(x, four * d)) = Frac(four * x, four * d)
    <3> HIDE DEF four, x, d
    <3>1. x \in Int
      BY <1>3 DEF x
    <3> QED
      BY <1>4, <3>1, TimesOverOne
  <2>5. Below(Frac(four * x, four * d), Frac(1, 1))
    <3>1. four * x \in Int /\ (four * x) * 1 < 1 * (four * d)
      BY <1>3, <2>1
    <3> HIDE DEF four, x, d
    <3> QED
      BY <1>4, <3>1, FracOrder
  <2>6. Times(4, confidence) = Times(four, confidence)
    OBVIOUS
  <2> HIDE DEF four, confidence
  <2> QED
    BY <2>3, <2>4, <2>5, <2>6, SmallFractions
<1>9. ToSet(findings) \cap Doubts = {}
  <2> DEFINE S == {"EDGE_TO_COST_RATIO", "EDGE_DOES_NOT_COVER_COSTS"}
             more == Finding(~covered, "EDGE_DOES_NOT_COVER_COSTS")
  <2>1. more \in Seq({"EDGE_DOES_NOT_COVER_COSTS"})
    BY FindingIs
  <2> HIDE DEF more
  <2>2. more \in Seq(S) /\ <<"EDGE_TO_COST_RATIO">> \in Seq(S)
    BY <2>1
  <2>3. findings \in Seq(S)
    BY <2>2 DEF more
  <2>4. S \cap Doubts = {}
    BY DEF Doubts
  <2> HIDE DEF S, findings
  <2> QED
    BY <2>3, <2>4, NoDoubts
<1> HIDE DEF findings, confidence, ratio, covered
<1>10. stance \in {"SUPPORT", "NEUTRAL", "OPPOSE"} /\ (stance = "OPPOSE" => ~covered)
  OBVIOUS
<1> QED
  BY <1>1, <1>7, <1>8, <1>9, <1>10

\* How many of three doubts, in thirds of certainty.
InThirds(confidence, k) == confidence = Frac(k, 3)

\* Thirds up to one are in the unit interval.
LEMMA ThirdIsUnit ==
    ASSUME NEW k \in 0..3
    PROVE  Frac(k, 3) \in Rational /\ UnitInterval(Frac(k, 3))
<1> DEFINE three == 3
<1>1. k \in Int /\ three \in Nat \ {0} /\ 0 <= k /\ k <= three
  OBVIOUS
<1> HIDE DEF three
<1>2. Frac(k, three) \in Rational /\ UnitInterval(Frac(k, three))
  BY <1>1, UnitFrac
<1> QED
  BY <1>2 DEF three

\* The advocate has at most two doubts: not the one about the regime.
LEMMA AdvocateIs ==
    ASSUME NEW c, NEW r, CandidateSound(c, r), RegimeSound(r)
    PROVE  LET o == DevilsAdvocate(c, r)
           IN  /\ ToSet(o.findings) \cap Doubts = {}
               /\ \E k \in 0..2 : InThirds(o.confidence, k)
                                  /\ o.stance = IF k = 0 THEN "NEUTRAL" ELSE "OPPOSE"
<1> DEFINE low  == Below(r.confidence, LowConfidence)
           weak == Below(c.signalStrength, WeakStrength)
           thin == Below(EdgeToCost(c), ThinRatio)
           f1 == Finding(low, "LOW_REGIME_CONFIDENCE")
           f2 == Finding(weak, "WEAK_SIGNAL_STRENGTH")
           f3 == Finding(thin, "THIN_EDGE_MARGIN")
           findings == f1 \o f2 \o f3
           o == DevilsAdvocate(c, r)
<1>1. /\ o.findings = findings /\ o.confidence = Frac(Len(findings), 3)
      /\ o.stance = IF findings = << >> THEN "NEUTRAL" ELSE "OPPOSE"
  BY DEF DevilsAdvocate, Opinion
<1>2. f1 = << >>
  <2>1. r.label \in Tradable
    <3>1. \E s \in Strategy : r.label \in allowed_regimes[s]
      BY DEF CandidateSound
    <3> QED
      BY <3>1, StrategiesAre DEF Tradable
  <2>2. AtMost(Half, r.confidence) /\ r.confidence \in Rational
    BY <2>1 DEF RegimeSound
  <2>3. ~low
    BY <2>2, OrderIsTotal, SmallFractions DEF LowConfidence
  <2> QED
    BY <2>3, Zenon DEF Finding
<1> DEFINE S == {"WEAK_SIGNAL_STRENGTH", "THIN_EDGE_MARGIN"}
<1>3. weak \in BOOLEAN /\ thin \in BOOLEAN
  BY DEF Below
<1>4. f2 \in Seq({"WEAK_SIGNAL_STRENGTH"}) /\ f3 \in Seq({"THIN_EDGE_MARGIN"})
  BY <1>3, FindingIs
<1>5. f2 \in {<<"WEAK_SIGNAL_STRENGTH">>, << >>} /\ f3 \in {<<"THIN_EDGE_MARGIN">>, << >>}
  BY <1>3, FindingIs
<1> HIDE DEF f1, f2, f3, low, weak, thin
<1>6. f2 \in Seq(S) /\ f3 \in Seq(S) /\ Len(f2) \in {0, 1} /\ Len(f3) \in {0, 1}
  BY <1>4, <1>5
<1>7. findings \in Seq(S) /\ Len(findings) \in 0..2
  <2> HIDE DEF S
  <2>1. << >> \o f2 = f2
    BY <1>6
  <2>2. findings = f2 \o f3
    BY <1>2, <2>1
  <2>3. f2 \o f3 \in Seq(S) /\ Len(f2 \o f3) = Len(f2) + Len(f3)
    BY <1>6, ConcatIs
  <2>4. Len(f2) + Len(f3) \in 0..2
    <3>1. \A a, b \in {0, 1} : a + b \in 0..2
      OBVIOUS
    <3> QED
      BY <1>6, <3>1
  <2> HIDE DEF findings
  <2> QED
    BY <2>2, <2>3, <2>4
<1>8. S \cap Doubts = {}
  BY DEF Doubts
<1>9. findings = << >> <=> Len(findings) = 0
  BY <1>7
<1> HIDE DEF findings, S
<1>10. ToSet(findings) \cap Doubts = {}
  BY <1>7, <1>8, NoDoubts
<1> QED
  BY <1>1, <1>7, <1>9, <1>10 DEF InThirds

\* The auditor has at most one, the order of stop and target.
LEMMA AuditorIs ==
    ASSUME NEW c, NEW r, CandidateSound(c, r)
    PROVE  LET o == Auditor(c, r)
           IN  /\ ToSet(o.findings) \cap Doubts = {}
               /\ \/ o.stance = "SUPPORT" /\ o.confidence = Whole(1)
                  \/ o.stance = "OPPOSE" /\ InThirds(o.confidence, 1)
<1> DEFINE f1 == Finding(c.regime # r.label, "REGIME_MISMATCH")
           f2 == Finding(~Ordered(c), "INCONSISTENT_STOP_TARGET_ORDERING")
           findings == f1 \o f2
           o == Auditor(c, r)
<1>1. /\ o.findings = findings
      /\ o.stance = (IF findings = << >> THEN "SUPPORT" ELSE "OPPOSE")
      /\ o.confidence = IF findings = << >> THEN Whole(1) ELSE Frac(Len(findings), 3)
  BY DEF Auditor, Opinion
<1>2. f1 = << >>
  <2>1. c.regime = r.label
    BY DEF CandidateSound, Offered
  <2> QED
    BY <2>1, Zenon DEF Finding
<1> DEFINE S == {"INCONSISTENT_STOP_TARGET_ORDERING"}
<1>3. f2 \in Seq(S) /\ f2 \in {<<"INCONSISTENT_STOP_TARGET_ORDERING">>, << >>}
  BY FindingIs
<1> HIDE DEF f1, f2
<1>4. findings \in Seq(S) /\ findings \in {<<"INCONSISTENT_STOP_TARGET_ORDERING">>, << >>}
  BY <1>2, <1>3
<1>5. findings = << >> \/ Len(findings) = 1
  BY <1>4
<1>6. S \cap Doubts = {}
  BY DEF Doubts
<1> HIDE DEF findings, S
<1>7. ToSet(findings) \cap Doubts = {}
  BY <1>4, <1>6, NoDoubts
<1> QED
  BY <1>1, <1>5, <1>7 DEF InThirds

\* What the assumption says of one decision.
LEMMA DecisionsAre ==
    ASSUME NEW d \in RiskDecisions
    PROVE  /\ d.decision \in {"APPROVE", "REDUCE", "REJECT"}
           /\ d.reasons \in Seq(ReasonCodes)
           /\ d.sizingAdjustment \in Rational /\ UnitInterval(d.sizingAdjustment)
           /\ \A s \in Strategy : None # [strategyId |-> s, share |-> d.sizingAdjustment]
<1>1. /\ d.decision \in {"APPROVE", "REDUCE", "REJECT"}
      /\ d.reasons \in Seq(ReasonCodes) \ {<< >>}
      /\ IsFraction(d.sizingAdjustment)
      /\ ~Below(d.sizingAdjustment, Whole(0)) /\ AtMost(d.sizingAdjustment, Whole(1))
      /\ \A s \in Strategy : None # [strategyId |-> s, share |-> d.sizingAdjustment]
  BY DecisionChainAssumption
<1> QED
  BY <1>1, FractionsAre DEF UnitInterval

\* The risk officer says what the gate said, with the confidence it gives it.
LEMMA OfficerIs ==
    ASSUME NEW d \in RiskDecisions
    PROVE  LET o == RiskOfficer(d)
           IN  /\ ToSet(o.findings) \cap Doubts = {}
               /\ o.confidence \in Rational /\ UnitInterval(o.confidence)
               /\ o.stance = "VETO" <=> d.decision = "REJECT"
               /\ d.decision = "APPROVE" => o.stance = "SUPPORT" /\ o.confidence = Whole(1)
<1> DEFINE o == RiskOfficer(d)
<1>1. o.findings = d.reasons
  BY DecisionsAre DEF RiskOfficer, Opinion
<1>2. ToSet(d.reasons) \cap Doubts = {}
  <2>1. ReasonCodes \cap Doubts = {}
    BY DEF ReasonCodes, Doubts
  <2> QED
    BY <2>1, DecisionsAre, NoDoubts
<1>3. Whole(1) \in Rational /\ UnitInterval(Whole(1))
  <2>1. UnitInterval(Frac(1, 1))
    BY UnitFrac
  <2> QED
    BY <2>1, SmallFractions
<1>4. /\ Minus(Whole(1), d.sizingAdjustment) \in Rational
      /\ UnitInterval(Minus(Whole(1), d.sizingAdjustment))
  BY DecisionsAre, ComplementIs
<1>5. CASE d.decision = "REJECT"
  <2>1. o.stance = "VETO" /\ o.confidence = Whole(1)
    BY <1>5 DEF RiskOfficer, Opinion
  <2> QED
    BY <1>1, <1>2, <1>3, <1>5, <2>1
<1>6. CASE d.decision = "REDUCE"
  <2>1. o.stance = "NEUTRAL" /\ o.confidence = Minus(Whole(1), d.sizingAdjustment)
    BY <1>6 DEF RiskOfficer, Opinion
  <2> QED
    BY <1>1, <1>2, <1>4, <1>6, <2>1
<1>7. CASE d.decision = "APPROVE"
  <2>1. o.stance = "SUPPORT" /\ o.confidence = Whole(1)
    BY <1>7 DEF RiskOfficer, Opinion
  <2> QED
    BY <1>1, <1>2, <1>3, <1>7, <2>1
<1> QED
  BY <1>5, <1>6, <1>7, DecisionsAre

\* Four agents are finitely many.
LEMMA FourIsFinite == IsFiniteSet(1..4)
<1> DEFINE n == 4
<1>1. n \in Int
  OBVIOUS
<1> HIDE DEF n
<1>2. IsFiniteSet(1..n)
  BY <1>1, FS_Interval
<1> QED
  BY <1>2 DEF n

\* The sum over the four agents.
LEMMA SumOfFour ==
    ASSUME NEW f \in [1..4 -> Int]
    PROVE  SumFunction(f) = f[1] + f[2] + f[3] + f[4]
<1> DEFINE S == {1, 2, 3, 4}
           P == PartialSums(f, S)
<1>1. S = 1..4 /\ IsFiniteSet(S) /\ DOMAIN f = S /\ f \in [S -> Int]
  <2>1. S = 1..4
    OBVIOUS
  <2>2. IsFiniteSet(1..4)
    BY FourIsFinite
  <2> QED
    BY <2>1, <2>2
<1>2. SumFunction(f) = P[S]
  BY <1>1, SumIsPartialSum DEF SumFunction
<1>3. \A s \in SUBSET S : \A a \in s : P[s] = f[a] + P[s \ {a}]
  <2> HIDE DEF S
  <2> QED
    BY <1>1, PartialSumsRemove
<1>4. P[{}] = 0
  <2>1. P[{}] = SumStep(f, P, {})
    <3> HIDE DEF S
    <3> QED
      BY <1>1, PartialSumsUnfold
  <2> QED
    BY <2>1 DEF SumStep
<1> HIDE DEF P
<1>5. /\ P[{1, 2, 3, 4}] = f[4] + P[{1, 2, 3}] /\ P[{1, 2, 3}] = f[3] + P[{1, 2}]
      /\ P[{1, 2}] = f[2] + P[{1}] /\ P[{1}] = f[1] + P[{}]
  <2>1. /\ {1, 2, 3, 4} \ {4} = {1, 2, 3} /\ {1, 2, 3} \ {3} = {1, 2}
        /\ {1, 2} \ {2} = {1} /\ {1} \ {1} = {}
    OBVIOUS
  <2>2. /\ P[{1, 2, 3, 4}] = f[4] + P[{1, 2, 3, 4} \ {4}]
        /\ P[{1, 2, 3}] = f[3] + P[{1, 2, 3} \ {3}]
        /\ P[{1, 2}] = f[2] + P[{1, 2} \ {2}] /\ P[{1}] = f[1] + P[{1} \ {1}]
    BY <1>3
  <2> QED
    BY <2>1, <2>2
<1>6. f[1] \in Int /\ f[2] \in Int /\ f[3] \in Int /\ f[4] \in Int
  OBVIOUS
<1> QED
  BY <1>2, <1>4, <1>5, <1>6

\* The opinions in the order of AGENTS.
LEMMA CouncilIs ==
    ASSUME NEW c, NEW r, NEW d
    PROVE  LET o == RunCouncil(c, r, d)
           IN  /\ DOMAIN o = 1..4
               /\ o[1] = QuantAgent(c) /\ o[2] = RiskOfficer(d)
               /\ o[3] = DevilsAdvocate(c, r) /\ o[4] = Auditor(c, r)
<1> DEFINE q == QuantAgent(c)
           f == RiskOfficer(d)
           v == DevilsAdvocate(c, r)
           a == Auditor(c, r)
<1>1. RunCouncil(c, r, d) = <<q, f, v, a>>
  BY DEF RunCouncil
<1> HIDE DEF q, f, v, a
<1>2. DOMAIN <<q, f, v, a>> = 1..4
  OBVIOUS
<1>3. <<q, f, v, a>>[1] = q /\ <<q, f, v, a>>[2] = f /\ <<q, f, v, a>>[3] = v
      /\ <<q, f, v, a>>[4] = a
  OBVIOUS
<1> QED
  BY <1>1, <1>2, <1>3 DEF q, f, v, a

\* What a vote weighs, over a denominator d.
Votes(o, n, d) ==
    CASE o.stance = "SUPPORT" -> n
      [] o.stance = "NEUTRAL" -> 0
      [] o.stance = "OPPOSE"  -> -n

\* The vote of one agent over its denominator.
LEMMA ScoreIs ==
    ASSUME NEW o, NEW d \in Nat \ {0}, NEW n \in Int, o.confidence = Frac(n, d),
           o.stance \in {"SUPPORT", "NEUTRAL", "OPPOSE"}
    PROVE  Votes(o, n, d) \in Int /\ Score(o) = Frac(Votes(o, n, d), d)
<1>1. CASE o.stance = "SUPPORT"
  BY <1>1 DEF Votes, Score
<1>2. CASE o.stance = "NEUTRAL"
  <2>1. Score(o) = Whole(0) /\ Votes(o, n, d) = 0
    BY <1>2 DEF Votes, Score
  <2>2. Whole(0) = Frac(0 * d, d)
    BY WholeIs
  <2>3. 0 * d = 0
    OBVIOUS
  <2> QED
    BY <2>1, <2>2, <2>3
<1>3. CASE o.stance = "OPPOSE"
  <2> DEFINE m == -1
  <2>1. Score(o) = Times(m, Frac(n, d)) /\ Votes(o, n, d) = m * n /\ m \in Int /\ m * n \in Int
    BY <1>3 DEF Votes, Score
  <2> HIDE DEF m
  <2>2. Times(m, Frac(n, d)) = Frac(m * n, d)
    BY <2>1, TimesOverOne
  <2> QED
    BY <2>1, <2>2
<1> QED
  BY <1>1, <1>2, <1>3

\* The average of four votes over a common denominator.
LEMMA AverageVote ==
    ASSUME NEW o, DOMAIN o = 1..4, NEW d \in Nat \ {0}, NEW w \in [1..4 -> Nat],
           \A i \in 1..4 : o[i].confidence = Frac(w[i], d)
                           /\ o[i].stance \in {"SUPPORT", "NEUTRAL", "OPPOSE"},
           w[2] > 0
    PROVE  LET W == w[1] + w[2] + w[3] + w[4]
               V == Votes(o[1], w[1], d) + Votes(o[2], w[2], d)
                    + Votes(o[3], w[3], d) + Votes(o[4], w[4], d)
           IN  W \in Nat \ {0} /\ V \in Int /\ WeightedScore(o) = Frac(V, W)
<1> DEFINE S == 1..4
           weights == [i \in S |-> o[i].confidence]
           scores  == [i \in S |-> Score(o[i])]
           v == [i \in S |-> Votes(o[i], w[i], d)]
           W == w[1] + w[2] + w[3] + w[4]
           V == Votes(o[1], w[1], d) + Votes(o[2], w[2], d)
                + Votes(o[3], w[3], d) + Votes(o[4], w[4], d)
<1>1. IsFiniteSet(S)
  BY FourIsFinite
<1>2. 1 \in S /\ 2 \in S /\ 3 \in S /\ 4 \in S /\ w \in [S -> Int]
  OBVIOUS
<1>3. WeightedScore(o) = IF Total(weights) = Whole(0) THEN Whole(0)
                         ELSE Over(Total(scores), Total(weights))
  BY Zenon DEF WeightedScore
<1>4. ASSUME NEW i \in S
      PROVE  /\ w[i] \in Int /\ Frac(w[i], d) \in Rational /\ weights[i] = Frac(w[i], d)
             /\ Votes(o[i], w[i], d) \in Int /\ scores[i] = Frac(Votes(o[i], w[i], d), d)
             /\ scores[i] \in Rational
  <2>1. w[i] \in Int /\ o[i].confidence = Frac(w[i], d)
        /\ o[i].stance \in {"SUPPORT", "NEUTRAL", "OPPOSE"}
    OBVIOUS
  <2>2. Votes(o[i], w[i], d) \in Int /\ Score(o[i]) = Frac(Votes(o[i], w[i], d), d)
    BY <2>1, ScoreIs
  <2>3. Frac(w[i], d) \in Rational /\ Frac(Votes(o[i], w[i], d), d) \in Rational
    BY <2>1, <2>2, FracIs
  <2> QED
    BY <2>1, <2>2, <2>3
<1>5. v \in [S -> Int] /\ \A i \in S : v[i] = Votes(o[i], w[i], d)
  BY <1>4
<1>6. weights \in [S -> Rational] /\ scores \in [S -> Rational]
  <2>1. \A i \in S : weights[i] \in Rational /\ scores[i] \in Rational
    BY <1>4
  <2>2. weights = [i \in S |-> weights[i]] /\ scores = [i \in S |-> scores[i]]
    OBVIOUS
  <2> HIDE DEF weights, scores, S
  <2> QED
    BY <2>1, <2>2
<1>7. (\A i \in S : weights[i] = Frac(w[i], d)) /\ (\A i \in S : scores[i] = Frac(v[i], d))
  BY <1>4, <1>5
<1> HIDE DEF weights, scores, v
<1>8. Total(weights) = Frac(SumFunction(w), d) /\ Total(scores) = Frac(SumFunction(v), d)
  <2> HIDE DEF S
  <2> QED
    BY <1>1, <1>2, <1>5, <1>6, <1>7, TotalOverOne
<1>9. SumFunction(w) = W /\ SumFunction(v) = V
  <2>1. SumFunction(w) = w[1] + w[2] + w[3] + w[4] /\ SumFunction(v) = v[1] + v[2] + v[3] + v[4]
    BY <1>2, <1>5, SumOfFour
  <2> QED
    BY <1>2, <1>5, <2>1
<1>10. W \in Nat \ {0} /\ V \in Int
  <2>1. w[1] \in Nat /\ w[2] \in Nat /\ w[3] \in Nat /\ w[4] \in Nat
    BY <1>2
  <2>2. v[1] \in Int /\ v[2] \in Int /\ v[3] \in Int /\ v[4] \in Int
    BY <1>2, <1>5
  <2>3. V = v[1] + v[2] + v[3] + v[4]
    BY <1>2, <1>5
  <2> HIDE DEF V
  <2> QED
    BY <2>1, <2>2, <2>3
<1> HIDE DEF V, W
<1>11. Over(Frac(V, d), Frac(W, d)) = Frac(V, W)
  <2>1. W \in Int /\ W # 0 /\ W > 0
    BY <1>10
  <2> QED
    BY <1>10, <2>1, OverOne
<1>12. Frac(W, d) # Whole(0)
  <2>1. Frac(W, d) \in Positives
    BY <1>10, RatioFrac
  <2> QED
    BY <2>1 DEF Positives, Whole
<1>13. WeightedScore(o) = Frac(V, W)
  BY <1>3, <1>8, <1>9, <1>11, <1>12
<1> QED
  BY <1>10, <1>13 DEF V, W


\* A council whose risk officer is certain and whose others doubt all they can:
\* the average stays above the threshold of an opposition.
LEMMA VotesSuffice ==
    ASSUME NEW e \in Nat \ {0}, NEW x \in Nat, NEW q \in Int, NEW k \in 0..2,
           NEW w \in Nat, NEW a \in Int,
           q >= 0 \/ (q = -(3 * x) /\ 4 * x < e),
           (w = e /\ a = -e) \/ (w = 3 * e /\ a = 3 * e)
    PROVE  -3 * (3 * x + 3 * e + k * e + w) < 10 * (q + 3 * e - k * e + a)
<1>1. k = 0 \/ k = 1 \/ k = 2
  OBVIOUS
<1> QED
  BY <1>1

\* An approval in full is met with no OPPOSE: the confidences are brought over a
\* common denominator and the votes counted.
LEMMA ApprovalIsNotOpposed ==
    ASSUME NEW c, NEW r, NEW d \in RiskDecisions, CandidateSound(c, r), RegimeSound(r),
           d.decision = "APPROVE"
    PROVE  Synthesize(RunCouncil(c, r, d)).final_stance # "OPPOSE"
<1> DEFINE o == RunCouncil(c, r, d)
<1>1. /\ DOMAIN o = 1..4 /\ o[1] = QuantAgent(c) /\ o[2] = RiskOfficer(d)
      /\ o[3] = DevilsAdvocate(c, r) /\ o[4] = Auditor(c, r)
  BY CouncilIs
<1>2. /\ o[1].confidence \in Rational /\ UnitInterval(o[1].confidence)
      /\ o[1].stance \in {"SUPPORT", "NEUTRAL", "OPPOSE"}
      /\ o[1].stance = "OPPOSE" => Below(Times(4, o[1].confidence), Whole(1))
  BY <1>1, QuantIs
<1>3. o[2].stance = "SUPPORT" /\ o[2].confidence = Whole(1)
  BY <1>1, OfficerIs
<1>4. PICK k \in 0..2 : InThirds(o[3].confidence, k)
                         /\ o[3].stance = IF k = 0 THEN "NEUTRAL" ELSE "OPPOSE"
  BY <1>1, AdvocateIs
<1>5. \/ o[4].stance = "SUPPORT" /\ o[4].confidence = Whole(1)
      \/ o[4].stance = "OPPOSE" /\ InThirds(o[4].confidence, 1)
  BY <1>1, AuditorIs
<1> HIDE DEF o
<1> DEFINE p == o[1].confidence
           x == p.n
           e == p.d
           three == 3
           D == e * three
           w4 == IF o[4].stance = "SUPPORT" THEN three * e ELSE e
           w == [i \in 1..4 |-> IF i = 1 THEN x * three ELSE IF i = 2 THEN three * e
                                ELSE IF i = 3 THEN k * e ELSE w4]
<1>6. x \in Nat /\ e \in Nat \ {0} /\ p = Frac(x, e)
  BY <1>2, UnitRatio, RationalIsFrac DEF Ratios
<1>7. /\ three \in Nat \ {0} /\ D \in Nat \ {0} /\ three * e = D /\ k \in Nat
      /\ x * three \in Nat /\ k * e \in Nat /\ w4 \in Nat
  BY <1>6
<1>8. /\ w \in [1..4 -> Nat] /\ w[1] = x * three /\ w[2] = three * e /\ w[3] = k * e
      /\ w[4] = w4 /\ w[2] > 0
  BY <1>6, <1>7
<1>9. p = Frac(x * three, D)
  <2> HIDE DEF three, p, x, e
  <2>1. x \in Int
    BY <1>6
  <2> QED
    BY <1>6, <1>7, <2>1, FracScale
<1>10. \A j \in Nat : Frac(j, 3) = Frac(j * e, D)
  <2> SUFFICES ASSUME NEW j \in Nat PROVE Frac(j, 3) = Frac(j * e, D)
    OBVIOUS
  <2>1. j \in Int
    OBVIOUS
  <2> HIDE DEF p, x, e
  <2>2. Frac(j * e, three * e) = Frac(j, three)
    <3> HIDE DEF three
    <3> QED
      BY <1>6, <1>7, <2>1, FracScale
  <2> QED
    BY <1>7, <2>2
<1>11. Whole(1) = Frac(three * e, D)
  <2> DEFINE one == 1
  <2>1. one \in Int /\ one * D = D
    BY <1>7
  <2> HIDE DEF one, three, D, p, x, e
  <2>2. Whole(one) = Frac(one * D, D)
    BY <1>7, <2>1, WholeIs
  <2> QED
    BY <1>7, <2>1, <2>2 DEF one
<1>12. \A i \in 1..4 : o[i].confidence = Frac(w[i], D)
                         /\ o[i].stance \in {"SUPPORT", "NEUTRAL", "OPPOSE"}
  <2>1. o[1].confidence = Frac(w[1], D)
    BY <1>8, <1>9
  <2>2. o[2].confidence = Frac(w[2], D)
    BY <1>3, <1>8, <1>11
  <2>3. o[3].confidence = Frac(w[3], D)
    BY <1>4, <1>7, <1>8, <1>10 DEF InThirds
  <2>4. o[4].confidence = Frac(w[4], D)
    <3>1. CASE o[4].stance = "SUPPORT"
      BY <1>5, <1>8, <1>11, <3>1
    <3>2. CASE o[4].stance # "SUPPORT"
      <4>1. Frac(1, 3) = Frac(1 * e, D) /\ 1 * e = e
        BY <1>6, <1>10
      <4> QED
        BY <1>5, <1>8, <3>2, <4>1 DEF InThirds
    <3> QED
      BY <3>1, <3>2
  <2>5. \A i \in 1..4 : i = 1 \/ i = 2 \/ i = 3 \/ i = 4
    OBVIOUS
  <2>6. /\ o[1].stance \in {"SUPPORT", "NEUTRAL", "OPPOSE"}
        /\ o[2].stance \in {"SUPPORT", "NEUTRAL", "OPPOSE"}
        /\ o[3].stance \in {"SUPPORT", "NEUTRAL", "OPPOSE"}
        /\ o[4].stance \in {"SUPPORT", "NEUTRAL", "OPPOSE"}
    BY <1>2, <1>3, <1>4, <1>5
  <2> HIDE DEF w, D, p
  <2> QED
    BY <2>1, <2>2, <2>3, <2>4, <2>5, <2>6
<1> DEFINE W == w[1] + w[2] + w[3] + w[4]
           V == Votes(o[1], w[1], D) + Votes(o[2], w[2], D)
                + Votes(o[3], w[3], D) + Votes(o[4], w[4], D)
<1>13. W \in Nat \ {0} /\ V \in Int /\ WeightedScore(o) = Frac(V, W)
  <2> HIDE DEF w, D
  <2>1. DOMAIN o = 1..4 /\ D \in Nat \ {0} /\ w \in [1..4 -> Nat] /\ w[2] > 0
    BY <1>1, <1>7, <1>8
  <2> QED
    BY <1>12, <2>1, AverageVote
<1>14. V * 10 > -3 * W
  <2>1. o[2].stance = "SUPPORT" => Votes(o[2], w[2], D) = three * e
    BY <1>8 DEF Votes
  <2>2. Votes(o[3], w[3], D) = -(k * e)
    <3>1. CASE k = 0
      <4>1. o[3].stance = "NEUTRAL" /\ k * e = 0
        BY <1>4, <1>6, <3>1
      <4> QED
        BY <4>1 DEF Votes
    <3>2. CASE k # 0
      <4>1. o[3].stance = "OPPOSE"
        BY <1>4, <3>2
      <4> QED
        BY <1>8, <4>1 DEF Votes
    <3> QED
      BY <3>1, <3>2
  <2> DEFINE a == Votes(o[4], w[4], D)
             q == Votes(o[1], w[1], D)
  <2>3. (w4 = e /\ a = -e) \/ (w4 = 3 * e /\ a = 3 * e)
    <3>1. CASE o[4].stance = "SUPPORT"
      BY <1>8, <3>1 DEF Votes
    <3>2. CASE o[4].stance = "OPPOSE"
      BY <1>8, <3>2 DEF Votes
    <3> QED
      BY <1>5, <3>1, <3>2
  <2>4. q \in Int /\ (q >= 0 \/ (q = -(3 * x) /\ 4 * x < e))
    <3>1. CASE o[1].stance = "SUPPORT"
      <4>1. q = x * three
        BY <1>8, <3>1 DEF Votes
      <4> QED
        BY <1>7, <4>1
    <3>2. CASE o[1].stance = "NEUTRAL"
      BY <3>2 DEF Votes
    <3>3. CASE o[1].stance = "OPPOSE"
      <4>1. q = -(3 * x) /\ q \in Int
        BY <1>6, <1>8, <3>3 DEF Votes
      <4>2. 4 * x < e
        <5> DEFINE four == 4
        <5>1. four \in Int /\ four * x \in Int /\ x \in Int
          BY <1>6
        <5>2. Below(Times(4, p), Whole(1))
          BY <1>2, <3>3
        <5>3. Times(four, Frac(x, e)) = Frac(four * x, e)
          <6> HIDE DEF four, x, e, p
          <6> QED
            BY <1>6, <5>1, TimesOverOne
        <5>4. Below(Frac(four * x, e), Frac(1, 1))
          <6>1. Times(4, p) = Times(four, Frac(x, e))
            BY <1>6
          <6> HIDE DEF four, x, e, p
          <6> QED
            BY <5>2, <5>3, <6>1, SmallFractions
        <5>5. Below(Frac(four * x, e), Frac(1, 1)) <=> (four * x) * 1 < 1 * e
          <6> HIDE DEF four, x, e, p
          <6> QED
            BY <1>6, <5>1, FracOrder
        <5> QED
          BY <1>6, <5>1, <5>4, <5>5
      <4> QED
        BY <4>1, <4>2
    <3> QED
      BY <1>2, <3>1, <3>2, <3>3
  <2>5. V = q + 3 * e + (-(k * e)) + a /\ W = x * three + three * e + k * e + w4
    BY <1>3, <1>8, <2>1, <2>2
  <2>6. q \in Int /\ a \in Int /\ w4 \in Nat
    BY <1>6, <1>7, <2>3, <2>4
  <2> HIDE DEF q, a, w4, w, V, W, x, e, D, p
  <2>7. -3 * (3 * x + 3 * e + k * e + w4) < 10 * (q + 3 * e - k * e + a)
    BY <1>6, <2>3, <2>4, <2>6, VotesSuffice
  <2>8. V = q + 3 * e - k * e + a /\ W = 3 * x + 3 * e + k * e + w4
    BY <1>6, <1>7, <2>5, <2>6
  <2> QED
    BY <1>6, <1>7, <2>6, <2>7, <2>8
<1> HIDE DEF V, W, w, w4, D, x, e, p
<1>15. ~AtMost(WeightedScore(o), OpposeThreshold)
  <2> DEFINE m == -3
             ten == 10
  <2>1. m \in Int /\ ten \in Nat \ {0} /\ V * ten > m * W
    BY <1>13, <1>14
  <2>2. OpposeThreshold = Frac(m, ten)
    BY DEF OpposeThreshold
  <2> HIDE DEF m, ten
  <2>3. AtMost(Frac(V, W), Frac(m, ten)) <=> V * ten <= m * W
    BY <1>13, <2>1, FracOrder
  <2>4. V * ten \in Int /\ m * W \in Int
    BY <1>13, <2>1
  <2> QED
    BY <1>13, <2>1, <2>2, <2>3, <2>4
<1> QED
  BY <1>15 DEF Synthesize, o
-----------------------------------------------------------------------------
(* The note                                                                *)

\* A sequence of paragraphs.
IsNote(n) == \E S : n \in Seq(S)
Tells(n, kind) == \E i \in DOMAIN n : n[i].kind = kind

\* A paragraph tells its own kind.
LEMMA ParagraphIs ==
    ASSUME NEW k, NEW says
    PROVE  /\ IsNote(Paragraph(k, says))
           /\ \A kind : Tells(Paragraph(k, says), kind) <=> kind = k
<1> DEFINE p == [kind |-> k, says |-> says]
<1>1. Paragraph(k, says) = <<p>> /\ p.kind = k
  BY DEF Paragraph
<1> HIDE DEF p
<1>2. <<p>> \in Seq({p}) /\ DOMAIN <<p>> = {1} /\ <<p>>[1] = p
  OBVIOUS
<1>3. IsNote(<<p>>)
  BY <1>2 DEF IsNote
<1>4. \A kind : Tells(<<p>>, kind) <=> kind = k
  BY <1>1, <1>2 DEF Tells
<1> QED
  BY <1>1, <1>3, <1>4

\* A note tells what its parts tell.
LEMMA NotesJoin ==
    ASSUME NEW m, NEW n, IsNote(m), IsNote(n)
    PROVE  /\ IsNote(m \o n)
           /\ \A kind : Tells(m \o n, kind) <=> Tells(m, kind) \/ Tells(n, kind)
<1>1. PICK S : m \in Seq(S)
  BY DEF IsNote
<1>2. PICK T : n \in Seq(T)
  BY DEF IsNote
<1> DEFINE U == S \cup T
           q == m \o n
<1>3. m \in Seq(U) /\ n \in Seq(U)
  BY <1>1, <1>2
<1> HIDE DEF U
<1>4. q \in Seq(U) /\ Len(q) = Len(m) + Len(n) /\ Len(m) \in Nat /\ Len(n) \in Nat
  BY <1>3
<1>5. /\ \A i \in DOMAIN m : i \in DOMAIN q /\ q[i] = m[i]
      /\ \A i \in DOMAIN n : i + Len(m) \in DOMAIN q /\ q[i + Len(m)] = n[i]
      /\ \A i \in DOMAIN q : \/ i \in DOMAIN m /\ q[i] = m[i]
                             \/ i - Len(m) \in DOMAIN n /\ q[i] = n[i - Len(m)]
  BY <1>3
<1> HIDE DEF q
<1>6. IsNote(q)
  BY <1>4 DEF IsNote
<1>7. ASSUME NEW kind
      PROVE  Tells(q, kind) <=> Tells(m, kind) \/ Tells(n, kind)
  BY <1>5 DEF Tells
<1> QED
  BY <1>6, <1>7 DEF q

\* Nothing tells nothing.
LEMMA EmptyNote == IsNote(<< >>) /\ \A kind : ~Tells(<< >>, kind)
<1>1. << >> \in Seq({}) /\ DOMAIN << >> = {}
  OBVIOUS
<1> QED
  BY <1>1 DEF IsNote, Tells

\* The middle of the note, by decision and thesis.
LEMMA DecisionParagraphsTell ==
    ASSUME NEW d, d.decision \in {"APPROVE", "REDUCE", "REJECT"}, NEW o, NEW t
    PROVE  LET n == DecisionParagraphs(d, o, t)
           IN  /\ IsNote(n)
               /\ Tells(n, "reject") <=> d.decision = "REJECT"
               /\ d.decision = "REDUCE" => Tells(n, "reduce")
               /\ d.decision = "APPROVE" /\ t.final_stance # "SUPPORT" => Tells(n, "disagreement")
               /\ ~Tells(n, "selection") /\ ~Tells(n, "opening")
<1> DEFINE n == DecisionParagraphs(d, o, t)
           summary == CouncilSummary(t, o)
           dissent == DisagreementParagraph(t, o)
           reduce == ReduceParagraph(d)
           approve == ApproveParagraph(d)
<1>1. /\ IsNote(summary) /\ \A kind : Tells(summary, kind) <=> kind = "council"
      /\ IsNote(dissent) /\ \A kind : Tells(dissent, kind) <=> kind = "disagreement"
      /\ IsNote(reduce) /\ \A kind : Tells(reduce, kind) <=> kind = "reduce"
      /\ IsNote(approve) /\ \A kind : Tells(approve, kind) <=> kind = "approve"
  BY ParagraphIs DEF CouncilSummary, DisagreementParagraph, ReduceParagraph, ApproveParagraph
<1> HIDE DEF summary, dissent, reduce, approve
<1>2. CASE d.decision = "REJECT"
  <2>1. n = RejectParagraph(d)
    BY <1>2 DEF DecisionParagraphs
  <2>2. IsNote(n) /\ \A kind : Tells(n, kind) <=> kind = "reject"
    BY <2>1, ParagraphIs DEF RejectParagraph
  <2> QED
    BY <1>2, <2>2
<1>3. CASE d.decision = "REDUCE"
  <2>1. n = reduce \o summary
    BY <1>3 DEF DecisionParagraphs, reduce, summary
  <2>2. /\ IsNote(reduce \o summary)
        /\ \A kind : Tells(reduce \o summary, kind) <=> kind \in {"reduce", "council"}
    BY <1>1, NotesJoin
  <2> QED
    BY <1>3, <2>1, <2>2
<1>4. CASE d.decision = "APPROVE" /\ t.final_stance = "SUPPORT"
  <2>1. n = approve \o summary
    BY <1>4 DEF DecisionParagraphs, approve, summary
  <2>2. /\ IsNote(approve \o summary)
        /\ \A kind : Tells(approve \o summary, kind) <=> kind \in {"approve", "council"}
    BY <1>1, NotesJoin
  <2> QED
    BY <1>4, <2>1, <2>2
<1>5. CASE d.decision = "APPROVE" /\ t.final_stance # "SUPPORT"
  <2>1. n = approve \o dissent
    BY <1>5 DEF DecisionParagraphs, approve, dissent
  <2>2. /\ IsNote(approve \o dissent)
        /\ \A kind : Tells(approve \o dissent, kind) <=> kind \in {"approve", "disagreement"}
    BY <1>1, NotesJoin
  <2> QED
    BY <1>5, <2>1, <2>2
<1> QED
  BY <1>2, <1>3, <1>4, <1>5

\* The whole note.
LEMMA NarrativeTells ==
    ASSUME NEW c, NEW r, NEW d, d.decision \in {"APPROVE", "REDUCE", "REJECT"}, NEW o, NEW t,
           NEW size, NEW tested
    PROVE  LET n == GenerateNarrative(c, r, d, o, t, size, tested)
           IN  /\ Tells(n, "reject") <=> d.decision = "REJECT"
               /\ d.decision = "REDUCE" => Tells(n, "reduce")
               /\ d.decision = "APPROVE" /\ t.final_stance # "SUPPORT" => Tells(n, "disagreement")
               /\ Tells(n, "selection") <=> size > 1
               /\ Tells(n, "opening")
<1> DEFINE first == IF size > 1 THEN MultiCandidateParagraph(c, tested) ELSE << >>
           opening == OpeningParagraph(c, r)
           plan == PlanParagraph(c)
           body == DecisionParagraphs(d, o, t)
           a == first \o opening
           b == a \o plan
           e == b \o body
           n == e \o Disclaimer
<1>1. GenerateNarrative(c, r, d, o, t, size, tested) = n
  BY Zenon DEF GenerateNarrative
<1>2. /\ IsNote(opening) /\ \A kind : Tells(opening, kind) <=> kind = "opening"
      /\ IsNote(plan) /\ \A kind : Tells(plan, kind) <=> kind = "plan"
      /\ IsNote(Disclaimer) /\ \A kind : Tells(Disclaimer, kind) <=> kind = "disclaimer"
  BY ParagraphIs DEF OpeningParagraph, PlanParagraph, Disclaimer
<1>3. IsNote(first) /\ \A kind : Tells(first, kind) <=> size > 1 /\ kind = "selection"
  <2>1. CASE size > 1
    <3>1. first = MultiCandidateParagraph(c, tested)
      BY <2>1
    <3> QED
      BY <2>1, <3>1, ParagraphIs DEF MultiCandidateParagraph
  <2>2. CASE ~(size > 1)
    <3>1. first = << >>
      BY <2>2
    <3> QED
      BY <2>2, <3>1, EmptyNote
  <2> QED
    BY <2>1, <2>2
<1>4. /\ IsNote(body)
      /\ Tells(body, "reject") <=> d.decision = "REJECT"
      /\ d.decision = "REDUCE" => Tells(body, "reduce")
      /\ d.decision = "APPROVE" /\ t.final_stance # "SUPPORT" => Tells(body, "disagreement")
      /\ ~Tells(body, "selection") /\ ~Tells(body, "opening")
  BY DecisionParagraphsTell
<1> HIDE DEF first, opening, plan, body
<1>5. IsNote(a) /\ \A kind : Tells(a, kind) <=> Tells(first, kind) \/ Tells(opening, kind)
  BY <1>2, <1>3, NotesJoin
<1> HIDE DEF a
<1>6. IsNote(b) /\ \A kind : Tells(b, kind) <=> Tells(a, kind) \/ Tells(plan, kind)
  BY <1>2, <1>5, NotesJoin
<1> HIDE DEF b
<1>7. IsNote(e) /\ \A kind : Tells(e, kind) <=> Tells(b, kind) \/ Tells(body, kind)
  BY <1>4, <1>6, NotesJoin
<1> HIDE DEF e
<1>8. \A kind : Tells(n, kind) <=> Tells(e, kind) \/ Tells(Disclaimer, kind)
  BY <1>2, <1>7, NotesJoin
<1> HIDE DEF n
<1>9. /\ \A kind : Tells(n, kind) <=> \/ size > 1 /\ kind = "selection"
                                     \/ kind \in {"opening", "plan", "disclaimer"}
                                     \/ Tells(body, kind)
  BY <1>2, <1>3, <1>5, <1>6, <1>7, <1>8
<1>10. /\ Tells(n, "reject") <=> Tells(body, "reject")
       /\ Tells(body, "reduce") => Tells(n, "reduce")
       /\ Tells(body, "disagreement") => Tells(n, "disagreement")
       /\ Tells(n, "selection") <=> size > 1 \/ Tells(body, "selection")
       /\ Tells(n, "opening")
  BY <1>9
<1> QED
  BY <1>1, <1>4, <1>10

\* Who vetoes is the risk officer, and nobody else.
LEMMA VetoIsRejection ==
    ASSUME NEW c, NEW r, NEW d \in RiskDecisions, CandidateSound(c, r), RegimeSound(r)
    PROVE  Synthesize(RunCouncil(c, r, d)).final_stance = "VETO" <=> d.decision = "REJECT"
<1> DEFINE o == RunCouncil(c, r, d)
<1>1. /\ DOMAIN o = 1..4 /\ o[1] = QuantAgent(c) /\ o[2] = RiskOfficer(d)
      /\ o[3] = DevilsAdvocate(c, r) /\ o[4] = Auditor(c, r)
  BY CouncilIs
<1>2. o[1].stance # "VETO" /\ o[4].stance # "VETO"
      /\ (o[2].stance = "VETO" <=> d.decision = "REJECT")
  BY <1>1, QuantIs, AuditorIs, OfficerIs
<1>3. o[3].stance # "VETO"
  <2>1. PICK k \in 0..2 : o[3].stance = IF k = 0 THEN "NEUTRAL" ELSE "OPPOSE"
    BY <1>1, AdvocateIs
  <2> QED
    BY <2>1
<1> HIDE DEF o
<1>4. (\E i \in DOMAIN o : o[i].stance = "VETO") <=> d.decision = "REJECT"
  <2>1. \A i \in 1..4 : i = 1 \/ i = 2 \/ i = 3 \/ i = 4
    OBVIOUS
  <2>2. 2 \in 1..4
    OBVIOUS
  <2> QED
    BY <1>1, <1>2, <1>3, <2>1, <2>2
<1>5. Synthesize(o).final_stance = "VETO" <=> \E i \in DOMAIN o : o[i].stance = "VETO"
  BY DEF Synthesize
<1> QED
  BY <1>4, <1>5 DEF o

\* Every confidence is one AgentOpinion accepts, and no finding doubts the regime.
LEMMA OpinionsAre ==
    ASSUME NEW c, NEW r, NEW d \in RiskDecisions, CandidateSound(c, r), RegimeSound(r)
    PROVE  LET o == RunCouncil(c, r, d)
           IN  \A i \in DOMAIN o : /\ UnitInterval(o[i].confidence)
                                  /\ ToSet(o[i].findings) \cap Doubts = {}
<1> DEFINE o == RunCouncil(c, r, d)
<1>1. /\ DOMAIN o = 1..4 /\ o[1] = QuantAgent(c) /\ o[2] = RiskOfficer(d)
      /\ o[3] = DevilsAdvocate(c, r) /\ o[4] = Auditor(c, r)
  BY CouncilIs
<1> DEFINE Fine(p) == UnitInterval(p.confidence) /\ ToSet(p.findings) \cap Doubts = {}
<1>2. Fine(o[1]) /\ Fine(o[2])
  BY <1>1, QuantIs, OfficerIs
<1>3. Fine(o[3])
  <2>1. PICK k \in 0..2 : InThirds(o[3].confidence, k)
    BY <1>1, AdvocateIs
  <2>2. UnitInterval(o[3].confidence)
    BY <2>1, ThirdIsUnit DEF InThirds
  <2> QED
    BY <1>1, <2>2, AdvocateIs
<1>4. Fine(o[4])
  <2>1. UnitInterval(Whole(1)) /\ UnitInterval(Frac(1, 3))
    <3>1. UnitInterval(Frac(1, 1))
      BY UnitFrac
    <3> QED
      BY <3>1, SmallFractions, ThirdIsUnit
  <2>2. o[4].confidence = Whole(1) \/ o[4].confidence = Frac(1, 3)
    BY <1>1, AuditorIs DEF InThirds
  <2> QED
    BY <1>1, <2>1, <2>2, AuditorIs
<1> HIDE DEF o, Fine
<1>5. \A i \in 1..4 : i = 1 \/ i = 2 \/ i = 3 \/ i = 4
  OBVIOUS
<1>6. \A i \in DOMAIN o : Fine(o[i])
  BY <1>1, <1>2, <1>3, <1>4, <1>5
<1> QED
  BY <1>6 DEF o, Fine

-----------------------------------------------------------------------------
(* The pick                                                                *)

\* What the candidate ahead in sort_key has over the other.
LEMMA OutranksIs ==
    ASSUME NEW c, NEW e, c.expectedEdge \in Rational, e.expectedEdge \in Rational,
           NEW x \in Int \cup {None}, NEW y \in Int \cup {None}, Outranks(c, x, e, y)
    PROVE  /\ Backtested(y) => Backtested(x) /\ y <= x
           /\ ~Backtested(x) => ~Backtested(y) /\ AtMost(e.expectedEdge, c.expectedEdge)
<1>1. AtMost(c.expectedEdge, c.expectedEdge)
  BY RationalIsFrac DEF AtMost
<1>2. Below(e.expectedEdge, c.expectedEdge) => AtMost(e.expectedEdge, c.expectedEdge)
  BY OrderIsTotal
<1>3. (Backtested(x) => x \in Int) /\ (Backtested(y) => y \in Int)
  BY DEF Backtested
<1>4. Backtested(x) \in BOOLEAN /\ Backtested(y) \in BOOLEAN
  BY DEF Backtested
<1>5. CASE Backtested(x) # Backtested(y)
  <2>1. Backtested(x)
    BY <1>5 DEF Outranks
  <2> QED
    BY <1>4, <1>5, <2>1
<1>6. CASE Backtested(x) /\ Backtested(y)
  <2>1. x # y => x > y
    BY <1>6 DEF Outranks
  <2> QED
    BY <1>3, <1>6, <2>1
<1>7. CASE ~Backtested(x) /\ ~Backtested(y)
  <2>1. c.expectedEdge # e.expectedEdge => Below(e.expectedEdge, c.expectedEdge)
    BY <1>7 DEF Outranks
  <2> QED
    BY <1>1, <1>2, <1>7, <2>1
<1> QED
  BY <1>4, <1>5, <1>6, <1>7

-----------------------------------------------------------------------------
(* The invariant                                                           *)

\* A candidate that outranks every other.
First(i) ==
    /\ Len(scored) = Len(candidates)
    /\ \A j \in DOMAIN candidates \ {i} :
            Outranks(candidates[i], scored[i], candidates[j], scored[j])

\* Each score was read from one of the track records that were seen.
ScoresAreRead ==
    /\ scored \in Seq(Int \cup {None}) /\ Len(scored) <= Len(candidates)
    /\ \A i \in DOMAIN scored :
            \E record \in seen : scored[i] = record[candidates[i].strategyId]

ChainTypes ==
    /\ bars \in Series /\ backtests \in TrackRecords /\ committed \in 0..MaxResearchRuns
    /\ step \in {"classify", "score", "judge", "deliberate", "trade", "done", "aborted"}
    /\ seen \subseteq TrackRecords /\ IsFiniteSet(seen)

\* What was classified, and the candidates for it.
ReadingIs ==
    /\ step = "classify" => candidates = << >> /\ scored = << >>
    /\ regime = None \/ RegimeSound(regime)
    /\ candidates # << >> => RegimeSound(regime)
    /\ AllSound(candidates, regime)

\* The candidate picked, from the pick on, outranks every other.
PickIs ==
    /\ step \in {"classify", "score"} => picked = NoCandidate
    /\ step \in {"judge", "deliberate", "trade"} => picked # NoCandidate
    /\ picked # NoCandidate => \E i \in DOMAIN candidates : picked = candidates[i] /\ First(i)

\* After the deliberation opinions, thesis and note are those of the pick; before
\* it, and on every path around it, there is no thesis.
Deliberated ==
    /\ step \in {"trade", "done"} /\ picked # NoCandidate
    /\ decision \in RiskDecisions
    /\ opinions = RunCouncil(picked, regime, decision)
    /\ thesis = Synthesize(opinions)
    /\ narrative = GenerateNarrative(picked, regime, decision, opinions, thesis,
                                     Len(candidates), proven)

Undeliberated ==
    /\ step # "trade" /\ (step = "done" => picked = NoCandidate)
    /\ opinions = << >> /\ thesis = None

\* And the order is what the decision says.
OutcomeIs ==
    /\ step \in {"deliberate", "trade"} => decision \in RiskDecisions
    /\ Undeliberated \/ Deliberated
    /\ step = "done" /\ picked # NoCandidate =>
            order = IF decision.decision \in {"APPROVE", "REDUCE"}
                    THEN [strategyId |-> picked.strategyId, share |-> decision.sizingAdjustment]
                    ELSE None

\* The properties speak of one symbol in the end; the invariant carries how each
\* part came about from the steps before it.
ChainInv == ChainTypes /\ ReadingIs /\ ScoresAreRead /\ PickIs /\ OutcomeIs

\* The candidates, one by one.
LEMMA SoundIs ==
    ASSUME NEW q, NEW r, AllSound(q, r)
    PROVE  /\ DOMAIN q = 1..Len(q) /\ Len(q) \in Nat
           /\ \A i \in DOMAIN q :
                /\ CandidateSound(q[i], r) /\ q[i].strategyId \in Strategy
                /\ q[i].expectedEdge \in Rational /\ UnitInterval(q[i].signalStrength)
                /\ q[i] # NoCandidate
<1> DEFINE U == {c \in ToSet(q) : CandidateSound(c, r)}
<1>1. q \in Seq(U)
  BY DEF AllSound
<1>2. DOMAIN q = 1..Len(q) /\ Len(q) \in Nat /\ \A i \in DOMAIN q : q[i] \in U
  <2> HIDE DEF U
  <2> QED
    BY <1>1
<1>3. ASSUME NEW i \in DOMAIN q
      PROVE  /\ CandidateSound(q[i], r) /\ q[i].strategyId \in Strategy
             /\ q[i].expectedEdge \in Rational /\ UnitInterval(q[i].signalStrength)
             /\ q[i] # NoCandidate
  <2>1. CandidateSound(q[i], r)
    BY <1>2
  <2>2. PICK s \in Strategy : Offered(q[i], s, r)
    BY <2>1 DEF CandidateSound
  <2>3. q[i].strategyId \in Strategy /\ q[i].expectedEdge \in Rational
        /\ UnitInterval(q[i].signalStrength)
    BY <2>2, SmallFractions DEF Offered
  <2>4. NoCandidate.strategyId = "none" /\ "none" \notin Strategy
    BY StrategiesAre DEF NoCandidate, TrendFollowing, MeanReversion, Breakout
  <2> QED
    BY <2>1, <2>3, <2>4
<1> QED
  BY <1>2, <1>3

\* No candidates are sound candidates.
LEMMA NothingIsSound == \A r : AllSound(<< >>, r)
<1> SUFFICES ASSUME NEW r PROVE AllSound(<< >>, r)
  OBVIOUS
<1> DEFINE U == {c \in ToSet(<< >>) : CandidateSound(c, r)}
<1>1. << >> \in Seq(U)
  <2> HIDE DEF U
  <2> QED
    OBVIOUS
<1> QED
  BY <1>1 DEF AllSound

\* The invariant holds at the start,
LEMMA InitChain == Init => ChainInv
<1> SUFFICES ASSUME Init PROVE ChainInv
  OBVIOUS
<1>1. ChainTypes
  <2>1. MaxResearchRuns \in Nat
    BY DecisionChainAssumption
  <2> QED
    BY <2>1, FS_EmptySet DEF Init, ChainTypes
<1>2. ReadingIs
  BY NothingIsSound DEF Init, ReadingIs
<1>3. ScoresAreRead
  BY DEF Init, ScoresAreRead
<1>4. PickIs
  BY DEF Init, PickIs
<1>5. OutcomeIs
  BY DEF Init, OutcomeIs, Undeliberated
<1> QED
  BY <1>1, <1>2, <1>3, <1>4, <1>5 DEF ChainInv

\* when the bars are classified or too few,
LEMMA ClassifyKeeps == ChainInv /\ ClassifyBars => ChainInv'
<1> SUFFICES ASSUME ChainInv, ClassifyBars PROVE ChainInv'
  OBVIOUS
<1>0. /\ ChainTypes /\ ReadingIs /\ ScoresAreRead /\ PickIs /\ OutcomeIs
      /\ step = "classify" /\ UNCHANGED <<market, pick, outcome>>
  BY DEF ChainInv, ClassifyBars
<1>1. /\ bars' = bars /\ backtests' = backtests /\ committed' = committed
      /\ scored' = scored /\ seen' = seen /\ picked' = picked /\ opinions' = opinions
      /\ thesis' = thesis /\ decision' = decision
  BY <1>0 DEF market, pick, outcome
<1>2. candidates = << >> /\ scored = << >> /\ picked = NoCandidate /\ opinions = << >>
      /\ thesis = None
  BY <1>0 DEF ReadingIs, PickIs, OutcomeIs, Deliberated, Undeliberated
<1>3. /\ step' \in {"aborted", "score"}
      /\ \/ regime' = regime /\ candidates' = candidates
         \/ RegimeSound(regime') /\ AllSound(candidates', regime')
  <2>1. CASE Len(bars) < MinBars
    BY <2>1 DEF ClassifyBars, reading
  <2>2. CASE ~(Len(bars) < MinBars)
    <3>1. bars \in Seq(ClosedBars)
      BY <1>0, DecisionChainAssumption DEF ChainTypes
    <3>2. Len(bars) >= MinBars
      BY <2>2, <3>1, WindowsAre
    <3>3. step' = "score" /\ regime' = ClassifyRegime(bars)
          /\ candidates' = RunStrategies(bars, regime')
      BY <2>2 DEF ClassifyBars
    <3>4. RegimeSound(regime')
      BY <3>1, <3>2, <3>3, RegimeIsSound
    <3>5. \A s \in Strategy : Window(s) <= MinBars
      BY DecisionChainAssumption
    <3> QED
      BY <3>1, <3>2, <3>3, <3>4, <3>5, CandidatesAreSound
  <2> QED
    BY <2>1, <2>2
<1>4. ChainTypes'
  BY <1>0, <1>1, <1>3 DEF ChainTypes
<1>5. ReadingIs'
  BY <1>0, <1>2, <1>3, NothingIsSound DEF ReadingIs
<1>6. ScoresAreRead'
  <2>1. Len(candidates') \in Nat
    BY <1>2, <1>3, SoundIs, NothingIsSound
  <2>2. scored' = << >>
    BY <1>1, <1>2
  <2> QED
    BY <2>1, <2>2 DEF ScoresAreRead
<1>7. PickIs'
  BY <1>1, <1>2, <1>3 DEF PickIs
<1>8. OutcomeIs'
  BY <1>1, <1>2, <1>3 DEF OutcomeIs, Undeliberated
<1> QED
  BY <1>4, <1>5, <1>6, <1>7, <1>8 DEF ChainInv

\* when a score is read,
LEMMA FetchKeeps == ChainInv /\ FetchBacktest => ChainInv'
<1> SUFFICES ASSUME ChainInv, FetchBacktest PROVE ChainInv'
  OBVIOUS
<1>0. ChainTypes /\ ReadingIs /\ ScoresAreRead /\ PickIs /\ OutcomeIs
  BY DEF ChainInv
<1>1. /\ step = "score" /\ step' = step /\ Len(scored) < Len(candidates)
      /\ scored' = Append(scored, backtests[candidates[Len(scored) + 1].strategyId])
      /\ seen' = seen \cup {backtests}
      /\ bars' = bars /\ backtests' = backtests /\ committed' = committed
      /\ regime' = regime /\ candidates' = candidates
      /\ picked' = picked /\ opinions' = opinions /\ thesis' = thesis /\ decision' = decision
  BY DEF FetchBacktest, market, reading, outcome
<1>2. picked = NoCandidate /\ opinions = << >> /\ thesis = None
  BY <1>0, <1>1 DEF PickIs, OutcomeIs, Deliberated, Undeliberated
<1>3. ChainTypes'
  BY <1>0, <1>1, FS_AddElement DEF ChainTypes
<1>4. ReadingIs'
  BY <1>0, <1>1 DEF ReadingIs
<1>5. ScoresAreRead'
  <2> DEFINE n == Len(scored) + 1
             s == candidates[n].strategyId
  <2>1. scored \in Seq(Int \cup {None}) /\ n \in DOMAIN candidates /\ n <= Len(candidates)
    BY <1>0, <1>1, SoundIs DEF ScoresAreRead, ReadingIs
  <2>2. s \in Strategy /\ backtests \in [Strategy -> Int \cup {None}]
    BY <1>0, <2>1, SoundIs, DecisionChainAssumption DEF ReadingIs, ChainTypes
  <2>3. backtests[s] \in Int \cup {None}
    BY <2>2
  <2>4. scored' = Append(scored, backtests[s])
    BY <1>1
  <2> HIDE DEF s
  <2>5. /\ scored' \in Seq(Int \cup {None}) /\ Len(scored') = n
        /\ DOMAIN scored' = DOMAIN scored \cup {n} /\ scored'[n] = backtests[s]
        /\ \A i \in DOMAIN scored : scored'[i] = scored[i]
    BY <2>1, <2>3, <2>4
  <2> HIDE DEF n
  <2>6. ASSUME NEW i \in DOMAIN scored'
        PROVE  \E record \in seen' : scored'[i] = record[candidates'[i].strategyId]
    <3>1. CASE i = n
      BY <1>1, <2>5, <3>1 DEF s
    <3>2. CASE i \in DOMAIN scored
      BY <1>0, <1>1, <2>5, <3>2 DEF ScoresAreRead
    <3> QED
      BY <2>5, <3>1, <3>2
  <2> QED
    BY <1>1, <2>1, <2>5, <2>6 DEF ScoresAreRead
<1>6. PickIs'
  BY <1>1, <1>2 DEF PickIs
<1>7. OutcomeIs'
  BY <1>1, <1>2 DEF OutcomeIs, Undeliberated
<1> QED
  BY <1>3, <1>4, <1>5, <1>6, <1>7 DEF ChainInv

\* when a candidate is picked or there is none,
LEMMA PickKeeps == ChainInv /\ PickCandidate => ChainInv'
<1> SUFFICES ASSUME ChainInv, PickCandidate PROVE ChainInv'
  OBVIOUS
<1>0. ChainTypes /\ ReadingIs /\ ScoresAreRead /\ PickIs /\ OutcomeIs
  BY DEF ChainInv
<1>1. /\ step = "score" /\ Len(scored) = Len(candidates)
      /\ bars' = bars /\ backtests' = backtests /\ committed' = committed
      /\ regime' = regime /\ candidates' = candidates /\ scored' = scored /\ seen' = seen
      /\ opinions' = opinions /\ thesis' = thesis /\ decision' = decision
  BY DEF PickCandidate, market, reading
<1>2. picked = NoCandidate /\ opinions = << >> /\ thesis = None
  BY <1>0, <1>1 DEF PickIs, OutcomeIs, Deliberated, Undeliberated
<1>3. \/ step' = "done" /\ picked' = picked
      \/ step' = "judge" /\ \E i \in DOMAIN candidates : picked' = candidates[i] /\ First(i)
  <2>1. CASE candidates = << >>
    BY <2>1 DEF PickCandidate
  <2>2. CASE candidates # << >>
    <3>1. PICK i \in DOMAIN candidates :
            /\ \A j \in DOMAIN candidates \ {i} :
                Outranks(candidates[i], scored[i], candidates[j], scored[j])
            /\ picked' = candidates[i] /\ step' = "judge"
      BY <2>2 DEF PickCandidate
    <3> QED
      BY <1>1, <3>1 DEF First
  <2> QED
    BY <2>1, <2>2
<1>4. ChainTypes'
  BY <1>0, <1>1, <1>3 DEF ChainTypes
<1>5. ReadingIs'
  BY <1>0, <1>1, <1>3 DEF ReadingIs
<1>6. ScoresAreRead'
  BY <1>0, <1>1 DEF ScoresAreRead
<1>7. PickIs'
  <2>1. CASE step' = "done" /\ picked' = picked
    BY <1>2, <2>1 DEF PickIs
  <2>2. CASE step' = "judge" /\ \E i \in DOMAIN candidates : picked' = candidates[i] /\ First(i)
    <3>1. PICK i \in DOMAIN candidates : picked' = candidates[i] /\ First(i)
      BY <2>2
    <3>2. First(i)'
      BY <1>1, <3>1 DEF First
    <3>3. picked' # NoCandidate
      BY <1>0, <3>1, SoundIs DEF ReadingIs
    <3> QED
      BY <1>1, <2>2, <3>1, <3>2, <3>3 DEF PickIs
  <2> QED
    BY <1>3, <2>1, <2>2
<1>8. OutcomeIs'
  BY <1>1, <1>2, <1>3 DEF OutcomeIs, Undeliberated
<1> QED
  BY <1>4, <1>5, <1>6, <1>7, <1>8 DEF ChainInv

\* What the later steps leave alone.
\* What the steps after the pick leave alone.
Settled ==
    /\ bars' = bars /\ backtests' = backtests /\ committed' = committed
    /\ regime' = regime /\ candidates' = candidates /\ scored' = scored /\ seen' = seen
    /\ picked' = picked /\ proven' = proven

\* They keep all but the outcome as it is.
LEMMA SettledKeeps ==
    ASSUME ChainInv, Settled, step \in {"judge", "deliberate", "trade"},
           step' \in {"deliberate", "trade", "done", "aborted"}
    PROVE  ChainTypes' /\ ReadingIs' /\ ScoresAreRead' /\ PickIs'
<1>0. ChainTypes /\ ReadingIs /\ ScoresAreRead /\ PickIs
  BY DEF ChainInv
<1>1. ChainTypes' /\ ReadingIs' /\ ScoresAreRead'
  BY <1>0 DEF Settled, ChainTypes, ReadingIs, ScoresAreRead
<1>2. \A i : First(i) => First(i)'
  BY DEF Settled, First
<1>3. PickIs'
  BY <1>0, <1>2 DEF Settled, PickIs
<1> QED
  BY <1>1, <1>3

\* when it is judged, deliberated and traded,
LEMMA LaterStepsKeep == ChainInv /\ (Judge \/ Deliberate \/ Trade) => ChainInv'
<1> SUFFICES ASSUME ChainInv, Judge \/ Deliberate \/ Trade PROVE ChainInv'
  OBVIOUS
<1>0. PickIs /\ OutcomeIs
  BY DEF ChainInv
<1>1. Settled /\ step \in {"judge", "deliberate", "trade"}
      /\ step' \in {"deliberate", "trade", "done", "aborted"}
  BY DEF Judge, Deliberate, Trade, Settled, market, reading, pick
<1>2. picked # NoCandidate /\ picked' = picked
  BY <1>0, <1>1 DEF PickIs, Settled
<1>3. ASSUME Judge
      PROVE  OutcomeIs'
  <2>1. opinions' = << >> /\ thesis' = None
    BY <1>0, <1>2, <1>3 DEF Judge, OutcomeIs, Deliberated, Undeliberated
  <2>2. (step' = "aborted") \/ (step' = "deliberate" /\ decision' \in RiskDecisions)
    BY <1>3 DEF Judge
  <2> QED
    BY <2>1, <2>2 DEF OutcomeIs, Undeliberated
<1>4. ASSUME Deliberate
      PROVE  OutcomeIs'
  <2>1. decision \in RiskDecisions
    BY <1>0, <1>4 DEF OutcomeIs, Deliberate
  <2>2. /\ step' = "trade" /\ decision' = decision
        /\ opinions' = RunCouncil(picked, regime, decision)
        /\ thesis' = Synthesize(opinions')
        /\ narrative' = GenerateNarrative(picked, regime, decision, opinions', thesis',
                                          Len(candidates), proven)
    BY <1>4 DEF Deliberate
  <2>3. Deliberated'
    BY <1>1, <1>2, <2>1, <2>2 DEF Deliberated, Settled
  <2> QED
    BY <2>1, <2>2, <2>3 DEF OutcomeIs
<1>5. ASSUME Trade
      PROVE  OutcomeIs'
  <2>1. Deliberated
    BY <1>0, <1>5 DEF Trade, OutcomeIs, Undeliberated
  <2>2. /\ step' = "done" /\ decision' = decision /\ opinions' = opinions
        /\ thesis' = thesis /\ narrative' = narrative
        /\ order' = IF decision.decision \in {"APPROVE", "REDUCE"}
                    THEN [strategyId |-> picked.strategyId, share |-> decision.sizingAdjustment]
                    ELSE None
    BY <1>5 DEF Trade
  <2>3. Deliberated'
    BY <1>1, <2>1, <2>2 DEF Deliberated, Settled
  <2> QED
    BY <1>2, <2>2, <2>3 DEF OutcomeIs
<1> QED
  BY <1>1, <1>3, <1>4, <1>5, SettledKeeps DEF ChainInv

\* and while research runs commit.
LEMMA ResearchKeeps == ChainInv /\ (ResearchCommits \/ UNCHANGED vars) => ChainInv'
<1> SUFFICES ASSUME ChainInv, ResearchCommits \/ UNCHANGED vars PROVE ChainInv'
  OBVIOUS
<1>0. ChainTypes /\ ReadingIs /\ ScoresAreRead /\ PickIs /\ OutcomeIs
  BY DEF ChainInv
<1>1. /\ bars' = bars /\ step' = step /\ regime' = regime /\ candidates' = candidates
      /\ scored' = scored /\ seen' = seen /\ picked' = picked /\ proven' = proven
      /\ decision' = decision /\ opinions' = opinions /\ thesis' = thesis
      /\ narrative' = narrative /\ order' = order
  BY DEF ResearchCommits, vars, market, reading, pick, outcome
<1>2. backtests' \in TrackRecords /\ committed' \in 0..MaxResearchRuns
  <2>1. MaxResearchRuns \in Nat
    BY DecisionChainAssumption
  <2> QED
    BY <1>0, <2>1 DEF ChainTypes, ResearchCommits, vars, market
<1>3. ChainTypes'
  BY <1>0, <1>1, <1>2 DEF ChainTypes
<1>4. ReadingIs' /\ ScoresAreRead'
  BY <1>0, <1>1 DEF ReadingIs, ScoresAreRead
<1>5. \A i : First(i) => First(i)'
  BY <1>1 DEF First
<1>6. PickIs'
  BY <1>0, <1>1, <1>5 DEF PickIs
<1>7. OutcomeIs'
  BY <1>0, <1>1 DEF OutcomeIs, Deliberated, Undeliberated
<1> QED
  BY <1>3, <1>4, <1>6, <1>7 DEF ChainInv

\* The invariant holds throughout.
LEMMA ChainHolds == Spec => []ChainInv
<1>1. ChainInv /\ [Next]_vars => ChainInv'
  BY ClassifyKeeps, FetchKeeps, PickKeeps, LaterStepsKeep, ResearchKeeps DEF Next
<1> QED
  BY <1>1, InitChain, PTL DEF Spec

-----------------------------------------------------------------------------
(* The theorems                                                            *)

\* The empty sequence has no index.
LEMMA EmptyDomain == DOMAIN << >> = {}
  OBVIOUS

\* What the invariant says of each candidate.
LEMMA CandidatesHold ==
    ASSUME ChainInv
    PROVE  /\ DOMAIN candidates = 1..Len(candidates) /\ Len(candidates) \in Nat
           /\ \A i \in DOMAIN candidates :
                /\ CandidateSound(candidates[i], regime) /\ candidates[i].strategyId \in Strategy
                /\ candidates[i].expectedEdge \in Rational
                /\ UnitInterval(candidates[i].signalStrength)
           /\ candidates # << >> => RegimeSound(regime)
<1>1. AllSound(candidates, regime) /\ (candidates # << >> => RegimeSound(regime))
  BY DEF ChainInv, ReadingIs
<1> QED
  BY <1>1, SoundIs

\* The candidate that was picked is a sound one, for a sound regime.
LEMMA PickedIsSound ==
    ASSUME ChainInv, picked # NoCandidate
    PROVE  CandidateSound(picked, regime) /\ RegimeSound(regime) /\ picked.strategyId \in Strategy
<1>1. PICK i \in DOMAIN candidates : picked = candidates[i]
  BY DEF ChainInv, PickIs
<1>2. candidates # << >>
  BY <1>1, EmptyDomain
<1> QED
  BY <1>1, <1>2, CandidatesHold

\* Every confidence and strength is in the unit interval: AgentOpinion raises
\* on another one, which would end the run in the middle of a symbol.
THEOREM ChainTypesHold == Spec => []TypeOK
<1>1. ChainInv => TypeOK
  <2> SUFFICES ASSUME ChainInv PROVE TypeOK
    OBVIOUS
  <2>1. ChainTypes /\ (regime = None \/ RegimeSound(regime)) /\ (Undeliberated \/ Deliberated)
    BY DEF ChainInv, ReadingIs, OutcomeIs
  <2>2. regime # None => regime.label \in Labels /\ UnitInterval(regime.confidence)
    BY <2>1 DEF RegimeSound
  <2>3. \A i \in DOMAIN candidates : UnitInterval(candidates[i].signalStrength)
    BY CandidatesHold
  <2>4. \A i \in DOMAIN opinions : UnitInterval(opinions[i].confidence)
    <3>1. CASE Undeliberated
      BY <3>1, EmptyDomain DEF Undeliberated
    <3>2. CASE Deliberated
      BY <3>2, PickedIsSound, OpinionsAre DEF Deliberated
    <3> QED
      BY <2>1, <3>1, <3>2
  <2> QED
    BY <2>1, <2>2, <2>3, <2>4 DEF TypeOK, ChainTypes
<1> QED
  BY <1>1, ChainHolds, PTL

\* A candidate's stop or target is on the wrong side of its entry in two cases
\* only, whatever the bars, the windows and the factors of the strategies: the
\* price is past the band by half its width or more, or the channel it broke out
\* of has no width.  The true range must be averaged over more than one bar, or
\* the distance of a trend's stop may be zero, and a deviation may not be rounded
\* to zero.
THEOREM MisorderedOnlyByOvershoot ==
    ASSUME Resolved
    PROVE  Spec => []OnlyOvershootsAreMisordered
<1>1. ChainInv => OnlyOvershootsAreMisordered
  <2> SUFFICES ASSUME ChainInv, NEW i \in DOMAIN candidates
               PROVE  ~Ordered(candidates[i]) =
                          \/ /\ candidates[i].strategyId = MeanReversion
                             /\ AtMost(Half, candidates[i].signalStrength)
                          \/ /\ candidates[i].strategyId = Breakout
                             /\ candidates[i].target = candidates[i].entry
    BY DEF OnlyOvershootsAreMisordered
  <2>1. Placed(candidates[i])
    BY CandidatesHold DEF CandidateSound
  <2>2. Ordered(candidates[i]) <=> Aligned(candidates[i])
    BY DEF Ordered, Aligned
  <2> QED
    BY <2>1, <2>2 DEF Placed
<1> QED
  BY <1>1, ChainHolds, PTL

\* Neither the devil's advocate nor the auditor ever objects to the regime:
\* allowed_regimes of every strategy names tradable labels only, and
\* classify_regime gives no tradable label with less than half its confidence.
THEOREM RegimeIsNeverDoubted == Spec => []CouncilNeverDoubtsTheRegime
<1>1. ChainInv => CouncilNeverDoubtsTheRegime
  <2> SUFFICES ASSUME ChainInv PROVE CouncilNeverDoubtsTheRegime
    OBVIOUS
  <2>1. Undeliberated \/ Deliberated
    BY DEF ChainInv, OutcomeIs
  <2>2. CASE Undeliberated
    BY <2>2, EmptyDomain DEF Undeliberated, CouncilNeverDoubtsTheRegime
  <2>3. CASE Deliberated
    BY <2>3, PickedIsSound, OpinionsAre DEF Deliberated, CouncilNeverDoubtsTheRegime, Doubts
  <2> QED
    BY <2>1, <2>2, <2>3
<1> QED
  BY <1>1, ChainHolds, PTL

\* The thesis on a candidate approved in full is never OPPOSE: the weights and
\* confidences of the other three agents cannot outvote the risk officer.
THEOREM ApprovalsHaveNoMajorityAgainst == Spec => []ApprovalsAreNeverOpposed
<1>1. ChainInv => ApprovalsAreNeverOpposed
  <2> SUFFICES ASSUME ChainInv, thesis # None, decision.decision = "APPROVE"
               PROVE  thesis.final_stance # "OPPOSE"
    BY DEF ApprovalsAreNeverOpposed
  <2>1. Deliberated
    BY DEF ChainInv, OutcomeIs, Undeliberated
  <2> QED
    BY <2>1, PickedIsSound, ApprovalIsNotOpposed DEF Deliberated
<1> QED
  BY <1>1, ChainHolds, PTL

\* Decision, thesis, note and order of a symbol that was judged agree, for
\* whatever bars, track records and decisions of the gate.
THEOREM OneStoryIsTold == Spec => []NoteThesisAndOrderAgree
<1>1. ChainInv => NoteThesisAndOrderAgree
  <2> SUFFICES ASSUME ChainInv, step = "done", picked # NoCandidate
               PROVE  /\ (decision.decision = "REJECT") = (thesis.final_stance = "VETO")
                      /\ (decision.decision = "REJECT") = Told("reject")
                      /\ (decision.decision = "REJECT") = (order = None)
                      /\ order # None /\ thesis.final_stance # "SUPPORT" =>
                          Told("reduce") \/ Told("disagreement")
                      /\ Told("selection") = (Len(candidates) > 1)
                      /\ order # None => Told("opening") /\ order.strategyId = picked.strategyId
    BY DEF NoteThesisAndOrderAgree
  <2>1. Deliberated
    BY DEF ChainInv, OutcomeIs, Undeliberated
  <2>2. order = IF decision.decision \in {"APPROVE", "REDUCE"}
                THEN [strategyId |-> picked.strategyId, share |-> decision.sizingAdjustment]
                ELSE None
    BY DEF ChainInv, OutcomeIs
  <2>3. /\ decision.decision \in {"APPROVE", "REDUCE", "REJECT"}
        /\ None # [strategyId |-> picked.strategyId, share |-> decision.sizingAdjustment]
    BY <2>1, PickedIsSound, DecisionsAre DEF Deliberated
  <2>4. thesis.final_stance = "VETO" <=> decision.decision = "REJECT"
    BY <2>1, PickedIsSound, VetoIsRejection DEF Deliberated
  <2>5. \A kind : Told(kind) <=> Tells(narrative, kind)
    BY DEF Told, Tells
  <2>6. /\ Told("reject") <=> decision.decision = "REJECT"
        /\ decision.decision = "REDUCE" => Told("reduce")
        /\ decision.decision = "APPROVE" /\ thesis.final_stance # "SUPPORT" => Told("disagreement")
        /\ Told("selection") <=> Len(candidates) > 1
        /\ Told("opening")
    BY <2>1, <2>3, <2>5, NarrativeTells DEF Deliberated
  <2>7. /\ order # None <=> decision.decision \in {"APPROVE", "REDUCE"}
        /\ order # None => order.strategyId = picked.strategyId
    BY <2>2, <2>3
  <2>8. Told("reject") \in BOOLEAN /\ Told("selection") \in BOOLEAN
    BY DEF Told
  <2> QED
    BY <2>3, <2>4, <2>6, <2>7, <2>8
<1> QED
  BY <1>1, ChainHolds, PTL

\* A set with one element is a singleton.
LEMMA OneRecord ==
    ASSUME NEW S, IsFiniteSet(S), Cardinality(S) = 1
    PROVE  \E r \in S : S = {r}
<1>1. S # {}
  BY FS_EmptySet
<1>2. PICK r \in S : TRUE
  BY <1>1
<1>3. Cardinality(S \ {r}) = 0 /\ IsFiniteSet(S \ {r})
  BY <1>2, FS_RemoveElement
<1>4. S \ {r} = {}
  BY <1>3, FS_EmptySet
<1> QED
  BY <1>2, <1>4

\* _pick_candidate picks the best on record unless a research run committed
\* between its queries.
THEOREM TheBestIsPicked == Spec => []PickIsTheBestOnRecord
<1>1. ChainInv => PickIsTheBestOnRecord
  <2> SUFFICES ASSUME ChainInv, picked # NoCandidate, Cardinality(seen) = 1
               PROVE  \E record \in seen : BestBy(record, picked)
    BY DEF PickIsTheBestOnRecord
  <2>1. ChainTypes /\ ScoresAreRead
    BY DEF ChainInv
  <2>2. PICK r \in seen : seen = {r}
    BY <2>1, OneRecord DEF ChainTypes
  <2>3. r \in [Strategy -> Int \cup {None}]
    BY <2>1, DecisionChainAssumption DEF ChainTypes
  <2>4. PICK i \in DOMAIN candidates : picked = candidates[i] /\ First(i)
    BY DEF ChainInv, PickIs
  <2> DEFINE Recorded(c) == r[c.strategyId]
  <2>5. ToSet(candidates) = {candidates[j] : j \in DOMAIN candidates}
    BY DEF ToSet
  <2>6. \A j \in DOMAIN candidates : scored[j] = Recorded(candidates[j])
    <3>1. DOMAIN scored = DOMAIN candidates
      BY <2>1, <2>4, CandidatesHold DEF ScoresAreRead, First
    <3> QED
      BY <2>1, <2>2, <3>1 DEF ScoresAreRead
  <2>7. \A j \in DOMAIN candidates : Recorded(candidates[j]) \in Int \cup {None}
    BY <2>3, CandidatesHold
  <2>8. ASSUME NEW j \in DOMAIN candidates
        PROVE  /\ Backtested(Recorded(candidates[j])) =>
                      Backtested(Recorded(picked)) /\ Recorded(candidates[j]) <= Recorded(picked)
               /\ ~Backtested(Recorded(picked)) =>
                      ~Backtested(Recorded(candidates[j]))
                      /\ AtMost(candidates[j].expectedEdge, picked.expectedEdge)
    <3>1. CASE j = i
      <4>1. Backtested(Recorded(picked)) => Recorded(picked) \in Int
        BY <2>4, <2>7 DEF Backtested
      <4>2. AtMost(picked.expectedEdge, picked.expectedEdge)
        BY <2>4, CandidatesHold, RationalIsFrac DEF AtMost
      <4> QED
        BY <2>4, <3>1, <4>1, <4>2
    <3>2. CASE j # i
      <4>1. Outranks(candidates[i], Recorded(candidates[i]), candidates[j], Recorded(candidates[j]))
        BY <2>4, <2>6, <3>2 DEF First
      <4> HIDE DEF Recorded
      <4> QED
        BY <2>4, <2>7, <4>1, CandidatesHold, OutranksIs
    <3> QED
      BY <3>1, <3>2
  <2> DEFINE pool == ToSet(candidates)
             tested == {other \in pool : Backtested(Recorded(other))}
  <2>9. picked \in pool /\ \A other \in pool : \E j \in DOMAIN candidates : other = candidates[j]
    BY <2>4, <2>5
  <2>10. BestBy(r, picked) <=>
              IF tested # {}
              THEN picked \in tested /\ \A other \in tested : Recorded(other) <= Recorded(picked)
              ELSE \A other \in pool : AtMost(other.expectedEdge, picked.expectedEdge)
    BY DEF BestBy
  <2> HIDE DEF Recorded, pool
  <2>11. CASE tested # {}
    <3>1. PICK other \in pool : Backtested(Recorded(other))
      BY <2>11
    <3>2. Backtested(Recorded(picked))
      BY <2>8, <2>9, <3>1
    <3>3. \A e \in tested : Recorded(e) <= Recorded(picked)
      BY <2>8, <2>9
    <3> QED
      BY <2>2, <2>9, <2>10, <2>11, <3>2, <3>3
  <2>12. CASE tested = {}
    <3>1. ~Backtested(Recorded(picked))
      BY <2>9, <2>12
    <3>2. \A other \in pool : AtMost(other.expectedEdge, picked.expectedEdge)
      BY <2>8, <2>9, <3>1
    <3> QED
      BY <2>2, <2>10, <2>12, <3>2
  <2> QED
    BY <2>11, <2>12
<1> QED
  BY <1>1, ChainHolds, PTL

=============================================================================
