-------------------------- MODULE MCDecisionChain --------------------------
(* The instance of DecisionChain that TLC checks: windows of two and three  *)
(* bars.  As with the code's own windows of 20 and two standard deviations  *)
(* a price can leave its band by more than half the band's width.           *)
EXTENDS DecisionChain

MCTrendThreshold == Frac(1, 20)
MCHighVolatility == Frac(2, 5)
MCLowVolatility == Frac(1, 10)
MCStressSigma == Whole(3)
MCObvRatio == Frac(3, 5)
MCAtrMultiplier == Whole(2)
MCRewardRisk == Whole(2)
MCNumStd == Frac(2, 3)
MCEstimatedCosts == Frac(1, 10)

Bar(close, range, volume) ==
    [close |-> close, high |-> close + range, low |-> close - range, volume |-> volume]

\* Four bars, the newest of which may be the only one with a volume; and two.
MCSeries ==
    LET closes == {<<9>> \o c : c \in [1..3 -> {8, 9, 10, 11, 12}]}
    IN  {[i \in 1..4 |-> Bar(c[i], range, IF i = 4 THEN volume ELSE 1)] :
            c \in closes, range \in {0, 1}, volume \in {1, 4}}
        \cup {<<Bar(8, 1, 1), Bar(9, 1, 1)>>}

Record(trend, reversion, breakout) ==
    [s \in Strategy |-> CASE s = TrendFollowing -> trend
                          [] s = MeanReversion -> reversion [] s = Breakout -> breakout]

MCTrackRecords == {Record(None, None, None), Record(1, 1, -1), Record(3, 1, 2)}

MCRiskDecisions ==
    {[decision |-> "APPROVE", sizingAdjustment |-> Whole(1), reasons |-> <<"OK">>],
     [decision |-> "REDUCE", sizingAdjustment |-> Frac(9, 10), reasons |-> <<"MAX_POSITION">>],
     [decision |-> "REDUCE", sizingAdjustment |-> Frac(1, 4), reasons |-> <<"RISK_PER_TRADE_LIMIT">>],
     [decision |-> "REJECT", sizingAdjustment |-> Whole(0), reasons |-> <<"STALE_DATA">>]}
=============================================================================
