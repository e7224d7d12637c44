----------------------------- MODULE MCResearch -----------------------------
(* The instance of Research that TLC checks: prices that double and halve,  *)
(* so that a short position can lose everything and a long one overflow.    *)
EXTENDS Research

MCTrendThreshold == Frac(3, 20)
MCHighVolatility == Frac(1, 2)
MCLowVolatility == Frac(1, 10)
MCStressSigma == Whole(3)
MCObvRatio == Frac(3, 5)
MCAtrMultiplier == Whole(2)
MCRewardRisk == Whole(2)
MCNumStd == Frac(2, 3)
MCEstimatedCosts == Frac(1, 10)
MCCostRate == Frac(1, 4)
MCGrowthLimit == [periods \in 1..6 |-> Frac(20 + periods, 20)]
MCSymbols == <<"BTC-USDT", "ETH-USDT">>

Bar(close) ==
    [close |-> close, high |-> close + 1, low |-> close - 1, volume |-> 1, rejected |-> FALSE]
Bars(closes) == [i \in DOMAIN closes |-> Bar(closes[i])]
Rejected(bar) == [bar EXCEPT !.rejected = TRUE]

\* Of the first symbol too few bars, or more than enough with a bad one; of the
\* second six bars and a seventh that may come before or after they are fetched.
MCHistories ==
    {[s \in Symbol |->
        IF s = "BTC-USDT"
        THEN [stored |-> first, arriving |-> << >>]
        ELSE [stored |-> Bars(SubSeq(closes, 1, 6)), arriving |-> <<Bar(closes[7])>>]] :
        first  \in {Bars(<<4, 4>>), Append(Bars(<<8, 4, 4, 8, 8, 8, 8>>), Rejected(Bar(99))) \o Bars(<<4>>)},
        closes \in {<<8>> \o c : c \in [1..6 -> {4, 8}]}}
=============================================================================
