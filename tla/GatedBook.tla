----------------------------- MODULE GatedBook ------------------------------
(***************************************************************************)
(* The risk gate composed with the paper order and the position book, the  *)
(* way RISK-GOVERNANCE.md means them to be wired: each candidate is judged *)
(* by evaluate() against the portfolio its predecessors produced, and an   *)
(* APPROVE or REDUCE is ordered, filled in full and booked.                *)
(***************************************************************************)
EXTENDS RiskGate, PaperOrders, Functions

CONSTANTS
    Traded,         \* the traded symbols
    Sizes,          \* requested sizes offered to the gate
    Stops,          \* stop distances offered to the gate (Unset: none)
    Markets,        \* MarketContext values the feed may show
    Healths         \* PnL, drawdown and VaR figures the account may show

ASSUME GatedBookAssumption ==
    /\ IsFiniteSet(Traded)
    /\ Sizes \subseteq Positive
    /\ Stops \subseteq Positive \cup {Unset}
    /\ Markets \subseteq MarketContext
    /\ Healths \subseteq PortfolioHealth

VARIABLES
    positions,      \* net size by symbol, 0 when the book holds no position
    market,         \* the current MarketContext
    health          \* the current scalar fields of PortfolioState

bookVars == <<positions, market, health>>

BookTypeOK ==
    /\ positions \in [Traded -> Int]
    /\ market \in Markets
    /\ health \in Healths

-----------------------------------------------------------------------------

\* gross_exposure_pct and net_exposure_pct, as PortfolioState and the book
\* both compute them.
Gross(book) == SumFunction([s \in DOMAIN book |-> Abs(book[s])])
Net(book)   == SumFunction(book)

ExposureOf(book, s) ==
    [position |-> book[s], gross |-> Gross(book), net |-> Net(book)]

\* evaluate() on the portfolio the book implies.
Judge(c) == Evaluate(c, ExposureOf(positions, c.symbol), health, market)

\* What the strategies produce: none of them ever emits NEUTRAL.
Candidates ==
    [symbol : Traded, direction : {"LONG", "SHORT"}, size : Sizes, stop : Stops]

-----------------------------------------------------------------------------

BookInit ==
    /\ positions = [s \in Traded |-> 0]
    /\ market \in Markets
    /\ health \in Healths

\* APPROVE or REDUCE: the order is created, filled in full and applied.
Trade(c) ==
    /\ Actionable(Judge(c))
    /\ \E size \in OrderSizes(c, Judge(c), Rounding) :
        positions' = [positions EXCEPT ![c.symbol] = @ + SignedSize(c.direction, size)]
    /\ UNCHANGED <<market, health>>

\* REJECT: create_order_from_decision would raise, nothing is booked.
Refuse(c) ==
    /\ ~Actionable(Judge(c))
    /\ UNCHANGED bookVars

\* The feed and the operator change the market context.
MarketMoves ==
    /\ market' \in Markets
    /\ UNCHANGED <<positions, health>>

\* Marking to market changes the PnL, drawdown and VaR figures.
HealthMoves ==
    /\ health' \in Healths
    /\ UNCHANGED <<positions, market>>

BookNext ==
    \/ \E c \in Candidates : Trade(c) \/ Refuse(c)
    \/ MarketMoves
    \/ HealthMoves

BookSpec == BookInit /\ [][BookNext]_bookVars

-----------------------------------------------------------------------------
(* Properties                                                              *)

\* RISK-GOVERNANCE.md section 5: max position and max asset exposure are hard
\* limits, so no sequence of candidates, whatever the directions, the sizes
\* and the order they come in, builds a position beyond either by more than
\* the rounding of one order: the roundings of many never add up.
PositionWithinLimits ==
    \A s \in Traded :
        /\ Abs(positions[s]) <= Limits.maxPosition + Rounding
        /\ Abs(positions[s]) <= Limits.maxAssetExposure + Rounding

\* The same section's gross, leverage and net limits, over the whole book:
\* several symbols together never exceed what evaluate() checks one by one,
\* again up to the rounding of one order.
ExposureWithinLimits ==
    /\ Gross(positions) <= Limits.maxGross + Rounding
    /\ Gross(positions) <= Limits.maxLeverage + Rounding
    /\ Abs(Net(positions)) <= Limits.maxNet + Rounding

\* A limit on signed exposure that an earlier order overshot by its rounding.
Overshot(s) ==
    \/ Abs(positions[s]) > Limits.maxPosition
    \/ Abs(positions[s]) > Limits.maxAssetExposure
    \/ Abs(Net(positions)) > Limits.maxNet

\* A REDUCE tells the truth about how much would pass.  Resubmit the candidate
\* at any size its order may carry: it is approved; or the product was rounded
\* up past a limit, and then it is cut to no less than evaluate() allowed the
\* first time; or an earlier order overshot a limit that the whole request
\* would have crossed back over and the reduced one does not.
ReducedSizeStands ==
    \A c \in Candidates :
        LET d == Judge(c)
        IN  d.decision = "REDUCE" =>
                \A size \in OrderSizes(c, d, Rounding) :
                    LET again == Judge([c EXCEPT !.size = size])
                    IN  \/ again.decision = "APPROVE"
                        \/ again.decision = "REDUCE" /\ again.sizing >= d.sizing
                        \/ again.decision = "REJECT" /\ Overshot(c.symbol)

\* No trigger of the hard-reject list leaves the book a way to change: while
\* one holds, no candidate of any size or direction is booked.
HaltStopsTrading ==
    [][ (\/ market.killSwitch
         \/ market.circuitBreaker
         \/ market.dataAge > Limits.maxDataAge
         \/ market.spread > Limits.maxSpread
         \/ health.dailyPnl <= -Limits.maxDailyLoss
         \/ health.weeklyPnl <= -Limits.maxWeeklyLoss
         \/ health.drawdown >= Limits.maxDrawdown
         \/ health.var > Limits.maxVar) => UNCHANGED positions ]_bookVars

=============================================================================
