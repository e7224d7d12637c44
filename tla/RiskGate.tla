------------------------------ MODULE RiskGate ------------------------------
(***************************************************************************)
(* The mandatory APPROVE / REDUCE / REJECT gate of services/risk-engine.   *)
(*                                                                         *)
(* Every percentage of the code is an integer number of units here, and    *)
(* Scale is the number of units in one whole equity.  evaluate() returns a *)
(* REDUCE as the float allowed / requested and the order multiplies it     *)
(* back in floats: `sizing' names the fraction by its numerator, and       *)
(* OrderSizes has every product that misses it by no more than Rounding.   *)
(***************************************************************************)
EXTENDS Integers, FiniteSets

CONSTANTS
    Limits,     \* the RiskLimits dataclass, one field per configured limit
    Scale,      \* units in one equity: Scale units = 100 %
    Rounding    \* units by which a float product may miss the exact one

Positive == Nat \ {0}

\* RiskLimits.__post_init__ refuses a limit that is not positive.
RiskLimits ==
    [maxPosition : Positive, maxAssetExposure : Positive, maxGross : Positive,
     maxNet : Positive, maxLeverage : Positive, maxDailyLoss : Positive,
     maxWeeklyLoss : Positive, maxDrawdown : Positive,
     maxRiskPerTrade : Positive, maxVar : Positive, maxSpread : Positive,
     maxDataAge : Positive]

ASSUME LimitsAssumption ==
    Limits \in RiskLimits /\ Scale \in Positive /\ Rounding \in Nat

Unset == -1     \* None: no stop distance, or no return history for the VaR

Directions == {"LONG", "SHORT", "NEUTRAL"}

\* CandidateRequest: __post_init__ refuses a size or a stop that is not positive.
CandidateRequest(Symbols) ==
    [symbol : Symbols, direction : Directions, size : Positive,
     stop : Positive \cup {Unset}]

\* MarketContext
MarketContext ==
    [killSwitch : BOOLEAN, circuitBreaker : BOOLEAN, dataAge : Nat, spread : Nat]

\* The scalar fields of PortfolioState; `var' is historical_var of
\* portfolio_returns, or Unset when there are fewer than two returns.
PortfolioHealth ==
    [dailyPnl : Int, weeklyPnl : Int, drawdown : Nat, var : Int]

\* PortfolioState as _sizing_caps reads it: the position in the candidate's
\* symbol, and the gross and net exposure properties.
Exposure == [position : Int, gross : Nat, net : Int]

Abs(x) == IF x < 0 THEN -x ELSE x
AtLeastZero(x) == IF x < 0 THEN 0 ELSE x
Least(S) == CHOOSE x \in S : \A y \in S : x <= y

-----------------------------------------------------------------------------
(* _hard_reject_checks                                                     *)

\* The eight triggers, in the order the code tests them.
HardRejectChecks(health, market) ==
    << [code |-> "KILL_SWITCH_ENGAGED",     fires |-> market.killSwitch],
       [code |-> "CIRCUIT_BREAKER_ENGAGED", fires |-> market.circuitBreaker],
       [code |-> "STALE_DATA",              fires |-> market.dataAge > Limits.maxDataAge],
       [code |-> "LIQUIDITY_SPREAD_LIMIT",  fires |-> market.spread > Limits.maxSpread],
       [code |-> "MAX_DAILY_LOSS",          fires |-> health.dailyPnl <= -Limits.maxDailyLoss],
       [code |-> "MAX_WEEKLY_LOSS",         fires |-> health.weeklyPnl <= -Limits.maxWeeklyLoss],
       [code |-> "MAX_PORTFOLIO_DRAWDOWN",  fires |-> health.drawdown >= Limits.maxDrawdown],
       [code |-> "MAX_PORTFOLIO_VAR",
        fires |-> health.var # Unset /\ health.var > Limits.maxVar] >>

\* The code of the first trigger that fires, as a set: empty when none does.
HardReject(health, market) ==
    LET checks == HardRejectChecks(health, market)
    IN  { checks[i].code : i \in { j \in 1..8 :
            checks[j].fires /\ \A k \in 1..(j - 1) : ~checks[k].fires } }

-----------------------------------------------------------------------------
(* _sizing_caps                                                            *)

Sign == [LONG |-> 1, SHORT |-> -1, NEUTRAL |-> 0]

\* Mutant of AddCap: headroom that forgets the current exposure.
AddCapWithoutCurrent(code, current, projected, limit) ==
    IF Abs(projected) <= limit THEN {} ELSE {[code |-> code, allowed |-> limit]}

\* add_cap: a limit the projection stays within contributes nothing.
AddCap(code, current, projected, limit) ==
    IF Abs(projected) <= limit THEN {}
    ELSE {[code |-> code, allowed |-> AtLeastZero(limit - Abs(current))]}

\* fixed_fractional_size(1.0, max_risk_per_trade, stop), rounded down to units.
FixedFractionalSize(stop) == (Limits.maxRiskPerTrade * Scale) \div stop

RiskPerTradeCap(c) ==
    IF c.stop # Unset /\ c.size > FixedFractionalSize(c.stop)
    THEN {[code |-> "RISK_PER_TRADE_LIMIT", allowed |-> FixedFractionalSize(c.stop)]}
    ELSE {}

\* Mutant of SizingCaps: exposure limits checked on the symbol alone.
SizingCapsPerSymbol(c, e) ==
    LET projected == e.position + Sign[c.direction] * c.size
    IN  AddCap("MAX_POSITION", e.position, projected, Limits.maxPosition)
            \cup AddCap("MAX_GROSS_EXPOSURE", e.position, projected, Limits.maxGross)
            \cup RiskPerTradeCap(c)

\* The gross projection adds the requested size whatever the direction.
SizingCaps(c, e) ==
    LET signed    == Sign[c.direction] * c.size
        projected == e.position + signed
        gross     == e.gross + c.size
        net       == e.net + signed
    IN  UNION { AddCap("MAX_POSITION", e.position, projected, Limits.maxPosition),
                AddCap("MAX_ASSET_EXPOSURE", e.position, projected, Limits.maxAssetExposure),
                AddCap("MAX_GROSS_EXPOSURE", e.gross, gross, Limits.maxGross),
                AddCap("MAX_LEVERAGE", e.gross, gross, Limits.maxLeverage),
                AddCap("MAX_NET_EXPOSURE", e.net, net, Limits.maxNet),
                RiskPerTradeCap(c) }

-----------------------------------------------------------------------------
(* evaluate                                                                *)

Decision(verdict, reasons, sizing) ==
    [decision |-> verdict, reasons |-> reasons, sizing |-> sizing]

\* Mutant of Evaluate: the loosest of the caps binds.
EvaluateByLoosestCap(c, e, health, market) ==
    LET caps    == SizingCaps(c, e)
        allowed == {cap.allowed : cap \in caps}
        binding == CHOOSE x \in allowed : \A y \in allowed : y <= x
        codes   == {cap.code : cap \in caps}
    IN  IF HardReject(health, market) # {}
        THEN Decision("REJECT", HardReject(health, market), Unset)
        ELSE IF caps = {} THEN Decision("APPROVE", {"OK"}, Unset)
        ELSE IF binding <= 0 THEN Decision("REJECT", codes, Unset)
        ELSE Decision("REDUCE", codes, binding)

\* min() over the fractions is the least numerator: the request is their common
\* denominator.
Evaluate(c, e, health, market) ==
    LET hard    == HardReject(health, market)
        caps    == SizingCaps(c, e)
        binding == Least({cap.allowed : cap \in caps})
        codes   == {cap.code : cap \in caps}
    IN  IF hard # {} THEN Decision("REJECT", hard, Unset)
        ELSE IF caps = {} THEN Decision("APPROVE", {"OK"}, Unset)
        ELSE IF binding <= 0 THEN Decision("REJECT", codes, Unset)
        ELSE Decision("REDUCE", codes, binding)

=============================================================================
