-------------------------- MODULE MCPaperPipeline ---------------------------
(***************************************************************************)
(* Runs over the two symbols of the pipeline, with its default limits in   *)
(* units of half a percent of equity, and two bars standing for the fifty  *)
(* that classify_regime needs.                                             *)
(***************************************************************************)
EXTENDS PaperPipeline

CONSTANTS btc, eth

\* RiskLimits defaults: fractions of equity in half percents, spreads in basis
\* points, ages in seconds.
MCLimits ==
    [maxPosition |-> 20, maxAssetExposure |-> 20, maxGross |-> 200, maxNet |-> 100,
     maxLeverage |-> 200, maxDailyLoss |-> 6, maxWeeklyLoss |-> 16,
     maxDrawdown |-> 40, maxRiskPerTrade |-> 2, maxVar |-> 10, maxSpread |-> 50,
     maxDataAge |-> 30]

Signal(direction, stop) == [direction |-> direction, stop |-> stop]

\* A stop near enough to be approved, one so far that the size is cut, a
\* degenerate one, and no candidate.
MCSignals == { NoSignal, Signal("LONG", 10), Signal("SHORT", 160), Signal("LONG", 0) }

MCTwoSymbols == <<btc, eth>>

=============================================================================
