---------------------------- MODULE MCGatedBook -----------------------------
(***************************************************************************)
(* A book of two symbols under limits scaled down so that position, gross  *)
(* and net limit each bind somewhere; asset exposure and leverage bind a   *)
(* little later and appear among the reasons.  A product may be two units  *)
(* off, so that an overshot limit is more than the least order away.       *)
(***************************************************************************)
EXTENDS GatedBook

\* Per-symbol limits 6 and 8, gross 10 and leverage 12 below twice the larger
\* position, net 8: every limit can be reached, and none implies another.
MCLimits ==
    [maxPosition |-> 6, maxAssetExposure |-> 8, maxGross |-> 10, maxNet |-> 8,
     maxLeverage |-> 12, maxDailyLoss |-> 3, maxWeeklyLoss |-> 8,
     maxDrawdown |-> 20, maxRiskPerTrade |-> 1, maxVar |-> 5, maxSpread |-> 50,
     maxDataAge |-> 30]

\* With a Scale of 16 units the stops 3 and 10 allow 5 units and 1 unit at risk.
MCStops == {Unset, 3, 10}

Calm == [killSwitch |-> FALSE, circuitBreaker |-> FALSE, dataAge |-> 30, spread |-> 50]

\* Each market trigger at its limit and just past it.
MCMarkets ==
    { Calm, [Calm EXCEPT !.killSwitch = TRUE], [Calm EXCEPT !.circuitBreaker = TRUE],
      [Calm EXCEPT !.dataAge = 31], [Calm EXCEPT !.spread = 51] }

Sound == [dailyPnl |-> -2, weeklyPnl |-> -7, drawdown |-> 19, var |-> 5]

\* Each account trigger just short of its limit and at it.
MCHealths ==
    { Sound, [Sound EXCEPT !.var = Unset], [Sound EXCEPT !.dailyPnl = -3],
      [Sound EXCEPT !.weeklyPnl = -8], [Sound EXCEPT !.drawdown = 20],
      [Sound EXCEPT !.var = 6] }

=============================================================================
