SPECIFICATION Spec
CONSTANTS
    FastWindow = 2
    SlowWindow = 3
    VolatilityWindow = 2
    ObvWindow = 3
    TrendThreshold <- MCTrendThreshold
    HighVolatility <- MCHighVolatility
    LowVolatility <- MCLowVolatility
    StressSigma <- MCStressSigma
    ObvRatio <- MCObvRatio
    Steps = 100
    AtrWindow = 2
    ChannelWindow = 2
    BandWindow = 3
    AtrMultiplier <- MCAtrMultiplier
    RewardRisk <- MCRewardRisk
    NumStd <- MCNumStd
    EstimatedCosts <- MCEstimatedCosts
    CostRate <- MCCostRate
    Grain = 2
    GrowthLimit <- MCGrowthLimit
    Symbols <- MCSymbols
    Histories <- MCHistories
    MaxBars = 7
    MinBarsToRun = 4
    Lookback = 4
    MaxRuns = 2
    None = None
INVARIANTS
    TypeOK
    BacktestHoldsWhatThePipelineProposes
    TradesAndExitsExplainTheCurve
    RowsAreComparable
    NoTradesNoRecord
CHECK_DEADLOCK FALSE
