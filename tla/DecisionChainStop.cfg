SPECIFICATION Spec
CONSTANTS
    FastWindow = 2
    SlowWindow = 3
    VolatilityWindow = 2
    ObvWindow = 3
    TrendThreshold <- MCTrendThreshold
    HighVolatility <- MCHighVolatility
    LowVolatility <- MCLowVolatility
    StressSigma <- MCStressSigma
    ObvRatio <- MCObvRatio
    Steps = 100
    AtrWindow = 2
    ChannelWindow = 2
    BandWindow = 3
    AtrMultiplier <- MCAtrMultiplier
    RewardRisk <- MCRewardRisk
    NumStd <- MCNumStd
    EstimatedCosts <- MCEstimatedCosts
    Series <- MCSeries
    TrackRecords <- MCTrackRecords
    RiskDecisions <- MCRiskDecisions
    MaxResearchRuns = 1
    None = None
INVARIANT StopsLieBehindTheEntry
CHECK_DEADLOCK FALSE
