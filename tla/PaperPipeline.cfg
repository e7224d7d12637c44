SPECIFICATION Spec
CONSTANTS
    btc = btc
    eth = eth
    Limits <- MCLimits
    Scale = 200
    Rounding = 1
    Runs = {r1, r2}
    SymbolOrder <- MCTwoSymbols
    Requested = 4
    Signals <- MCSignals
    MinBars = 2
    MaxBars = 3
    NoSignal = NoSignal
INVARIANTS
    FillsFollowDecisions
    RowsComeWithTheirSnapshot
    SerialSnapshotIsTheLedger
PROPERTIES
    PipelineKeepsALedger
    EveryRunEnds
CHECK_DEADLOCK FALSE
