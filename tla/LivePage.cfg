SPECIFICATION Spec
CONSTANTS
    Dashboard = dashboard
    Chart = chart
    Streams = {dashboard, chart}
    Channels <- MCChannels
    Wanted <- MCWanted
    MaxEvents <- MCMaxEvents
    HistoryLimit = 2
    MaxBars = 3
INVARIANTS
    TypeOK
    OnlyLeaversSilence
    LeaversAreForgotten
    PriceIsCurrent
    ChartIsTheSeries
CHECK_DEADLOCK FALSE
