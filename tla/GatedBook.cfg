SPECIFICATION BookSpec
CONSTANTS
    Limits <- MCLimits
    Scale = 16
    Rounding = 2
    Traded = {btc, eth}
    Sizes = {1, 2, 3, 4, 5, 6, 7, 9, 13, 16}
    Stops <- MCStops
    Markets <- MCMarkets
    Healths <- MCHealths
INVARIANTS
    PositionWithinLimits
    ExposureWithinLimits
    ReducedSizeStands
