SPECIFICATION Spec
CONSTANTS
    btc = btc
    eth = eth
    Symbols = {btc}
    Orders <- MCSameSize
    Prices = {1}
    CostBps = 0
    Rounded <- ThreeBits
    MaxFills = 6
    MaxTime = 0
    MaxFaults = 0
INVARIANT FullyClosedIsRemoved
CHECK_DEADLOCK FALSE
