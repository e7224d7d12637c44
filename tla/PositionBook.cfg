SPECIFICATION Spec
CONSTANTS
    btc = btc
    eth = eth
    Symbols = {btc, eth}
    Orders <- MCOrders
    Prices = {2, 3}
    CostBps = 1000
    Rounded <- Exact
    MaxFills = 4
    MaxTime = 0
    MaxFaults = 1
INVARIANTS
    BookFollowsItsFills
    ReconcileFindsTheFault
PROPERTY
    BookIsACashAccount
CHECK_DEADLOCK FALSE
