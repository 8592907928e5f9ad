SPECIFICATION FairSpec
CONSTANTS
    o1 = o1
    o2 = o2
    o3 = o3
    btc = btc
    eth = eth
    Orders <- MCOrders
    Symbols <- MCSymbols
    SymbolOf <- MCSymbolOf
    Staleness = 300
    Epoch = 1800000
    Starts = 3
INVARIANTS
    TypeOK
    RestoredBookIsTrue
    CheckpointIsWhole
PROPERTIES
    CleanRestartTrades
    StartEnds
CHECK_DEADLOCK FALSE
