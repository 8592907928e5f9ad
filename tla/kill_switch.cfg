SPECIFICATION FairSpec
CONSTANTS
    enter = enter
    leave = leave
    other = other
    btc = btc
    eth = eth
    risk = risk
    Orders <- MCOrders
    Symbols <- MCSymbols
    Tasks <- MCTasks
    SymbolOf <- MCSymbolOf
    SideOf <- MCSideOf
INVARIANT TypeOK
INVARIANT StopIsThorough
INVARIANT OneSlipsPast
PROPERTY ClosingOnlyReduces
PROPERTY ActivationEnds
CHECK_DEADLOCK FALSE
