SPECIFICATION Spec
CONSTANTS
    enter = enter
    leave = leave
    other = other
    btc = btc
    eth = eth
    risk = risk
    Orders <- MCOrders
    Symbols <- MCSymbols
    Tasks <- MCTasks
    SymbolOf <- MCSymbolOf
    SideOf <- MCSideOf
INVARIANT ActivatedIsFlat
CHECK_DEADLOCK FALSE
