SPECIFICATION Spec
CONSTANTS
    o1 = o1
    o2 = o2
    btc = btc
    Orders <- MCOrders
    Symbols <- MCSymbols
    SymbolOf <- MCSymbolOf
    SideOf <- BuyOnly
    Qty = 2
    Lossy = FALSE
INVARIANT FeesWithinCharge
CHECK_DEADLOCK FALSE
