SPECIFICATION FairSpec
CONSTANTS
    o1 = o1
    o2 = o2
    btc = btc
    Orders <- MCOrders
    Symbols <- MCSymbols
    SymbolOf <- MCSymbolOf
    SideOf <- RoundTrip
    Qty = 2
    Lossy = TRUE
INVARIANT TypeOK
INVARIANT FillsBookedOnce
INVARIANT FillEventExact
INVARIANT OpenIsTimed
INVARIANT AbandonedIsAsked
PROPERTY ImplementsFillLedger
PROPERTY OpenOrderEnds
CHECK_DEADLOCK FALSE
