SPECIFICATION FairSpec
CONSTANTS
    o1 = o1
    o2 = o2
    o3 = o3
    x1 = x1
    x2 = x2
    btc = btc
    eth = eth
    Orders <- OneOfEach
    Exits <- MCExits
    Symbols <- MCSymbols
    SymbolOf <- OneOfEachPair
    Cap = 2
    PositionLimit = 2
    BookLimit = 1
    MaxPositions = 1
    Entries = 1
PROPERTY
    ReservationEnds
CHECK_DEADLOCK FALSE
