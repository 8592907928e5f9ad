SPECIFICATION Spec
CONSTANTS
    o1 = o1
    o2 = o2
    o3 = o3
    x1 = x1
    x2 = x2
    btc = btc
    eth = eth
    Orders <- ExitedTwice
    Exits <- TwoExits
    Symbols <- MCSymbols
    SymbolOf <- ExitedTwicePair
    Cap = 2
    PositionLimit = 2
    BookLimit = 1
    MaxPositions = 1
    Entries = 1
INVARIANTS
    ExitsCountedOnce
CHECK_DEADLOCK FALSE
