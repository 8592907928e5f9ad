SPECIFICATION Spec
CONSTANTS
    o1 = o1
    o2 = o2
    o3 = o3
    x1 = x1
    x2 = x2
    btc = btc
    eth = eth
    Orders <- MCOrders
    Exits <- MCExits
    Symbols <- MCSymbols
    SymbolOf <- MCSymbolOf
    Cap = 2
    PositionLimit = 2
    BookLimit = 1
    MaxPositions = 1
    Entries = 2
SYMMETRY MCSymmetry
INVARIANTS
    TypeOK
    ReservationCovers
    ExposureSeen
    ExposureBounded
    PositionsBounded
PROPERTY
    EndedStaysEnded
CHECK_DEADLOCK FALSE
