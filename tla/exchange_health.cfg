SPECIFICATION FairSpec
CONSTANTS
    Window = 2
    Cooldown = 3
    RateNum = 1
    RateDen = 2
    RateLimits = 3
    MaxPositions = 3
    MaxSamples = 6
INVARIANTS
    TypeOK
    OneEntryAfterTrip
PROPERTIES
    ImplementsBreaker
    TripStops
CHECK_DEADLOCK FALSE
