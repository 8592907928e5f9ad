SPECIFICATION FairSpec
CONSTANTS
    Asks = 3
    Events = 2
INVARIANTS
    TypeOK
    EventsPersistedOnce
    ConfirmedIsOwned
    StopIsComplete
PROPERTY RequestsServed
CHECK_DEADLOCK FALSE
