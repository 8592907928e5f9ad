SPECIFICATION Spec
CONSTANTS
    Asks = 3
    Events = 1
INVARIANT SingleSession
CHECK_DEADLOCK FALSE
