SPECIFICATION FairSpec
CONSTANTS
    Window = 1
    Cooldown = 2
    RateNum = 1
    RateDen = 2
    RateLimits = 2
    MaxPositions = 1
    MaxSamples = 4
PROPERTY BreakerRecovers
CHECK_DEADLOCK FALSE
