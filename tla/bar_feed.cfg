SPECIFICATION FairSpec
CONSTANTS
    Symbols = 2
    Page = 2
    LastCandle = 4
    Day = 2
    Week = 1
    HistoryMax = 3
INVARIANTS TypeOK WeeklyBaseIsFirst
PROPERTIES CandlesInTurn SteadyNotStarved
CHECK_DEADLOCK FALSE
