SPECIFICATION Spec
CONSTANTS
    Symbols = 2
    Page = 2
    LastCandle = 4
    Day = 2
    Week = 1
    HistoryMax = 3
PROPERTIES AnchoredOncePerDay
CHECK_DEADLOCK FALSE
