SPECIFICATION FairSpec
CONSTANTS
    web = web
    cli = cli
    tag = tag
    Saves = {web, cli}
    Tags = {tag}
    Process <- MCProcess
    Stamps <- MCStamps
    Timeframes = {"1h", "1d"}
    MonthOf <- MCMonthOf
    Batches <- MCBatches
INVARIANTS TypeOK KeyedOnce
PROPERTIES ImplementsTable JobsEnd
CHECK_DEADLOCK FALSE
