SPECIFICATION FairFeedSpec
CONSTANTS
    Records <- MCRecords
    Junk = {3}
    Old = {2}
    PageSize = 2
    MaxPages = 3
    MaxRetries = 1
    MaxChanges = 2
INVARIANTS
    QuietReadIsExact
    ChangesCostLittle
PROPERTIES
    FetchEnds
CHECK_DEADLOCK FALSE
