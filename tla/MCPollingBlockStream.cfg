CONSTANTS
    StartBlock = 0
    MaxBlock = 8
    Triggered <- TriggeredBlocks
    MaxRange = 3
    Target = 2
    Total <- TotalOf
    a1 = a1
    a2 = a2
    None = None
    Parts = {"polling", "triggers", "requests", "solana", "slots", "scanner", "analytics"}
SPECIFICATION PartsSpec
CHECK_DEADLOCK FALSE
INVARIANT TriggersAreHandled
INVARIANT DaysAddUp
PROPERTY IsABlockStream
PROPERTY PollingCatches
PROPERTY RequestsEnd
PROPERTY HistoryArrives
PROPERTY SlotsAreSent
PROPERTY ScansAreAccounted
