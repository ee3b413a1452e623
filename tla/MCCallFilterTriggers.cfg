CONSTANTS
    StartBlock = 0
    MaxBlock = 8
    Triggered <- TriggeredBlocks
    MaxRange = 3
    Target = 2
    Total <- TotalOf
    a1 = a1
    a2 = a2
    None = None
    Parts = {"triggers"}
SPECIFICATION PartsSpec
CHECK_DEADLOCK FALSE
INVARIANT CallFilterTriggers
