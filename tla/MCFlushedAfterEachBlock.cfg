CONSTANTS
    Parts = {"plugin"}
    k1 = k1
    k2 = k2
    k3 = k3
    Key = {k1, k2, k3}
    Weight = {1, 2}
    MaxWeight = 2
    StalePeriod = 2
    UsizeLimit = 64
    OverflowChecks = TRUE
    MaxFreq = 2
    Foreign <- LightForeign
    EntityKey = {k1}
    Required = {f2}
    Saved <- Saves
    LastSlot = 3
    MaxFaults = 1
    Null = Null
    Absent = Absent
    Uncached = Uncached
    None = None
    f1 = f1
    f2 = f2
    v1 = v1
    v2 = v2
    Items = {x, y}
    BufLen = 3
    MaxPushes = 7
    Nothing = None
SPECIFICATION PartsSpec
CHECK_DEADLOCK FALSE
INVARIANT FlushedAfterEachBlock
