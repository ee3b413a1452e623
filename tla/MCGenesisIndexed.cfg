CONSTANTS
    Parts = {"indexer"}
    factory = factory
    pair = pair
    token = token
    None = None
    Failed = Failed
    c1 = c1
    c2 = c2
    h1 = h1
    h2 = h2
    DataSource <- ThreeSources
    Static <- OnlyFactory
    MinStart = 0
    MaxBlock = 5
    Triggers <- TriggersOf
    Creates <- CreatesOf
    MaxRequests = 2
    MaxOps = 2
    MaxMaps = 1
    MaxValues = 2
    MaxDepth = 2
    MaxElapsed = 3
    Timeout = 3
    MinWait = 1
    MaxSlot = 3
    FirstRoot = 1
    HasBlock <- Blocks
    Undecodable = {2}
    Match <- MatchOf
    Conn = {c1, c2}
    hash <- Reconnected
    Batch = 2
    Permits = 2
    ChannelSize = 1
    QueueSize = 1
    Lag = 1
SPECIFICATION PartsSpec
INVARIANT GenesisIndexed
