CONSTANTS
    Parts = {"cache", "layout", "layouts", "pool", "pairs"}
    Key = {k1}
    Field = {f1, f2}
    Val = {v1}
    th1 = th1
    th2 = th2
    th3 = th3
    Null = Null
    Absent = Absent
    None = None
    Uncached = Uncached
    Malformed = Malformed
    Proc = {th1, th2}
    Server = {th1}
    Task = {th1, th2}
    PoolSize = 1
    MaxMigration = 2
    MaxFaults = 2
    NoProc = NoProc
SPECIFICATION PartsSpec
CHECK_DEADLOCK FALSE
INVARIANT ReadsOwnWrites
INVARIANT CommitsWhatWasWanted
INVARIANT LayoutsAreFaithful
INVARIANT PoolIsSafe
INVARIANT EntitiesAddUp
PROPERTY StoreRecovers
