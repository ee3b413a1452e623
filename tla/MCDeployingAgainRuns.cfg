CONSTANTS
    r1 = r1
    r2 = r2
    r3 = r3
    r4 = r4
    h1 = h1
    h2 = h2
    Hash = {h1, h2}
    Request = {r1, r2, r3, r4}
    hash <- HashOf
    Serial = FALSE
    Again = {}
    Modes = {"in turn"}
    NoFile = NoFile
    NoSize = NoSize
    None = None
    Submission = {r1, r2}
    Forms <- SomeForms
    NoHash = None
    MaxFailures = 2
    StartBlock = 1
    MaxBlock = 4
    Triggered = {2, 3}
    MaxFaults = 2
SPECIFICATION DeploySpec
PROPERTY AgainRuns
CHECK_DEADLOCK FALSE
