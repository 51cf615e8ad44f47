CONSTANTS
    Runs = {r1}
    HistoryKeep = 1
    MaxUnsynced = 1
    BatchSize = 1
    Malformed = {}
    Reinserted = {}
    EndStates <- AllEnds
    LateDelivery = FALSE
    MaxSockets = 2
    MaxQueue = 2
    MaxFailures = 1
    MaxRestarts = 1
    MaxRequeues = 2
    Jobs = {j1}
    CacheFor = 2
    MissedAfter = 1
    MaxTime = 4
    MaxEvents = 4
    Hosts = {"h1", "h2"}
    Plain = "made"
    Locked = "brought"
    MaxCardEvents = 2
SPECIFICATION MCSpec
CHECK_DEADLOCK FALSE
INVARIANTS AttentionKept TunnelKept AckedRunAgrees EndReportedOnce
PROPERTIES EndedStaysEnded
