CONSTANTS
    Runs = {r1, r2}
    HistoryKeep = 1
    MaxUnsynced = 1
    BatchSize = 1
    Malformed = {r2}
    Reinserted = {}
    EndStates <- NeverRan
    LateDelivery = FALSE
    MaxSockets = 1
    MaxQueue = 1
    MaxFailures = 1
    MaxRestarts = 0
    MaxRequeues = 2
SPECIFICATION FairSpec
CHECK_DEADLOCK FALSE
PROPERTIES PrunedAndSynced
