CONSTANTS
    Runs = {r1}
    HistoryKeep = 2
    MaxUnsynced = 2
    BatchSize = 1
    Malformed = {}
    Reinserted = {}
    EndStates <- OnlySuccess
    LateDelivery = FALSE
    MaxSockets = 2
    MaxQueue = 1
    MaxFailures = 1
    MaxRestarts = 1
    MaxRequeues = 2
SPECIFICATION FairSpec
CHECK_DEADLOCK FALSE
PROPERTIES SyncedAndReported
