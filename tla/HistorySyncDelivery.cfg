CONSTANTS
    Runs = {r1}
    HistoryKeep = 1
    MaxUnsynced = 1
    BatchSize = 1
    Malformed = {}
    Reinserted = {r1}
    EndStates <- SuccessOrSkipped
    LateDelivery = TRUE
    MaxSockets = 2
    MaxQueue = 2
    MaxFailures = 1
    MaxRestarts = 1
    MaxRequeues = 2
SPECIFICATION Spec
CHECK_DEADLOCK FALSE
INVARIANTS AcksAreTrue
PROPERTIES DeliversHistory
