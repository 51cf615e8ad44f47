SPECIFICATION FairSpec
CONSTANTS
    Modes = {"inbound", "outbound"}
    MaxSockets = 2
    MaxFaults = 1
    MaxPresses = 2
    MaxRestarts = 1
CHECK_DEADLOCK FALSE
INVARIANTS LinkHolds
PROPERTIES ReportsPresence Recovers
