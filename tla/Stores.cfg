SPECIFICATION MCSpec
CONSTANTS
    Jobs = {j1}
    Unlinked = {j1}
    Matched = {j1}
    Interval = 1
    Processes = {1, 2}
    MaxTime = 1
    MaxEdits = 1
    MaxRolls = 1
    MaxDrops = 1
    MaxFaults = 1
    MaxChanges = 2
    MaxListFaults = 1
    MaxKeys = 3
    MaxKills = 3
    MaxFileEdits = 3
    MaxForms = 2
    MaxSaves = 1
    MaxGone = 1
    Clients = {c1, c2}
    MaxAsked = 1
    MaxSteps = 3
CHECK_DEADLOCK FALSE
INVARIANTS CacheFollowsAgent EditsHold ListsKept SecretsStored RestoreKept
PROPERTIES AskedIsSettled EditorsKept
