SPECIFICATION FairSpec
CONSTANTS
    r1 = r1  r2 = r2  r3 = r3  r4 = r4  j1 = j1
    NoJob = NoJob  NoRun = NoRun
    Runs = {r1, r2, r4}
    JobOf <- TwoAndRestore
    Tunnelled = {r1, r4}
    SpawnOutcomes <- StartsOrErrs
    Outbound = FALSE
    MaxRestarts = 1
CHECK_DEADLOCK FALSE
PROPERTIES EverythingEnds
