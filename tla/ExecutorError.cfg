SPECIFICATION Spec
CONSTANTS
    r1 = r1  r2 = r2  r3 = r3  r4 = r4  j1 = j1
    NoJob = NoJob  NoRun = NoRun
    Runs = {r1, r2, r3}
    JobOf <- ThreeRuns
    Tunnelled = {r1}
    SpawnOutcomes <- StartsOrErrs
    Outbound = FALSE
    MaxRestarts = 0
CHECK_DEADLOCK FALSE
INVARIANTS SlotIsHeld
