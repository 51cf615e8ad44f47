SPECIFICATION MCSpec
CONSTANTS
    r1 = r1  r2 = r2  r3 = r3  r4 = r4  j1 = j1
    NoJob = NoJob  NoRun = NoRun
    Runs = {r1, r2, r3, r4}
    JobOf <- ThreeAndRestore
    Tunnelled = {r1, r4}
    SpawnOutcomes <- StartsOrThrows
    Outbound = FALSE
    MaxRestarts = 1
    Leased = {b, s}
    Restores = {s}
    Hosts = {h1, h2}
    Nowhere = Nowhere
    MaxSessions = 2
    MaxEdits = 2
    MaxTime = 3
    MaxRuns = 2
    MaxChanges = 2
    MaxFaults = 2
CHECK_DEADLOCK FALSE
INVARIANTS LeasesKept CleanupKept RunsAccounted OneProcessPerJob
PROPERTIES EndedStaysEnded AbortedNeverStarts ImplementsJobQueue
