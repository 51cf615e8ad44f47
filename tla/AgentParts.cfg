SPECIFICATION MCSpec
CHECK_DEADLOCK FALSE
CONSTANTS
    Day = 3
    Week = 3
    GapDay = 1
    FoldDay = 2
    ChangeHour = 1
    MaxCatchup = 3
    Schedules <- SomeSchedules
    Starts <- SomeStarts
    MissedAfter = 1
    MaxTime = 12
    MaxSaves = 2
    MaxOutages = 1
    MaxFaults = 1
    OldJobs = {o1}
    NewJobs = {n1}
    MaxIdentities = 2
    MaxFileFaults = 1
    MaxEnds = 2
    MaxDamages = 1
INVARIANTS ScheduleKept RunsAreTold FilesAreKept
