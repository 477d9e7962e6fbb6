SPECIFICATION SafeSpec

CONSTANTS
    r1 = r1
    r2 = r2
    None = None
    Torn = Torn
    Rank = {r1, r2}
    TotalSteps = 5
    Schedule <- MCSchedule
    SaveFreq = 2
    Keep = 1
    MaxRuns = 2

INVARIANTS
    TrackerNamesWholeCheckpoint
CHECK_DEADLOCK FALSE
