SPECIFICATION Spec

CONSTANTS
    r1 = r1
    r2 = r2
    None = None
    Torn = Torn
    Rank = {r1, r2}
    TotalSteps = 5
    Schedule <- MCSchedule
    SaveFreq = 2
    Keep = 2
    MaxRuns = 4

INVARIANTS
    TypeOK
    TrackerNamesWholeCheckpoint
    DiskBounded
    OvershootsByReruns
PROPERTIES
    ResumesBehindLastSave
    FinishesOrStuck
CHECK_DEADLOCK FALSE
