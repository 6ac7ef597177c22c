SPECIFICATION FairSpec
CONSTANTS
    Jobs <- MCJobs
    Kind <- MCKind
    DeleteAfterRun = {}
    AtTimes = {2}
    Absent = Absent
    Services = {1, 2}
    Period = 2
    Backoff = 1
    StuckAfter = 1
    JobTimeout = 1
    Stagger = 1
    MaxMissed = 1
    MaxRetries = 1
    Concurrency = 1
    Outcomes = {"ok", "error"}
    MaxTime = 3
    MaxEvents = 2
INVARIANTS  NoOrphanMarker
PROPERTIES SlotsKept DisabledStays DueJobRuns
CHECK_DEADLOCK FALSE
