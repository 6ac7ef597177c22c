SPECIFICATION FairSpec
CONSTANTS
    r1 = r1
    r2 = r2
    chat = chat
    Runs <- MCRuns
    CronJobs <- MCCronJobs
    Sessions <- MCSessions
    SessionOf <- MCSessionOf
    LaneParam <- MCLaneParam
    MaxLimit = 2
    MaxGeneration = 1
INVARIANTS
    OneTurnPerSession
PROPERTIES
    EveryRunEnds
CHECK_DEADLOCK FALSE
