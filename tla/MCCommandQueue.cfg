SPECIFICATION FairSpec
CONSTANTS
    e1 = e1
    e2 = e2
    e3 = e3
    e4 = e4
    main = main
    cron = cron
    Entries <- MCEntries
    Lanes <- MCLanes
    LaneOf <- MCLaneOf
    MaxLimit = 2
    MaxGeneration = 1
INVARIANTS
    ActiveIsCurrentGeneration
    WorkConserving
PROPERTIES
    StartsWithinLimit
    SettlesOnce
    EveryCallSettles
CHECK_DEADLOCK FALSE
