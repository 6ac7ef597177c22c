SPECIFICATION FairSpec
CONSTANTS
    e1 = e1
    e2 = e2
    session = session
    NoRun = NoRun
    Entries <- MCEntries
    Lanes <- MCLanes
    LaneOf <- MCLaneOf
    Stuck <- MCStuck
    MaxLimit = 1
    MaxGeneration = 2
INVARIANTS AcceptsWhileServing  OneRunPerLifeCycle
PROPERTIES
    ActiveTasksFinishFirst
    RestartUnblocksLanes
    AcceptedStopExits
CHECK_DEADLOCK FALSE
