SPECIFICATION FairSpec
CONSTANTS
    Processes = {"p", "q"}
    Tasks <- MCTasks
    ProcessOf <- MCProcessOf
    NoFile = NoFile
    NoSnapshot = NoSnapshot
    Plugin = FALSE
    RefreshTasks = {"a1", "b"}
    UpdateTasks = {"a2"}
    MaxRefreshes = 1
    Activated = {"p"}
INVARIANTS LockExclusive 
PROPERTIES  OrphanRemoved
CHECK_DEADLOCK FALSE
