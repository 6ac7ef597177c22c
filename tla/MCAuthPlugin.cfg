SPECIFICATION Spec
CONSTANTS
    Processes = {"p", "q"}
    Tasks <- MCTasks
    ProcessOf <- MCProcessOf
    NoFile = NoFile
    NoSnapshot = NoSnapshot
    Plugin = TRUE
    RefreshTasks = {"a1", "b"}
    UpdateTasks = {"a2"}
    MaxRefreshes = 1
    Activated = {"p"}
PROPERTIES GrantsAreStored
CHECK_DEADLOCK FALSE
