SPECIFICATION WakeFairSpec
CONSTANTS
    t1 = t1
    t2 = t2
    Targets <- MCTargets
    Priorities <- MCPriorities
    CoalesceTicks = 1
    RetryTicks = 3
    MaxHandlers = 2
    MaxRefusals = 1
    SwapDuringBatch = FALSE
    RequestsDuringBatch = TRUE
INVARIANTS WakeHasTimer OneBatchPerHandler
PROPERTIES CooldownKept 
CHECK_DEADLOCK FALSE
