SPECIFICATION Spec
CONSTANTS
    d1 = d1
    d2 = d2
    Deliveries <- MCDeliveries
    BestEffort <- First
    ReportsErrors <- First
    Payloads = 2
    MaxRetries = 2
    MaxCrashes = 2
    RecoveryOverlaps = FALSE
INVARIANTS  PartialFailureKept
PROPERTIES PromiseKept
CHECK_DEADLOCK FALSE
