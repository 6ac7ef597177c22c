SPECIFICATION FairSpec
CONSTANTS
    m1 = m1
    m2 = m2
    m3 = m3
    Messages <- MCMessages
    TargetOf <- KeyedAndUnkeyed
    Cases <- MCCases
    MaxQueues = 2
    MaxDeliveries = 1
    MaxFailures = 1
    EnqueueInGap = FALSE
  
PROPERTIES  EveryFollowupEnds
CHECK_DEADLOCK FALSE
