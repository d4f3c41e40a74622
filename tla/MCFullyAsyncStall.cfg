\* staleness_threshold 1 and partial rollout; stops where it should not.
CONSTANTS
    Total = 4
    MaxRequired = 2
    MaxConcurrent = 1
    PendingSize = 2
    Partial = TRUE
    MaxFailures = 0
    Required = 1
    Trigger = 1
    TestFreq = 1
SPECIFICATION FairSpec
PROPERTIES
    TrainerEnds
CHECK_DEADLOCK FALSE
