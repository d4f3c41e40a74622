\* staleness_threshold 1, partial rollout, one failure.
\* The system may stop: see the run of MCFullyAsyncStall.cfg.
CONSTANTS
    Total = 6
    MaxRequired = 2
    MaxConcurrent = 1
    PendingSize = 2
    Partial = TRUE
    MaxFailures = 1
    Required = 1
    Trigger = 1
    TestFreq = 4
SPECIFICATION FairSpec
INVARIANTS
    TypeOK
    Exclusive
    Fresh
PROPERTIES
    FlowSpec
    QuietEnds
CHECK_DEADLOCK FALSE
