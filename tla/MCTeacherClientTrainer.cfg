SPECIFICATION FairSpec
CONSTANTS
    t1 = t1
    t2 = t2
    w1 = w1
    w2 = w2
    Nobody = Nobody
    Threads <- TwoThreads
    Servers <- TwoServers
    NumMicrobatches = 1
    SampleCounts = {2, 3}
    MaxRounds = 2
    MaxCrashes = 1
CHECK_DEADLOCK FALSE
INVARIANTS
    TypeOK
    NothingLost
    FeedbackOwn
PROPERTY
    RoundEnds
