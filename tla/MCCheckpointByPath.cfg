SPECIFICATION FairSpec
CONSTANTS
    r1 = r1
    r2 = r2
    Ranks <- MCRanks
    Batches = 3
    MaxUpdates = 2
    SaveFreq = 1
    MaxKeep = 1
    ResumeByPath = TRUE
    MaxLives = 3
CHECK_DEADLOCK FALSE
INVARIANTS
    DiskBounded
    WeightsSurvive
PROPERTIES
    SafetyBuffer
    SavePublished
