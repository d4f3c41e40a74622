SPECIFICATION RowsSpec
CONSTANTS
    Keys = {k1, k2}
    Examples = {k1, k2}
    KeyOf <- OwnKey
    NoKey = NoKey
    DeduplicateRollouts = TRUE
    NumWorkers = 2
    MaxTagged = 1
    ConciseMethod = "prioritized"
    ConciseFrequency = 2
    MaxBullets = 1
    ConciseAfterCuration = FALSE
    TagCorrectSamples = TRUE
    SyncFrequency = 2
    Samples = 3
    MaxId = 2
    MaxCount = 1
    MaxUpdates = 2
    MaxRestarts = 0
SYMMETRY KeySymmetry
INVARIANTS
    PromptBounded
    LessonsOwn
CHECK_DEADLOCK FALSE
