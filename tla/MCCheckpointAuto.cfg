SPECIFICATION Spec
CONSTANTS
    r1 = r1
    r2 = r2
    Ranks <- MCRanks
    Batches = 4
    MaxUpdates = 2
    SaveFreq = 1
    MaxKeep = 2
    ResumeByPath = FALSE
    MaxLives = 3
CHECK_DEADLOCK FALSE
SYMMETRY Symmetry
INVARIANTS
    TypeOK
    TrackedComplete
    OneOrigin
