SPECIFICATION Spec
CONSTANTS
    Keys = {g}
    NoKey = NoKey
    ConciseMethod = "staleness"
    ConciseFrequency = 2
    MaxBullets = 2
    ConciseAfterCuration = TRUE
    TagCorrectSamples = TRUE
    SyncFrequency = 2
    Samples = 1
    MaxId = 3
    MaxCount = 1
    MaxUpdates = 4
    MaxRestarts = 1
INVARIANTS
    TypeOK
    UseRecorded
    MaxEntries
    NoLingering
    IdsIssued
    StudentInSync
PROPERTIES
    FairEviction
    BookSpec
CHECK_DEADLOCK FALSE
