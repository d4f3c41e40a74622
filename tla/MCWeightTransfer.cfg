SPECIFICATION FairSpec
CONSTANTS
    Workers = 3
    Sizes <- MCSizes
    BucketSize = 2
    Leader <- MCLeader
    MaxUpdates = 2
INVARIANTS
    TypeOK
    Intact
PROPERTIES
    Untouched
    UpdateSpec
    UpdatesEnd
