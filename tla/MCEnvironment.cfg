SPECIFICATION FairSpec
CONSTANTS
    Releases = {1, 2}
    MaxRows = 2
    MaxBackups = 1
    MaxOperations = 3
    MaxMishaps = 3
    Null = Null
INVARIANTS
    TypeOK
    MatchedGeneration
    NothingLost
    UnmarkedIsWhole
PROPERTIES
    SafetyCopy
    MovedComesBack
