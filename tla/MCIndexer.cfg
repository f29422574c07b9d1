SPECIFICATION FairSpec
CHECK_DEADLOCK FALSE
CONSTANTS
    Branches = {"a", "b"}
    MaxHeight = 3
    MaxForks = 2
    IndexingDepth = 1
    BatchSize = 2
    Lossy = TRUE
    Null = Null
INVARIANTS
    TypeOK
    OneBranch
    NoFalseAlarm
PROPERTIES
    BarrierHolds
    CatchesUp
