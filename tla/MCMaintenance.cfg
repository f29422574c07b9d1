SPECIFICATION FairMaintenanceSpec
CHECK_DEADLOCK FALSE
CONSTANTS
    a = a
    b = b
    Branches = {a, b}
    MaxHeight = 2
    MaxForks = 1
    IndexingDepth = 0
    BatchSize = 1
    Lossy = TRUE
    Damages = {"short", "corrupt"}
    Null = Null
INVARIANTS
    MaintenanceTypeOK
    UnmarkedIsOneBranch
PROPERTIES
    KeepsReadModel
    BarrierLiftedByRepair
    ReindexFinishes
