SPECIFICATION AuditedSpec
CHECK_DEADLOCK FALSE
SYMMETRY Alike
CONSTANTS
    a = a
    b = b
    Branches <- TwoBranches
    MaxHeight = 2
    MaxForks = 2
    IndexingDepth = 0
    BatchSize = 2
    Lossy = TRUE
    Null = Null
INVARIANTS
    AuditTellsTruth
