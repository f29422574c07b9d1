SPECIFICATION Spec
CHECK_DEADLOCK FALSE
CONSTANTS
    Branches = {"a", "b"}
    MaxHeight = 2
    MaxForks = 1
    IndexingDepth = 1
    BatchSize = 2
    Lossy = FALSE
    Null = Null
PROPERTIES
    CurrentIsVerified
