SPECIFICATION Spec
CONSTANTS
    Releases = {1, 2}
    MaxRows = 1
    MaxBackups = 1
    MaxOperations = 2
    MaxMishaps = 1
    Null = Null
INVARIANTS
    ResetRecoveredUnderOwnership
CHECK_DEADLOCK FALSE
