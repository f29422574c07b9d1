SPECIFICATION FairSpec
CONSTANTS
    Releases = {1, 2}
    MaxRows = 1
    MaxBackups = 1
    MaxOperations = 2
    MaxMishaps = 1
    Null = Null
PROPERTIES
    RefusedRestoreCanMigrate
CHECK_DEADLOCK FALSE
