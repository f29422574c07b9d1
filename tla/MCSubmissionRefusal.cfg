SPECIFICATION Spec
CHECK_DEADLOCK FALSE
CONSTANTS
    A = A
    B = B
    Tabs = {A, B}
    Null = Null
    MaxOps = 2
    MaxChecks = 2
    MaxMishaps = 1
    OwnCandidates = TRUE
PROPERTIES RefusalFreesIntent
