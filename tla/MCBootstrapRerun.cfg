SPECIFICATION FairSpec
CONSTANTS
    one = one
    two = two
    node = node
    spare = spare
    old = old
    new = new
    Environments = {one, two}
    Nodes = {node}
    Builds = {old, new}
    StepCount = 2
    MaxTxs = 5
    MaxMishaps = 1
    MaxResets = 1
    Torn = Torn
    Null = Null
INVARIANTS
    OneBuild
PROPERTIES
    InterruptedBootstrapCompletes
    ResetFinishes
