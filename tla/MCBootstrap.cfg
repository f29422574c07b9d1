SPECIFICATION Spec
CONSTANTS
    one = one
    two = two
    node = node
    spare = spare
    old = old
    new = new
    Environments = {one, two}
    Nodes = {node, spare}
    Builds = {old}
    StepCount = 2
    MaxTxs = 7
    MaxMishaps = 1
    MaxResets = 1
    Torn = Torn
    Null = Null
SYMMETRY Alike
INVARIANTS
    SentOnce
    TransactionsOnRecord
    LocalStateIsOneDeployment
PROPERTIES
    ResetSparesOthers
