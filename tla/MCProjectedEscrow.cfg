SPECIFICATION ProjectedSpec
CONSTANTS
    Alice = Alice
    Bob = Bob
    Vault = Vault
    EscrowAddress = EscrowAddress
    Nobody = Nobody
    NoRow = NoRow
    Users <- ThreeParties
    Contracts <- OneContract
    OperatorUsers = {}
    MaxTokens = 1
    Prices = {1}
    FundingPeriod = 1
    MaxUint64 = 3
    MaxSales = 2
    MaxTime = 1
    MaxForced = 0
    MaxLogs = 5
INVARIANTS
    ProjectorsAcceptReceipts
    ReconciliationMatches
    FundingStaysConsistent
