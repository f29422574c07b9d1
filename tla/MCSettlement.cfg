SPECIFICATION FairSpec
CONSTANTS
    Alice = Alice
    Bob = Bob
    Vault = Vault
    EscrowAddress = EscrowAddress
    Nobody = Nobody
    Users <- TwoParties
    Contracts <- OneContract
    OperatorUsers <- OneContract
    MaxTokens = 1
    Prices = {1}
    FundingPeriod = 1
    MaxUint64 = 2
    MaxSales = 2
    MaxTime = 2
    MaxForced = 0
    MaxLogs = 4
PROPERTIES
    KeepsPromise
    FundedSalesResolve
