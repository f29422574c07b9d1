SPECIFICATION Spec
CONSTANTS
    Alice = Alice
    Bob = Bob
    Vault = Vault
    EscrowAddress = EscrowAddress
    Nobody = Nobody
    Users <- ThreeParties
    Contracts <- OneContract
    OperatorUsers = {}
    MaxTokens = 1
    Prices = {1, 2}
    FundingPeriod = 1
    MaxUint64 = 2
    MaxSales = 2
    MaxTime = 1
    MaxForced = 1
    MaxLogs = 4
INVARIANTS
    TypeOK
    CustodyMatchesSales
    LiabilityIsOwed
    SurplusWasForced
    ClaimsFollowOutcome
    RelistedAfterRelease
