CONSTANTS
    Unlimited = Unlimited
    AllSources = AllSources
    NoTank = NoTank
    NoConn = NoConn
    NoSources = NoSources
    Accounts = {"A1"}
    InitCore <- MCInitCore
    MaxTanks = 2
    MaxChain = 2
    MaxValue = 8
    TankDeposit = 1
    AttachmentDeposit = 1
    RequirementDeposit = 1
    StatefulPremium = 1
    OverrideDeposits <- MCOverrides
    CreateOps <- SSCreate
    UpdateOps <- SSUpdate
    DeleteOps <- NoOps
    ConnectOps <- NoOps
    QueryOps <- SSQuery
SPECIFICATION Spec
INVARIANT StateTypesMatch
CHECK_DEADLOCK FALSE
