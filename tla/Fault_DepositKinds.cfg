CONSTANTS
    Unlimited = Unlimited
    AllSources = AllSources
    NoTank = NoTank
    NoConn = NoConn
    NoSources = NoSources
    Accounts = {"A1"}
    InitCore <- MCInitCore
    MaxTanks = 2
    MaxChain = 2
    MaxValue = 8
    TankDeposit = 1
    AttachmentDeposit = 1
    RequirementDeposit = 1
    StatefulPremium = 1
    OverrideDeposits <- MCOverrides
    CreateOps <- DKCreate
    UpdateOps <- NoOps
    DeleteOps <- NoOps
    ConnectOps <- NoOps
    QueryOps <- NoOps
SPECIFICATION Spec
INVARIANT DepositPerAccessory
CHECK_DEADLOCK FALSE
