CONSTANTS
    Unlimited = Unlimited
    AllSources = AllSources
    NoTank = NoTank
    NoConn = NoConn
    NoSources = NoSources
    Accounts = {"A1"}
    InitCore <- MCInitCore
    MaxTanks = 2
    MaxChain = 2
    MaxValue = 8
    TankDeposit = 1
    AttachmentDeposit = 1
    RequirementDeposit = 1
    StatefulPremium = 1
    OverrideDeposits <- MCOverrides
    CreateOps <- MCCreateOps
    UpdateOps <- MCUpdateOps
    DeleteOps <- MCDeleteOps
    ConnectOps <- MCConnectOps
    QueryOps <- MCQueryOps
SPECIFICATION Spec
INVARIANTS TypeOK LocalSchematicRules
CHECK_DEADLOCK FALSE
