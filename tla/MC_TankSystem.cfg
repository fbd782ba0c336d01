CONSTANTS
    Unlimited = Unlimited
    AllSources = AllSources
    NoTank = NoTank
    NoConn = NoConn
    NoSources = NoSources
    NoClaim = NoClaim
    Accounts = {"A1", "A2"}
    InitCore <- MCInitCore
    CoreAsset = CORE
    InitAccounts <- MCInitAccounts
    MaxTanks = 2
    TapIds = {0, 1}
    MaxTaps = 3
    MaxChain = 2
    MaxTime = 0
    MaxValue = 9
    TankDeposit = 1
    AttachmentDeposit = 1
    RequirementDeposit = 1
    StatefulPremium = 1
    OverrideDeposits <- MCOverrides
    CreateOps <- MCCreateOps
    UpdateOps <- MCUpdateOps
    DeleteOps <- MCDeleteOps
    ConnectOps <- MCConnectOps
    OpenOps <- MCOpenOps
    FundOps <- MCFundOps
    QueryOps <- MCQueryOps
SPECIFICATION FairSpec
INVARIANTS ApprovalsByCurrentReviewer
PROPERTIES LedgerRefinement OperationCompletes
