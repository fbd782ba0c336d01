CONSTANTS
    Unlimited = Unlimited
    AllSources = AllSources
    NoTank = NoTank
    NoConn = NoConn
    NoClaim = NoClaim
    Tanks = {"T1", "T2"}
    Accounts = {"A1", "A2"}
    InitTanks <- MCInitTanks
    InitAccounts <- MCInitAccounts
    InitCore <- MCInitCore
    CoreAsset = CORE
    MaxTaps = 3
    MaxChain = 2
    MaxTime = 2
    MaxValue = 3
    OpenOps <- MCOpenOps
    FundOps <- MCFundOps
    QueryOps <- MCQueryOps
SPECIFICATION Spec
INVARIANTS
    TypeOK
    TapLimitsRespected
PROPERTIES
    LedgerRefinement
