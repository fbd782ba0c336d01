CONSTANTS
    Unlimited = Unlimited
    AllSources = AllSources
    NoTank = NoTank
    NoConn = NoConn
    NoClaim = NoClaim
    Tanks = {"T1"}
    Accounts = {"A1", "A2"}
    InitTanks <- RLTanks
    InitAccounts <- OneEach
    InitCore <- OneEach
    CoreAsset = CORE
    MaxTaps = 2
    MaxChain = 2
    MaxTime = 2
    MaxValue = 3
    OpenOps <- NoOps
    FundOps <- NoOps
    QueryOps <- RLQuery
SPECIFICATION Spec
INVARIANT
    RequestLimitRespected
