CONSTANTS
    Unlimited = Unlimited
    AllSources = AllSources
    NoTank = NoTank
    NoConn = NoConn
    NoClaim = NoClaim
    Tanks = {"T1"}
    Accounts = {"A1", "A2"}
    InitTanks <- CPTanks
    InitAccounts <- OneEach
    InitCore <- OneEach
    CoreAsset = CORE
    MaxTaps = 1
    MaxChain = 2
    MaxTime = 2
    MaxValue = 3
    OpenOps <- CPOpen
    FundOps <- NoOps
    QueryOps <- NoOps
SPECIFICATION Spec
INVARIANT
    AssetsConserved
