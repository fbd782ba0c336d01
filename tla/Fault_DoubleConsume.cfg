CONSTANTS
    Unlimited = Unlimited
    AllSources = AllSources
    NoTank = NoTank
    NoConn = NoConn
    NoClaim = NoClaim
    Tanks = {"T1"}
    Accounts = {"A1", "A2"}
    InitTanks <- DCTanks
    InitAccounts <- OneEach
    InitCore <- OneEach
    CoreAsset = CORE
    MaxTaps = 2
    MaxChain = 2
    MaxTime = 2
    MaxValue = 3
    OpenOps <- DCOpen
    FundOps <- NoOps
    QueryOps <- DCQuery
SPECIFICATION Spec
INVARIANT
    ConsumedRequestsBoundRelease
