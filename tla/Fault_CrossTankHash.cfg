CONSTANTS
    Unlimited = Unlimited
    AllSources = AllSources
    NoTank = NoTank
    NoConn = NoConn
    NoClaim = NoClaim
    Tanks = {"T1", "T2"}
    Accounts = {"A1", "A2"}
    InitTanks <- HXTanks
    InitAccounts <- OneEach
    InitCore <- OneEach
    CoreAsset = CORE
    MaxTaps = 2
    MaxChain = 2
    MaxTime = 2
    MaxValue = 3
    OpenOps <- HXOpen
    FundOps <- NoOps
    QueryOps <- NoOps
SPECIFICATION Spec
INVARIANT
    HashRevealedForFlow
