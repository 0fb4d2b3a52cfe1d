SPECIFICATION MonitorsSpec
CONSTANTS
    Borrowers = {"b1", "b2"}
    Allowlisted = {"b1"}
    MaxListed = 1
    StaleBlocks = 1
    ReorgDepth = 1
    LowTierEvery = 2
    KeepAtLeast = 2
    HasWss = FALSE
    Sweepers = {s1}
    PoolLog <- MCPoolLog
    Moves = 1
    Endpoints <- MCEndpoints
    DedupeCapacity = 1
    PoolLogs = {1, 2}
    MaxTimers = 1
    Batches <- MCBatches
    Accounts = {"a1", "a2"}
    ReservePairs <- MCReservePairs
    PageSize = 1
    MaxEntries = 1
    Threshold = 1
    Tasks = {1}
    Shifts = 1
    Tokens = {"t1", "t2"}
    WithFeed = {"t1"}
    Readers = {"r1", "r2"}
    Requests <- MCRequests
    CacheTtl = 1
    MaxStale = 0
    Rounds = 1
    Debtors = {"d1", "d2"}
    Holders = {"d1"}
    HasAllowlist = FALSE
    EventNames <- MCEventNames
    History <- MCHistory
    MaxBlock = 3
    LookbackBlocks = 2
    ChunkBlocks = 2
    LogClients = 2
    RpcAttempts = 2
    HasSubgraph = TRUE
    BatchSize = 1
    CacheEnabled = TRUE
    ForceRefresh = FALSE
    FileTtl = 1
    Processes = {"p1", "p2", "p3"}
    Script = "stop"
    PidOf <- MCPidOf
    Hooks = 1
    Routes <- MCRoutes
    RouterOf <- MCRouterOf
    MirrorPools = {"poolx"}
    UseMirror = TRUE
    Probes = 2
    QuoteWorkers = {"w1", "w2"}
    QuoteWindow = 1
    QueueLimit = 1
    Times = 2
    Watched <- MCWatched
    DustHotpath = "n2"
    One = 1
    NearHf = 2
    TopHf = 2
    Moving = {"n1"}
    MaxSamples = 2
    Ahead = 2
    NearPolls = {"q1", "q2"}
    NearTicks = 1
    SampleRate = 2
    RampRate = 2
    MaxConcurrency = 2
    MaxPerDay = 2
    Days = 2
    MaxCounted = 2
    Executions = {"x1", "x2"}
    Liquidations <- MCSmallOffers
    ArbOffers <- MCArbOffers
    LenderLists <- MCLenderLists
    FeeOf <- MCFeeOf
    Bps = 100
    MarginBps = 1
    SlipBps = 5
    PremiumBps = 1
    MinProfit = 0
    DebtFloor = 5
    ConfigGas = 0
    GasUnits = 1
    UsdPrices = {0, 2}
    HasReceiver = TRUE
    RouteTtl = 1
    RouteTicks = 1
    AavePriced = {"gho"}
    Worths = {1, 2}
    StaleAfter = 0
    PegFreshFor = 1
    Hours = 2
    Refreshes = {"g1", "g2"}
CHECK_DEADLOCK FALSE
INVARIANTS
    MonitorsTypeOK
    ReplayCovers
    OraclePromise
    SweepMissesNone
    SoleUnlessContended
    ApprovedIsAccounted
    KeptPaysOff
    AnswerIsBest
    JudgedAtPeg
PROPERTIES
    NewEntriesUnread
    OverfullIsRecent
    SourceSpec
    FailsOver
    RecoveredIsDropped
    UrgentHasFallen
