SPECIFICATION FairSpec
CONSTANTS
    Cycles = {c1, c2}
    Borrowers = {b1, Wallet}
    Arbitrages = {a1}
    Wallet = Wallet
    RequestAccount <- WalletRequests
    NoOpportunity = NoOpportunity
    Threshold = 2
    OpenTicks = 1
    CooldownTicks = 2
    StreakCap <- MCStreakCap
INVARIANTS
    PipelineTypeOK
    OvershootBounded
    RetriesBounded
PROPERTIES
    OpenLongEnough
    BreakerSpec
    BreakerCloses
    CyclesEnd
