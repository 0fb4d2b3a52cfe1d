SPECIFICATION Spec
CONSTANTS
    Cycles = {c1, c2}
    Borrowers = {b1}
    Arbitrages = {}
    Wallet = Wallet
    RequestAccount <- WalletRequests
    NoOpportunity = NoOpportunity
    Threshold = 2
    OpenTicks = 2
    CooldownTicks = 1
    StreakCap <- MCStreakCap
INVARIANT FailureCoolsBorrower
