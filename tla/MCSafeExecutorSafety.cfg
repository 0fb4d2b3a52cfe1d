SPECIFICATION Spec
CONSTANTS
    Execs = {e1, e2, e3}
    Gens = {g1, g2, g3, g4}
    NoGen = NoGen
    NoNonce = NoNonce
    Checks <- FewChecks
    MaxPending <- MCMaxPending
    PendingNonces <- MCPendingNonces
SYMMETRY Symmetry
CHECK_DEADLOCK FALSE
INVARIANTS
    TypeOK
    UniqueUnlessOverlap
    ReusableNonceNotBroadcast
    OneBroadcastPerNonce
    GapsAreRecoverable
    AtRestOnlyBroadcastReserved
PROPERTY NonceSpec
