SPECIFICATION FairSpec
CONSTANTS
    Execs = {e1, e2}
    Gens = {g1, g2, g3}
    NoGen = NoGen
    NoNonce = NoNonce
    Checks <- AllChecks
    MaxPending <- MCMaxPending
    PendingNonces <- MCPendingNonces
CHECK_DEADLOCK FALSE
PROPERTIES ReservationsSettle ExecutionsEnd
