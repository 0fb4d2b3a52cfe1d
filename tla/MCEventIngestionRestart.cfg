SPECIFICATION Spec
CONSTANTS
    BlockOf <- MCBlockOf
    Numbered <- MCNumbered
    MaxBlock = 2
    Fills = {f1, f2}
    StartupFill = f1
    Chunk = 2
    DedupCap = 3
    Lookback = 1
    RoleSets <- MCRoleSets
    MaxDrops = 0
    MaxCrashes = 1
CHECK_DEADLOCK FALSE
INVARIANTS RestartLosesNothing
