SPECIFICATION Spec
CONSTANTS
    BlockOf <- MCBlockOf
    Numbered <- MCNumbered
    MaxBlock = 2
    Fills = {f1, f2}
    StartupFill = f1
    Chunk = 2
    DedupCap = 2
    Lookback = 1
    RoleSets <- MCRoleSets
    MaxDrops = 1
    MaxCrashes = 1
CHECK_DEADLOCK FALSE
INVARIANTS IngestionTypeOK FillCovers
PROPERTIES DedupWindow CheckpointNotAhead
