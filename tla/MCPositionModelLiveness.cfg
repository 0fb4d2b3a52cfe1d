SPECIFICATION FairPositionSpec
CONSTANTS
    Accounts = {a1}
    Prices = {19, 21, 38}
    StartPrice = 38
    MaxBalance = 2
    Ray = 8
    Dust = 21
    HardCap = 1
    Inactive = 1
    MaxBlock = 2
    MaxEvents = 2
    Tasks = {t1, t2}
    Retries = 2
    Refreshed = {}
    MayFail = FALSE
CHECK_DEADLOCK FALSE
PROPERTY BelowOneIsConfirmed
