SPECIFICATION ProfitSpec
CONSTANTS
    Executions = {"x1", "x2"}
    Liquidations <- MCLargeOffers
    ArbOffers <- MCArbOffers
    LenderLists <- MCLenderLists
    FeeOf <- MCFeeOf
    Bps = 100
    MarginBps = 1
    SlipBps = 5
    PremiumBps = 1
    MinProfit = 0
    DebtFloor = 5
    ConfigGas = 0
    GasUnits = 1
    UsdPrices = {0, 2}
    HasReceiver = TRUE
    RouteTtl = 1
    RouteTicks = 1
INVARIANT ProfitableIsSelected
