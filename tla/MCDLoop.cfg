SPECIFICATION DLoopSpec
CONSTANTS
    OneHundredPercentBps = 100
    CollateralUnit = 1
    DebtUnit = 2
    LtvBps = 85
    LiquidationThresholdBps = 90
    SupplyCap = 10
    BorrowCap = 20
    CollateralPrices = {2, 4}
    DebtPrices = {3}
    MaxUint = 1000000
    MaxShares = 10
    NumHolders = 2
    TargetLeverageBps = 300
    MaxWithdrawalFeeBps = 30
    Amounts = {2, 3, 7}
    LeverageBounds = {150, 450}
    Subsidies = {0, 10}
    Deviations = {10}
    Fees = {0, 30}
    InitialLowerBound = 150
    InitialUpperBound = 450
    MaxNet = 700
    NetFees <- MCnetFees
    QuotedCollaterals = {8000, 8001, 8002, 8003, 8004}
    MaxQuotedDebt = 8000
INVARIANTS TypeOK GrossPaysNet GrossIsTight QuotedIncreaseStopsAtTarget
PROPERTIES CallerEarnsAtMostSubsidy HoldersKeepTheirShare DebtFollowsCollateral
CHECK_DEADLOCK FALSE
