SPECIFICATION QuoteSpec
CONSTANTS
    OneHundredPercentBps = 100
    CollateralUnit = 4
    DebtUnit = 10
    LtvBps = 85
    LiquidationThresholdBps = 90
    SupplyCap = 20000
    BorrowCap = 8000
    CollateralPrices = {1, 2}
    DebtPrices = {3, 5}
    MaxUint = 2000000000
    MaxShares = 1
    NumHolders = 1
    TargetLeverageBps = 300
    MaxWithdrawalFeeBps = 10
    Amounts = {}
    LeverageBounds = {}
    Subsidies = {2}
    Deviations = {2}
    Fees = {0}
    InitialLowerBound = 200
    InitialUpperBound = 400
    MaxNet = 700
    NetFees <- MCnetFees
    MaxQuotedDebt = 8000
    QuotedCollaterals = {8000, 8001, 8002, 8003, 8004}
INVARIANTS QuotedDecreaseStopsAtTarget
