SPECIFICATION DebtSpec
CONSTANTS
    NumAssets = 2
    assetUnit <- MCassetUnit
    baseCurrencyUnit = 2
    dstableUnit = 3
    NumAccounts = 2
    MaxUint = 3
    AmoMgr <- MCmgr
    AmoVaults <- MCnoVaults
    Prices = {2, 3}
    Amounts = {1, 2}
    MinAmounts = {0, 1}
    InitialCollateral <- MCcollateral
    FlashAmounts = {}
    OneHundredPercentBps = 4
    MaxFeeBps = 1
    InitialFeeBps = 1
    InitialFeeReceiver = 2
    Debt = 2
    Allowlistable <- MCallowlistable
    OnePercentBps = 2
    Tolerances = {0, 1}
INVARIANTS PermitRepays
CHECK_DEADLOCK FALSE
