SPECIFICATION PartsSpec
CONSTANTS
    NumAssets = 2
    assetUnit <- MCassetUnit
    baseCurrencyUnit = 4
    dstableUnit = 3
    NumAccounts = 2
    MaxUint = 7
    AmoMgr <- MCmgr
    AmoVaults <- MCnoVaults
    Prices = {3, 4, 7}
    Amounts = {1, 6}
    MinAmounts = {0}
    InitialCollateral <- MCcollateral
    FlashAmounts = {}
    OneHundredPercentBps = 4
    MaxFeeBps = 1
    InitialFeeBps = 1
    InitialFeeReceiver = 2
    Debt = 2
    Allowlistable <- MCallowlistable
    OnePercentBps = 1
    Tolerances = {1}
INVARIANTS TypeOKV2 DebtStaysInVault
PROPERTIES PegGuardBoundsLoss
CHECK_DEADLOCK FALSE
