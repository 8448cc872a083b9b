SPECIFICATION MoneySpec
CONSTANTS
    NumAssets = 2
    assetUnit <- MCassetUnit
    baseCurrencyUnit = 2
    dstableUnit = 3
    NumAccounts = 3
    MaxUint = 4
    AmoMgr <- MCmgr
    AmoVaults <- MCvaults
    Prices = {3}
    Amounts = {1, 2}
    MinAmounts = {0}
    InitialCollateral <- MCcollateral
    FlashAmounts = {}
    OneHundredPercentBps = 4
    MaxFeeBps = 1
    InitialFeeBps = 1
    InitialFeeReceiver = 2
INVARIANTS TypeOK SupplyAddsUp AllocationsAddUp
PROPERTIES Backed PrincipalStaysInVault
CHECK_DEADLOCK FALSE
