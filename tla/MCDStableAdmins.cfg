SPECIFICATION AdminsSpec
CONSTANTS
    NumAssets = 2
    assetUnit <- MCassetUnit
    baseCurrencyUnit = 2
    dstableUnit = 3
    NumAccounts = 2
    MaxUint = 6
    AmoMgr <- MCmgr
    AmoVaults <- MCnoVaults
    Prices = {2, 3}
    Amounts = {2, 3}
    MinAmounts = {0, 2}
    InitialCollateral <- MCcollateralTwo
    FlashAmounts = {2}
    OneHundredPercentBps = 2
    MaxFeeBps = 1
    InitialFeeBps = 1
    InitialFeeReceiver = 1
PROPERTIES Backed RedeemerGetsHisShare
CHECK_DEADLOCK FALSE
