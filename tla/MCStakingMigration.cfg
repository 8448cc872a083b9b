SPECIFICATION MigrationSpec
CONSTANTS
    alice = alice
    bob = bob
    Users <- MCUsers
    NoOwner = NoOwner
    vestingPeriod = 1
    MaxTokenId = 2
    MaxTime = 2
    Amounts = {0, 1, 2}
    Limits = {0, 1, 3}
    InitialDStake = 2
    NumStakers = 2
    NumVaultAssets = 2
    Routers = {1, 2}
    NoRouter = 0
    Adapters = {1, 2}
    NoAdapter = 0
    adapterAsset <- MCadapterAsset
    RateUnit = 2
    Rates = {2, 3}
    OneHundredPercentBps = 3
    MAX_WITHDRAWAL_FEE_BPS = 1
    dStakeRouter = 1
    StakeAmounts = {1, 3}
    MinAmounts = {0, 2}
    FeeChoices = {0, 1, 2}
    Tolerances = {2}
    Thresholds = {1, 2}
    MaxShares = 4
    MaxHeld = 3
    MaxEarned = 1
    MaxSurplus = 2
PROPERTIES ExchangesKeepValue
CHECK_DEADLOCK FALSE
