----------------------------- MODULE RedeemerV2 -----------------------------
(***************************************************************************)
(* contracts/dstable/RedeemerV2.sol: dStable burnt for collateral of the   *)
(* same value, less a fee in collateral. setCollateralVault, a migration,  *)
(* is left out.                                                            *)
(***************************************************************************)
EXTENDS IssuerV2

CONSTANTS
    OneHundredPercentBps,  \* BasisPointConstants.ONE_HUNDRED_PERCENT_BPS
    MaxFeeBps,             \* MAX_FEE_BPS
    InitialFeeReceiver,    \* arguments of the constructor
    InitialFeeBps

ASSUME RedeemerAssumption ==
    /\ OneHundredPercentBps \in Nat \ {0}
    /\ MaxFeeBps \in 0..OneHundredPercentBps
    /\ InitialFeeBps \in 0..MaxFeeBps
    /\ InitialFeeReceiver \in Accounts

VARIABLES
    redemptionPaused,     \* Pausable
    assetRedemptionPaused,
    feeReceiver,
    defaultRedemptionFeeBps,
    collateralRedemptionFeeBps,
    isCollateralFeeOverridden

pauseVars == <<redemptionPaused, assetRedemptionPaused>>
feeVars == <<feeReceiver, defaultRedemptionFeeBps,
             collateralRedemptionFeeBps, isCollateralFeeOverridden>>
redeemerVars == <<pauseVars, feeVars>>

isAssetRedemptionEnabled(a) == a \in supported /\ ~ assetRedemptionPaused[a]

\* A mutant: an override of 0 is taken for none.
ZeroIsNoOverride(a) ==
    IF collateralRedemptionFeeBps[a] > 0 THEN collateralRedemptionFeeBps[a]
                                         ELSE defaultRedemptionFeeBps
currentFeeBps(a) ==
    IF isCollateralFeeOverridden[a] THEN collateralRedemptionFeeBps[a]
                                    ELSE defaultRedemptionFeeBps

feeCollateral(a, totalCollateral) ==
    mulDiv(totalCollateral, currentFeeBps(a), OneHundredPercentBps)

\* Collateral for an amount of dStable, before the fee.
totalCollateralFor(a, dstableAmount) ==
    assetAmountFromValue(a, dstableAmountToBaseValue(dstableAmount))

WithinMaxFee(bps) == bps <= MaxFeeBps

-----------------------------------------------------------------------------
RedeemerInit ==
    /\ redemptionPaused = FALSE
    /\ assetRedemptionPaused = [a \in Assets |-> FALSE]
    /\ feeReceiver = InitialFeeReceiver
    /\ defaultRedemptionFeeBps = InitialFeeBps
    /\ collateralRedemptionFeeBps = [a \in Assets |-> 0]
    /\ isCollateralFeeOverridden = [a \in Assets |-> FALSE]

redeem(acct, dstableAmount, a, minNetCollateral) ==
    /\ ~ redemptionPaused
    /\ isAssetRedemptionEnabled(a)
    /\ HasPrice(a)
    /\ LET total == totalCollateralFor(a, dstableAmount)
           fee   == feeCollateral(a, total)
       IN  /\ total - fee >= minNetCollateral
           /\ Burn(acct, dstableAmount)
           /\ VaultPaysTwo(acct, total - fee, feeReceiver, fee, a)
    /\ UNCHANGED <<price, supported, tokenPaused, flash, amoVars, issuerVars, redeemerVars>>

\* The redemption manager pays no fee.
redeemAsProtocol(acct, dstableAmount, a, minCollateral) ==
    /\ ~ redemptionPaused
    /\ isAssetRedemptionEnabled(a)
    /\ HasPrice(a)
    /\ totalCollateralFor(a, dstableAmount) >= minCollateral
    /\ Burn(acct, dstableAmount)
    /\ VaultPays(acct, totalCollateralFor(a, dstableAmount), a)
    /\ UNCHANGED <<price, supported, tokenPaused, flash, amoVars, issuerVars, redeemerVars>>

setAssetRedemptionPause(a, paused) ==
    /\ a \in supported
    /\ assetRedemptionPaused' = [assetRedemptionPaused EXCEPT ![a] = paused]
    /\ UNCHANGED <<redemptionPaused, feeVars, vaultVars, tokenVars, amoVars, issuerVars>>

\* pauseRedemption and unpauseRedemption
setRedemptionPaused(paused) ==
    /\ redemptionPaused # paused
    /\ redemptionPaused' = paused
    /\ UNCHANGED <<assetRedemptionPaused, feeVars, vaultVars, tokenVars, amoVars, issuerVars>>

setFeeReceiver(acct) ==
    /\ feeReceiver' = acct
    /\ UNCHANGED <<defaultRedemptionFeeBps, collateralRedemptionFeeBps,
                   isCollateralFeeOverridden, pauseVars>>
    /\ UNCHANGED <<vaultVars, tokenVars, amoVars, issuerVars>>

setDefaultRedemptionFee(bps) ==
    /\ WithinMaxFee(bps)
    /\ defaultRedemptionFeeBps' = bps
    /\ UNCHANGED <<feeReceiver, collateralRedemptionFeeBps,
                   isCollateralFeeOverridden, pauseVars>>
    /\ UNCHANGED <<vaultVars, tokenVars, amoVars, issuerVars>>

\* An override of 0 is an override.
setCollateralRedemptionFee(a, bps) ==
    /\ WithinMaxFee(bps)
    /\ collateralRedemptionFeeBps' = [collateralRedemptionFeeBps EXCEPT ![a] = bps]
    /\ isCollateralFeeOverridden' = [isCollateralFeeOverridden EXCEPT ![a] = TRUE]
    /\ UNCHANGED <<feeReceiver, defaultRedemptionFeeBps, pauseVars>>
    /\ UNCHANGED <<vaultVars, tokenVars, amoVars, issuerVars>>

\* A mutant: the rate is cleared, and the override stays.
ClearsRateOnly(a) ==
    /\ collateralRedemptionFeeBps' = [collateralRedemptionFeeBps EXCEPT ![a] = 0]
    /\ UNCHANGED <<isCollateralFeeOverridden, feeReceiver, defaultRedemptionFeeBps, pauseVars>>
    /\ UNCHANGED <<vaultVars, tokenVars, amoVars, issuerVars>>
clearCollateralRedemptionFee(a) ==
    /\ collateralRedemptionFeeBps' = [collateralRedemptionFeeBps EXCEPT ![a] = 0]
    /\ isCollateralFeeOverridden' = [isCollateralFeeOverridden EXCEPT ![a] = FALSE]
    /\ UNCHANGED <<feeReceiver, defaultRedemptionFeeBps, pauseVars>>
    /\ UNCHANGED <<vaultVars, tokenVars, amoVars, issuerVars>>

RedeemerTypeOK ==
    /\ redemptionPaused \in BOOLEAN
    /\ assetRedemptionPaused \in [Assets -> BOOLEAN]
    /\ feeReceiver \in Accounts
    /\ defaultRedemptionFeeBps \in 0..MaxFeeBps
    /\ collateralRedemptionFeeBps \in [Assets -> 0..MaxFeeBps]
    /\ isCollateralFeeOverridden \in [Assets -> BOOLEAN]
=============================================================================
