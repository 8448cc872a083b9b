------------------------------ MODULE IssuerV2 ------------------------------
(***************************************************************************)
(* contracts/dstable/IssuerV2.sol: dStable minted for collateral, against  *)
(* excess collateral, and to the AMO manager. The migrations setAmoManager *)
(* and setCollateralVault, which replace a contract, are left out.         *)
(***************************************************************************)
EXTENDS AmoManager

VARIABLES
    mintingPaused,        \* Pausable
    assetMintingPaused

issuerVars == <<mintingPaused, assetMintingPaused>>

isAssetMintingEnabled(a) == a \in supported /\ ~ assetMintingPaused[a]

\* Negative where the contract's subtraction reverts: users guard it.
circulatingDstable == totalSupply - totalAmoSupply

CirculatingDefined == circulatingDstable >= 0

collateralInDstable == baseValueToDstableAmount(totalValue)

-----------------------------------------------------------------------------
IssuerInit ==
    /\ mintingPaused = FALSE
    /\ assetMintingPaused = [a \in Assets |-> FALSE]

issue(acct, collateralAmount, a, minDStable) ==
    /\ ~ mintingPaused
    /\ isAssetMintingEnabled(a)
    /\ LET dstableAmount == baseValueToDstableAmount(assetValueFromAmount(a, collateralAmount))
       IN  /\ dstableAmount >= minDStable
           /\ VaultReceives(acct, a, collateralAmount)
           /\ Mint(acct, dstableAmount)
    /\ UNCHANGED <<price, supported, tokenPaused, flash, amoVars, issuerVars>>

\* The test of the backing, on the state after the mint.
BackedBeforeMint == CirculatingDefined /\ collateralInDstable >= circulatingDstable
BackedAfterMint == CirculatingDefined' /\ collateralInDstable' >= circulatingDstable'

issueUsingExcessCollateral(receiver, dstableAmount) ==
    /\ ~ mintingPaused
    /\ Mint(receiver, dstableAmount)
    /\ UNCHANGED <<tokenPaused, flash, vaultVars, amoVars, issuerVars>>
    /\ BackedAfterMint

increaseAmoSupply(dstableAmount) ==
    /\ ~ mintingPaused
    /\ CirculatingDefined
    /\ Mint(AmoMgr, dstableAmount)
    /\ UNCHANGED <<tokenPaused, flash, vaultVars, amoVars, issuerVars>>
    /\ circulatingDstable' = circulatingDstable

\* An override survives the delisting of its asset and cannot be lifted then.
setAssetMintingPause(a, paused) ==
    /\ a \in supported
    /\ assetMintingPaused' = [assetMintingPaused EXCEPT ![a] = paused]
    /\ UNCHANGED <<mintingPaused, vaultVars, tokenVars, amoVars>>

\* pauseMinting and unpauseMinting
setMintingPaused(paused) ==
    /\ mintingPaused # paused
    /\ mintingPaused' = paused
    /\ UNCHANGED <<assetMintingPaused, vaultVars, tokenVars, amoVars>>

IssuerTypeOK ==
    /\ mintingPaused \in BOOLEAN
    /\ assetMintingPaused \in [Assets -> BOOLEAN]
=============================================================================
