----------------------------- MODULE AmoManager -----------------------------
(***************************************************************************)
(* contracts/dstable/AmoManager.sol: dStable lent, unbacked, to AMO vaults *)
(* and collateral moved between them and the holding vault. Allocations    *)
(* are what circulatingDstable leaves out, so their accounting is part of  *)
(* what backs the token.                                                   *)
(*                                                                         *)
(* An AMO vault is an account. Its contract is abstract here (AmoVault is  *)
(* a base class, the venues are elsewhere): it may trade what it holds,    *)
(* and it values its holdings as MockAmoVault does, dStable at peg.        *)
(***************************************************************************)
EXTENDS CollateralVault, DStableToken

CONSTANTS
    AmoMgr,      \* the account of this contract
    AmoVaults    \* accounts that may be enabled as AMO vaults

ASSUME AmoAssumption ==
    /\ AmoMgr \in Accounts
    /\ AmoVaults \subseteq Accounts \ {AmoMgr}

VARIABLES
    allocation,       \* _amoVaults: dStable allocated to each vault
    isAmoActive,      \* _isAmoActive
    totalAllocated

amoVars == <<allocation, isAmoActive, totalAllocated>>

-----------------------------------------------------------------------------
baseValueToDstableAmount(value) == mulDiv(value, dstableUnit, baseCurrencyUnit)
dstableAmountToBaseValue(amount) == mulDiv(amount, baseCurrencyUnit, dstableUnit)

totalAmoSupply == dstableOf[AmoMgr] + totalAllocated

\* The value an AMO vault reports of itself.
amoVaultTotalValue(v) ==
    SumTo([a \in Assets |-> assetValueFromAmount(a, collateralOf[v][a])], NumAssets)
        + dstableAmountToBaseValue(dstableOf[v])

availableVaultProfitsInBase(v) ==
    amoVaultTotalValue(v) - dstableAmountToBaseValue(allocation[v])

AnyProfitCovers(v, value) == availableVaultProfitsInBase(v) > 0
ProfitCovers(v, value) ==
    /\ availableVaultProfitsInBase(v) > 0
    /\ value <= availableVaultProfitsInBase(v)

\* What collateral that comes back frees of the vault's allocation.
AllocationAdjustment(v, a, amount) ==
    LET collateralInDstable == baseValueToDstableAmount(assetValueFromAmount(a, amount))
    IN  IF collateralInDstable > allocation[v] THEN allocation[v] ELSE collateralInDstable

\* _amoVaults.set and totalAllocated, always together.
AllocateTotalOnly(v, amount) ==
    /\ totalAllocated + amount <= MaxUint
    /\ totalAllocated' = totalAllocated + amount
    /\ UNCHANGED allocation
Allocate(v, amount) ==
    /\ totalAllocated + amount <= MaxUint
    /\ totalAllocated' = totalAllocated + amount
    /\ allocation' = Credit(allocation, v, amount)

Deallocate(v, amount) ==
    /\ totalAllocated >= amount
    /\ totalAllocated' = totalAllocated - amount
    /\ allocation' = Debit(allocation, v, amount)

-----------------------------------------------------------------------------
AmoInit ==
    /\ allocation = [v \in Accounts |-> 0]
    /\ isAmoActive = [v \in Accounts |-> FALSE]
    /\ totalAllocated = 0

allocateAmo(v, amount) ==
    /\ isAmoActive[v]
    /\ Allocate(v, amount)
    /\ Move(AmoMgr, v, amount)
    /\ totalAmoSupply' = totalAmoSupply
    /\ UNCHANGED <<isAmoActive, tokenPaused, flash>>
    /\ UNCHANGED vaultVars

\* Open to inactive vaults. The vault approved this contract when it was built.
deallocateAmo(v, amount) ==
    /\ amount <= allocation[v]
    /\ Deallocate(v, amount)
    /\ Move(v, AmoMgr, amount)
    /\ totalAmoSupply' = totalAmoSupply
    /\ UNCHANGED <<isAmoActive, tokenPaused, flash>>
    /\ UNCHANGED vaultVars

decreaseAmoSupply(amount) ==
    /\ tokenBurn(AmoMgr, amount)
    /\ UNCHANGED <<amoVars, vaultVars>>

enableAmoVault(v) ==
    /\ ~ isAmoActive[v]
    /\ isAmoActive' = [isAmoActive EXCEPT ![v] = TRUE]
    /\ UNCHANGED <<allocation, totalAllocated, vaultVars, tokenVars>>

\* The allocation stays.
disableAmoVault(v) ==
    /\ isAmoActive[v]
    /\ isAmoActive' = [isAmoActive EXCEPT ![v] = FALSE]
    /\ UNCHANGED <<allocation, totalAllocated, vaultVars, tokenVars>>

\* Asks neither that the vault is active nor that the holding vault supports
\* the collateral.
transferFromAmoVaultToHoldingVault(v, a, amount) ==
    /\ Deallocate(v, AllocationAdjustment(v, a, amount))
    /\ VaultReceives(v, a, amount)
    /\ UNCHANGED <<isAmoActive, price, supported, tokenVars>>

transferFromHoldingVaultToAmoVault(v, a, amount) ==
    /\ isAmoActive[v]
    /\ Allocate(v, baseValueToDstableAmount(assetValueFromAmount(a, amount)))
    /\ VaultPays(v, amount, a)
    /\ UNCHANGED <<isAmoActive, price, supported, tokenVars>>

\* The fee collector takes collateral worth no more than the vault's profit.
withdrawProfits(v, recipient, a, amount) ==
    /\ ProfitCovers(v, assetValueFromAmount(a, amount))
    /\ CollateralChangesHands(v, recipient, a, amount)
    /\ UNCHANGED <<tokenVars, amoVars>>

AmoTypeOK ==
    /\ allocation \in [Accounts -> Nat]
    /\ isAmoActive \in [Accounts -> BOOLEAN]
    /\ totalAllocated \in Nat
=============================================================================
