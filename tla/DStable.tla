------------------------------- MODULE DStable -------------------------------
(***************************************************************************)
(* The dSTABLE system: IssuerV2, RedeemerV2, AmoManager, CollateralHolder- *)
(* Vault, the token and the oracle, stepped by anybody in any order. One   *)
(* step is one transaction, except for flash loans, whose callback may     *)
(* hold any number of steps.                                               *)
(***************************************************************************)
EXTENDS RedeemerV2

vars == <<vaultVars, tokenVars, amoVars, issuerVars, redeemerVars>>

offChain == <<amoVars, issuerVars, redeemerVars>>   \* what tokens do not touch

Init == VaultInit /\ TokenInit /\ AmoInit /\ IssuerInit /\ RedeemerInit

Users ==
    \E acct \in Accounts \ {AmoMgr}, amount \in Amounts :
       \/ \E a \in Assets, min \in MinAmounts :
             \/ issue(acct, amount, a, min) /\ UNCHANGED redeemerVars
             \/ redeem(acct, amount, a, min)
             \/ redeemAsProtocol(acct, amount, a, min)
       \/ \E a \in Assets :
             /\ vaultDeposit(acct, a, amount)
             /\ UNCHANGED <<tokenVars, offChain>>
       \/ \E to \in Accounts :
             /\ tokenTransfer(acct, to, amount)
             /\ UNCHANGED <<vaultVars, offChain>>
       \/ tokenBurn(acct, amount) /\ UNCHANGED <<vaultVars, offChain>>

FlashLoans ==
    /\ \/ \E acct \in Accounts \ {AmoMgr}, amount \in FlashAmounts : flashLoan(acct, amount)
       \/ flashRepay
    /\ UNCHANGED <<vaultVars, offChain>>

AmoSteps ==
    /\ UNCHANGED <<issuerVars, redeemerVars>>
    /\ \E v \in AmoVaults :
          \/ enableAmoVault(v)
          \/ disableAmoVault(v)
          \/ \E amount \in Amounts :
                \/ allocateAmo(v, amount)
                \/ deallocateAmo(v, amount)
                \/ decreaseAmoSupply(amount)
                \/ \E a \in Assets :
                      \/ transferFromAmoVaultToHoldingVault(v, a, amount)
                      \/ transferFromHoldingVaultToAmoVault(v, a, amount)
                      \/ \E to \in Accounts : withdrawProfits(v, to, a, amount)

IssuerSteps ==
    /\ UNCHANGED redeemerVars
    /\ \E amount \in Amounts :
          \/ \E receiver \in Accounts : issueUsingExcessCollateral(receiver, amount)
          \/ increaseAmoSupply(amount)

Exchanges ==
    /\ UNCHANGED <<tokenVars, offChain>>
    /\ \E acct \in Accounts, amount \in Amounts, from, to \in Assets :
          \/ \E toAmount \in Amounts : exchangeCollateral(acct, amount, from, toAmount, to)
          \/ \E min \in MinAmounts : exchangeMaxCollateral(acct, amount, from, to, min)

Trades ==
    /\ UNCHANGED <<tokenVars, offChain>>
    /\ \E from, to \in Accounts, a \in Assets, amount \in Amounts :
          CollateralChangesHands(from, to, a, amount)

Listing ==
    /\ UNCHANGED <<tokenVars, offChain>>
    /\ \E a \in Assets : allowCollateral(a) \/ disallowCollateral(a)

PriceMoves ==
    /\ UNCHANGED <<tokenVars, offChain>>
    /\ \E a \in Assets, p \in Prices : OracleMoves(a, p)

Pauses ==
    \E paused \in BOOLEAN :
       \/ setTokenPaused(paused) /\ UNCHANGED <<vaultVars, offChain>>
       \/ setMintingPaused(paused) /\ UNCHANGED redeemerVars
       \/ setRedemptionPaused(paused)
       \/ \E a \in Assets :
             \/ setAssetMintingPause(a, paused) /\ UNCHANGED redeemerVars
             \/ setAssetRedemptionPause(a, paused)

Fees ==
    \/ \E acct \in Accounts : setFeeReceiver(acct)
    \/ \E bps \in 0..OneHundredPercentBps :
          \/ setDefaultRedemptionFee(bps)
          \/ \E a \in Assets : setCollateralRedemptionFee(a, bps)
    \/ \E a \in Assets : clearCollateralRedemptionFee(a)

Next ==
    \/ Users \/ FlashLoans \/ AmoSteps \/ IssuerSteps \/ Exchanges \/ Trades
    \/ Listing \/ PriceMoves \/ Pauses \/ Fees

Spec == Init /\ [][Next]_vars

-----------------------------------------------------------------------------
\* No balance, supply, allocation or fee leaves its range: what the contracts
\* subtract never underflows, and no fee is ever above MAX_FEE_BPS.
TypeOK ==
    /\ VaultTypeOK /\ TokenTypeOK /\ AmoTypeOK
    /\ IssuerTypeOK /\ RedeemerTypeOK

\* The token's supply is what its holders hold, through mints, burns, transfers
\* to oneself and flash loans.
SupplyAddsUp == totalSupply = SumTo(dstableOf, NumAccounts)

\* AmoManager's counter, which circulatingDstable is computed from, is what its
\* vaults were allocated, whatever became of their tokens and their listing.
AllocationsAddUp == totalAllocated = SumTo(allocation, NumAccounts)

\* The system implements BackedMoney: at a given valuation nobody's call lets
\* totalValue fall behind circulatingDstable, but for rounding dust when
\* collateral goes to an AMO vault. A flash loan is not issued money.
Money == INSTANCE BackedMoney WITH
    Dust      <- dstableUnit + baseCurrencyUnit,
    reserve   <- totalValue * dstableUnit,
    issued    <- (totalSupply - flash.amount - dstableOf[AmoMgr]) * baseCurrencyUnit,
    allocated <- totalAllocated * baseCurrencyUnit,
    valuation <- valuation
Backed == Money!Spec

\* withdrawProfits never eats into what a vault must still return: a vault is
\* left worth its allocation, or one base unit less by rounding.
PrincipalStaysInVault ==
    [][\A v \in AmoVaults, to \in Accounts, a \in Assets, amount \in Amounts :
          withdrawProfits(v, to, a, amount)
             => availableVaultProfitsInBase(v)' >= -1]_vars
=============================================================================
