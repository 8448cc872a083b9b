----------------------------- MODULE MCDStable -----------------------------
(***************************************************************************)
(* Instances of DStable for TLC. Units and prices are chosen so that every *)
(* conversion leaves a remainder. Each run explores some groups of steps   *)
(* together; between them the groups are all of Next.                      *)
(***************************************************************************)
EXTENDS RedemptionFees

VARIABLE part   \* the group of steps a behaviour explores

MCassetUnit == <<2, 3>>

\* Accounts: the AMO manager, an AMO vault, a user.
MCmgr == 1
MCvaults == {2}
MCnoVaults == {}

MCcollateral == << <<0, 0>>, <<0, 0>>, <<2, 1>> >>
MCcollateralTwo == << <<0, 0>>, <<2, 1>> >>

\* Money at fixed prices: minting, redeeming, AMO flows, exchanges and trades,
\* while collaterals are delisted and relisted.
MoneyNext == Users \/ AmoSteps \/ IssuerSteps \/ Exchanges \/ Trades \/ Listing
MoneyInit == Init /\ SaidInit /\ part = "money"
MoneySpec == MoneyInit /\ [][MoneyNext /\ UNCHANGED <<said, part>>]_<<vars, said, part>>

\* The admins' switches around users: prices, listings, flash loans.
SwitchesNext ==
    /\ Users \/ IssuerSteps \/ FlashLoans \/ Listing \/ PriceMoves \/ Pauses
    /\ UNCHANGED said

\* Fees set, overridden and cleared around redemptions.
FeesNext ==
    \/ (Users \/ Listing \/ PriceMoves) /\ UNCHANGED said
    \/ FeesAreSaid

\* The two explored side by side: a behaviour stays in one part.
AdminsNext ==
    /\ \/ part = "switches" /\ SwitchesNext
       \/ part = "fees" /\ FeesNext
    /\ UNCHANGED part
AdminsInit == Init /\ SaidInit /\ part \in {"switches", "fees"}
AdminsSpec == AdminsInit /\ [][AdminsNext]_<<vars, said, part>>

-----------------------------------------------------------------------------
(* What comments and documents say and the code does not do *)

\* AmoManager.transferFromAmoVaultToHoldingVault: once collateral has come
\* back, the dStable whose allocation it cancels is fully backed.
FreedAllocationIsBacked ==
    [][\A v \in AmoVaults, a \in Assets, amount \in Amounts :
          transferFromAmoVaultToHoldingVault(v, a, amount) =>
             (totalAllocated - totalAllocated') * baseCurrencyUnit
                <= (totalValue' - totalValue) * dstableUnit]_vars
=============================================================================
