---------------------------- MODULE MCDStableV2 ----------------------------
(***************************************************************************)
(* Instances of DStableV2: one collateral, the debt token, one account that*)
(* is user, strategist and AMO wallet, and the idle AmoManager.            *)
(***************************************************************************)
EXTENDS DStableV2

VARIABLE part   \* the group of steps a behaviour explores

MCassetUnit == <<3, 2>>
MCmgr == 1
MCnoVaults == {}
MCcollateral == << <<0, 0>>, <<2, 0>> >>
MCallowlistable == {TheVault, TheManager}

\* AMO operations and users, with the allowlists in motion.
DebtNext ==
    \/ /\ UsersV2 \/ ExchangesV2 \/ IssuerSteps
       /\ UNCHANGED v2Vars
    \/ SupplySteps \/ LoanSteps \/ SettingsV2

\* Prices and listings in motion around the supply operations.
PegNext ==
    \/ (Listing \/ PriceMoves) /\ UNCHANGED v2Vars
    \/ SupplySteps \/ LoanSteps \/ SettingsV2

\* The two explored side by side, the first at the peg, and the first one alone.
PartsNext ==
    /\ \/ part = "debt" /\ DebtNext
       \/ part = "peg" /\ PegNext
    /\ UNCHANGED part
PartsInit ==
    /\ InitV2 /\ part \in {"debt", "peg"}
    /\ part = "debt" => \A a \in Assets : price[a] = baseCurrencyUnit
PartsSpec == PartsInit /\ [][PartsNext]_<<varsV2, part>>
DebtSpec == InitV2 /\ part = "debt" /\ [][PartsNext]_<<varsV2, part>>

-----------------------------------------------------------------------------
(* What documents say and the code does not do *)

\* Design.md: repayWithPermit is repayFrom with the allowance signed first. It
\* can be called whenever repayFrom can.
PermitRepays ==
    \A wallet \in Accounts, a \in Assets, amount \in Amounts :
       ENABLED (repayFrom(wallet, a, amount, MaxUint) /\ UNCHANGED <<offChain, amoV2Vars>>)
         => ENABLED (repayWithPermit(wallet, a, amount, MaxUint)
                       /\ UNCHANGED <<offChain, amoV2Vars>>)
=============================================================================
