------------------------------ MODULE DStableV2 ------------------------------
(***************************************************************************)
(* dSTABLE with AmoManagerV2: its debt token is one of the collaterals of  *)
(* the vault, so that every flow of collateral meets the token's           *)
(* allowlist. AmoManager stays deployed (IssuerV2 asks it for the AMO      *)
(* supply), but has no venues here; its steps are in DStable.              *)
(***************************************************************************)
EXTENDS DStable, AmoManagerV2

v2Vars == <<amoV2Vars, debtVars>>
varsV2 == <<vars, v2Vars>>

InitV2 == Init /\ DebtInit /\ AmoV2Init

\* feeReceiver is paid only if there is a fee.
PaidByRedeem(acct, a, dstableAmount) ==
    {acct} \cup IF feeCollateral(a, totalCollateralFor(a, dstableAmount)) > 0
                THEN {feeReceiver} ELSE {}

\* An issue moves collateral in the name of the issuer, which is not on the
\* allowlist: never the debt token.
UsersV2 ==
    \E acct \in Accounts \ {AmoMgr}, amount \in Amounts, a \in Assets :
       \/ \E min \in MinAmounts :
             \/ a # Debt /\ issue(acct, amount, a, min) /\ UNCHANGED redeemerVars
             \/ /\ redeem(acct, amount, a, min)
                /\ Allowlisted(a, {TheVault} \cup PaidByRedeem(acct, a, amount))
             \/ /\ redeemAsProtocol(acct, amount, a, min)
                /\ Allowlisted(a, {TheVault, acct})
       \/ /\ vaultDeposit(acct, a, amount)
          /\ Allowlisted(a, {TheVault, acct})
          /\ UNCHANGED <<tokenVars, offChain>>

ExchangesV2 ==
    /\ UNCHANGED <<tokenVars, offChain>>
    /\ \E acct \in Accounts, amount \in Amounts, from, to \in Assets :
          /\ Allowlisted(from, {TheVault, acct})
          /\ Allowlisted(to, {TheVault, acct})
          /\ \E min \in MinAmounts : exchangeMaxCollateral(acct, amount, from, to, min)

SupplySteps ==
    /\ UNCHANGED <<offChain, amoV2Vars>>
    /\ \E wallet \in Accounts, amount \in Amounts :
          \/ increaseAmoSupplyTo(wallet, amount)
          \/ decreaseAmoSupplyFrom(wallet, amount)

LoanSteps ==
    /\ UNCHANGED <<offChain, amoV2Vars>>
    /\ \E wallet \in Accounts, a \in Assets, amount \in Amounts, debt \in MinAmounts :
          \/ borrowTo(wallet, a, amount, debt)
          \/ repayFrom(wallet, a, amount, MaxUint - debt)

SettingsV2 ==
    /\ UNCHANGED vars
    /\ \/ /\ UNCHANGED debtVars
          /\ \/ \E wallet \in Accounts \ {AmoMgr}, allowed \in BOOLEAN :
                   setAmoWalletAllowed(wallet, allowed)
             \/ \E t \in Tolerances : setTolerance(t)
             \/ \E bps \in 0..OneHundredPercentBps : setPegDeviationBps(bps)
             \/ \E p \in Prices : DStablePriceMoves(p)
       \/ /\ UNCHANGED amoV2Vars
          /\ \E holder \in Allowlistable, allowed \in BOOLEAN :
                setAllowlisted(holder, allowed)

NextV2 ==
    \/ /\ UsersV2 \/ ExchangesV2 \/ IssuerSteps \/ FlashLoans
          \/ Listing \/ PriceMoves \/ Pauses \/ Fees
       /\ UNCHANGED v2Vars
    \/ SupplySteps \/ LoanSteps \/ SettingsV2

SpecV2 == InitV2 /\ [][NextV2]_varsV2

-----------------------------------------------------------------------------
\* Nothing leaves its range: AmoManagerV2's burns and loans never take the
\* balances, the supply of the debt token or a setting out of it.
TypeOKV2 == TypeOK /\ DebtTypeOK /\ AmoV2TypeOK

\* Unless the admin allowlists somebody else, all debt tokens there are lie in
\* the vault, through redemptions, exchanges and every AMO operation: what they
\* stand for cannot be counted anywhere else.
DebtStaysInVault ==
    Allowlistable \subseteq {TheVault, TheManager} => debtSupply = vaultBalance[Debt]

\* What a step takes from the backing: dStable issued over reserve gained.
Loss == (totalSupply' - totalSupply) * baseCurrencyUnit
            - (totalValue' - totalValue) * dstableUnit

\* The peg guard is what backs the supply operations, which look at no value of
\* the vault: whatever the debt token's price, dStable minted to a wallet or
\* burnt from it moves the backing by no more than the share the guard tolerates
\* and the rounding of three conversions.
PegGuardBoundsLoss ==
    [][\A wallet \in Accounts, amount \in Amounts :
          LET tolerated == (pegDeviationBps + 1) * amount * baseCurrencyUnit
              dust == dstableUnit + 2 + (price[Debt] * dstableUnit) \div baseCurrencyUnit
                                      + (price[Debt] * dstableUnit) \div assetUnit[Debt]
          IN  Debt \in supported /\ pegDeviationBps # 0 =>
              /\ increaseAmoSupplyTo(wallet, amount) =>
                    (Loss - dust) * OneHundredPercentBps <= tolerated
              /\ decreaseAmoSupplyFrom(wallet, amount) =>
                    (Loss - dstableUnit) * OneHundredPercentBps <= tolerated]_varsV2
=============================================================================
