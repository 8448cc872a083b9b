---------------------------- MODULE AmoDebtToken ----------------------------
(***************************************************************************)
(* contracts/dstable/AmoDebtToken.sol: the receipt for what AMO wallets    *)
(* took, held by the collateral vault as one of its collaterals. Its       *)
(* balances are those of asset Debt in CollateralVault; here is its supply *)
(* and the allowlist without which nobody sends or receives it.            *)
(***************************************************************************)
EXTENDS CollateralVault

CONSTANTS
    Debt,          \* the asset number of the debt token
    Allowlistable  \* whom the admin may put on the allowlist

\* Holders that are not accounts: the collateral vault and AmoManagerV2.
TheVault == 0
TheManager == NumAccounts + 1

ASSUME DebtAssumption ==
    /\ Debt \in Assets
    /\ Allowlistable \subseteq Accounts \cup {TheVault, TheManager}
    /\ \A acct \in Accounts : InitialCollateral[acct][Debt] = 0

VARIABLES debtSupply, debtAllowlist

debtVars == <<debtSupply, debtAllowlist>>

\* _update's guard on a transfer of asset a, of any value, between holders.
AnyHolder(a, holders) == TRUE
Allowlisted(a, holders) == a = Debt => holders \subseteq debtAllowlist

\* mintToVault; the vault's balance is the caller's to write.
DebtMinted(amount) ==
    /\ TheVault \in debtAllowlist
    /\ debtSupply + amount <= MaxUint
    /\ debtSupply' = debtSupply + amount

\* vault.withdrawTo(manager) and burn by the manager.
DebtBurnedKeepsSupply(amount) ==
    /\ {TheVault, TheManager} \subseteq debtAllowlist
    /\ UNCHANGED debtSupply
DebtBurned(amount) ==
    /\ {TheVault, TheManager} \subseteq debtAllowlist
    /\ debtSupply' = debtSupply - amount

-----------------------------------------------------------------------------
DebtInit == debtSupply = 0 /\ debtAllowlist = {}

setAllowlisted(holder, allowed) ==
    /\ debtAllowlist' = IF allowed THEN debtAllowlist \cup {holder}
                                   ELSE debtAllowlist \ {holder}
    /\ UNCHANGED debtSupply
    /\ UNCHANGED vaultVars

DebtTypeOK ==
    /\ debtSupply \in Nat
    /\ debtAllowlist \in SUBSET Allowlistable
=============================================================================
