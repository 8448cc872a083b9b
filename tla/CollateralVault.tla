--------------------------- MODULE CollateralVault ---------------------------
(***************************************************************************)
(* contracts/dstable/CollateralVault.sol and CollateralHolderVault.sol:    *)
(* the vault that holds the collateral of a dStable, with the oracle that  *)
(* prices it and the collateral held by everybody else.                    *)
(*                                                                         *)
(* A module to be extended: its actions are the vault's own operations,    *)
(* its effects (VaultReceives, VaultPays) are what Issuer, Redeemer and    *)
(* the AMO managers make of it inside their transactions. Roles are not    *)
(* state: an action guarded by onlyRole is a step of whoever has the role. *)
(* A feed that reverts disables the steps that read it and adds none.      *)
(***************************************************************************)
EXTENDS Integers, FiniteSets, AccountNumbers, Arithmetic

CONSTANTS
    NumAssets,         \* collateral assets are numbered
    assetUnit,         \* assetUnit[a]: 10^decimals of asset a
    baseCurrencyUnit,  \* of the oracle and of every OracleAware contract
    Prices,            \* what the oracle may quote
    Amounts,           \* amounts callers pass
    MinAmounts,        \* slippage bounds callers pass
    InitialCollateral  \* what each account holds at the start

Assets == 1..NumAssets

ASSUME VaultAssumption ==
    /\ NumAssets \in Nat
    /\ assetUnit \in [Assets -> Nat \ {0}]
    /\ baseCurrencyUnit \in Nat \ {0}
    /\ Prices \subseteq Nat
    /\ Amounts \subseteq Nat
    /\ MinAmounts \subseteq Nat
    /\ InitialCollateral \in [Accounts -> [Assets -> Nat]]

VARIABLES
    price,         \* oracle.getAssetPrice
    supported,     \* _supportedCollaterals
    vaultBalance,  \* IERC20(asset).balanceOf(vault)
    collateralOf   \* the same of every account other than the vault

vaultVars == <<price, supported, vaultBalance, collateralOf>>

\* What the base value of the vault depends on besides its balances.
valuation == <<price, supported>>

-----------------------------------------------------------------------------
(* Value conversions, all rounded down *)

\* Base value of an amount of asset a at price p.
ValueAt(p, a, amount) == mulDiv(p, amount, assetUnit[a])

assetValueFromAmount(a, amount) == ValueAt(price[a], a, amount)

AmountRoundedUp(a, value) ==
    (value * assetUnit[a] + price[a] - 1) \div price[a]

\* Reverts (division by zero) at price 0: users guard it with HasPrice.
assetAmountFromValue(a, value) == mulDiv(value, assetUnit[a], price[a])

HasPrice(a) == price[a] # 0

maxExchangeAmount(fromAmount, from, to) ==
    assetAmountFromValue(to, assetValueFromAmount(from, fromAmount))

\* Value by asset of the balances b; assets that are not supported count for nothing.
SupportedValues(b) ==
    [a \in Assets |-> IF a \in supported THEN assetValueFromAmount(a, b[a]) ELSE 0]

totalValue == SumTo(SupportedValues(vaultBalance), NumAssets)

-----------------------------------------------------------------------------
(* Effects on balances *)

\* safeTransferFrom(payer, vault, amount)
VaultReceives(payer, a, amount) ==
    /\ collateralOf[payer][a] >= amount
    /\ collateralOf' = DebitAsset(collateralOf, payer, a, amount)
    /\ vaultBalance' = Credit(vaultBalance, a, amount)

\* withdrawTo(payee, amount) followed by withdrawTo(other, otherAmount).
\* withdrawTo does not ask whether the asset is supported.
VaultPaysTwo(payee, amount, other, otherAmount, a) ==
    /\ vaultBalance[a] >= amount + otherAmount
    /\ vaultBalance' = Debit(vaultBalance, a, amount + otherAmount)
    /\ collateralOf' = CreditAsset(CreditAsset(collateralOf, payee, a, amount),
                                   other, a, otherAmount)

VaultPays(payee, amount, a) == VaultPaysTwo(payee, amount, payee, 0, a)

-----------------------------------------------------------------------------
VaultInit ==
    /\ price \in [Assets -> Prices \ {0}]
    /\ supported = Assets
    /\ vaultBalance = [a \in Assets |-> 0]
    /\ collateralOf = InitialCollateral

\* deposit is open to anybody.
vaultDeposit(acct, a, amount) ==
    /\ a \in supported
    /\ VaultReceives(acct, a, amount)
    /\ UNCHANGED <<price, supported>>

\* The strategist gives one collateral and takes another of no more value.
exchangeCollateral(acct, fromAmount, from, toAmount, to) ==
    /\ from \in supported
    /\ HasPrice(to)
    /\ toAmount <= maxExchangeAmount(fromAmount, from, to)
    /\ collateralOf[acct][from] >= fromAmount
    /\ LET received == Credit(vaultBalance, from, fromAmount)
           given    == DebitAsset(collateralOf, acct, from, fromAmount)
       IN  /\ received[to] >= toAmount
           /\ vaultBalance' = Debit(received, to, toAmount)
           /\ collateralOf' = CreditAsset(given, acct, to, toAmount)
    /\ UNCHANGED <<price, supported>>

exchangeMaxCollateral(acct, fromAmount, from, to, toMin) ==
    /\ HasPrice(to)
    /\ maxExchangeAmount(fromAmount, from, to) >= toMin
    /\ exchangeCollateral(acct, fromAmount, from,
                          maxExchangeAmount(fromAmount, from, to), to)

allowCollateral(a) ==
    /\ a \notin supported
    /\ HasPrice(a)
    /\ supported' = supported \cup {a}
    /\ UNCHANGED <<price, vaultBalance, collateralOf>>

\* Nothing asks whether the vault still holds the asset: its value drops out.
disallowCollateral(a) ==
    /\ a \in supported
    /\ Cardinality(supported) > 1
    /\ supported' = supported \ {a}
    /\ UNCHANGED <<price, vaultBalance, collateralOf>>

(* The environment *)

OracleMoves(a, newPrice) ==
    /\ price' = [price EXCEPT ![a] = newPrice]
    /\ UNCHANGED <<supported, vaultBalance, collateralOf>>

\* ERC20 transfers of collateral between accounts, trades with AMO venues included.
CollateralChangesHands(from, to, a, amount) ==
    /\ collateralOf[from][a] >= amount
    /\ collateralOf' = CreditAsset(DebitAsset(collateralOf, from, a, amount), to, a, amount)
    /\ UNCHANGED <<price, supported, vaultBalance>>

VaultTypeOK ==
    /\ price \in [Assets -> Nat]
    /\ supported \in SUBSET Assets
    /\ vaultBalance \in [Assets -> Nat]
    /\ collateralOf \in [Accounts -> [Assets -> Nat]]
=============================================================================
