---------------------------- MODULE AmoManagerV2 ----------------------------
(***************************************************************************)
(* contracts/dstable/AmoManagerV2.sol: dStable minted to AMO wallets, and  *)
(* collateral lent to them, against debt tokens in the vault. Where names  *)
(* of AmoManager recur, here the supply is increased *To* and decreased    *)
(* *From* a wallet. What the contract holds it passes on within the call,  *)
(* so it needs no account. setCollateralVault is left out.                 *)
(***************************************************************************)
EXTENDS RedeemerV2, AmoDebtToken

CONSTANTS
    OnePercentBps,   \* BasisPointConstants.ONE_PERCENT_BPS
    Tolerances       \* what the admin may set as tolerance

ASSUME AmoV2Assumption ==
    /\ OnePercentBps \in 0..OneHundredPercentBps
    /\ Tolerances \subseteq Nat

VARIABLES
    allowedAmoWallets,
    tolerance,         \* in base units, and in debt units
    pegDeviationBps,
    dstablePrice       \* oracle.getAssetPrice(dstable)

amoV2Vars == <<allowedAmoWallets, tolerance, pegDeviationBps, dstablePrice>>

baseToDebtUnits(value) == mulDiv(value, assetUnit[Debt], baseCurrencyUnit)

Distance(x, y) == IF x >= y THEN x - y ELSE y - x

Unguarded(p) == TRUE
WithinPeg(p) ==
    mulDiv(Distance(p, baseCurrencyUnit), OneHundredPercentBps, baseCurrencyUnit)
        <= pegDeviationBps

\* _ensurePegGuard; a deviation of 0 switches it off.
PegGuard == pegDeviationBps # 0 => WithinPeg(dstablePrice) /\ WithinPeg(price[Debt])

\* The two tests at the end of a call.
SuppliesMatch ==
    Distance(Distance(debtSupply', debtSupply),
             baseToDebtUnits(dstableAmountToBaseValue(Distance(totalSupply', totalSupply))))
        <= tolerance
ValueKept == totalValue' + tolerance >= totalValue

-----------------------------------------------------------------------------
\* The constructor tests the peg; the vault and the wallets come later.
AmoV2Init ==
    /\ allowedAmoWallets = {}
    /\ tolerance = 1
    /\ pegDeviationBps = OnePercentBps
    /\ dstablePrice \in Prices
    /\ PegGuard

increaseAmoSupplyTo(wallet, amount) ==
    /\ wallet \in allowedAmoWallets
    /\ PegGuard
    /\ LET debtAmount == baseToDebtUnits(dstableAmountToBaseValue(amount))
       IN  /\ DebtMinted(debtAmount)
           /\ vaultBalance' = Credit(vaultBalance, Debt, debtAmount)
    /\ Mint(wallet, amount)
    /\ SuppliesMatch
    /\ UNCHANGED <<price, supported, collateralOf, tokenPaused, flash, debtAllowlist>>

decreaseAmoSupplyFrom(wallet, amount) ==
    /\ wallet \in allowedAmoWallets
    /\ PegGuard
    /\ Burn(wallet, amount)
    /\ LET debtAmount == baseToDebtUnits(dstableAmountToBaseValue(amount))
       IN  /\ debtAmount <= vaultBalance[Debt]
           /\ DebtBurned(debtAmount)
           /\ vaultBalance' = Debit(vaultBalance, Debt, debtAmount)
    /\ SuppliesMatch
    /\ UNCHANGED <<price, supported, collateralOf, tokenPaused, flash, debtAllowlist>>

LoanOf(wallet, a) ==
    /\ wallet \in allowedAmoWallets
    /\ a \in supported
    /\ a # Debt
    /\ PegGuard

borrowTo(wallet, a, amount, minDebtMinted) ==
    /\ LoanOf(wallet, a)
    /\ amount <= vaultBalance[a]
    /\ LET debtAmount == baseToDebtUnits(assetValueFromAmount(a, amount))
       IN  /\ debtAmount >= minDebtMinted
           /\ DebtMinted(debtAmount)
           /\ vaultBalance' = Debit(Credit(vaultBalance, Debt, debtAmount), a, amount)
    /\ collateralOf' = CreditAsset(collateralOf, wallet, a, amount)
    /\ UNCHANGED <<price, supported, tokenVars, debtAllowlist>>
    /\ ValueKept

\* repayFrom between its modifiers.
RepayLoan(wallet, a, amount, maxDebtBurned) ==
    /\ LoanOf(wallet, a)
    /\ amount <= collateralOf[wallet][a]
    /\ LET debtAmount == baseToDebtUnits(assetValueFromAmount(a, amount))
       IN  /\ debtAmount <= maxDebtBurned
           /\ debtAmount <= vaultBalance[Debt]
           /\ DebtBurned(debtAmount)
           /\ vaultBalance' = Debit(Credit(vaultBalance, a, amount), Debt, debtAmount)
    /\ collateralOf' = DebitAsset(collateralOf, wallet, a, amount)
    /\ UNCHANGED <<price, supported, tokenVars, debtAllowlist>>
    /\ ValueKept

nonReentrant(entered) == ~ entered

repayFrom(wallet, a, amount, maxDebtBurned) ==
    nonReentrant(FALSE) /\ RepayLoan(wallet, a, amount, maxDebtBurned)

\* With a permit that gives the allowance. Calls repayFrom, whose guard finds
\* the contract entered, so that it is no step of this contract.
repayWithPermit(wallet, a, amount, maxDebtBurned) ==
    /\ nonReentrant(FALSE)
    /\ nonReentrant(TRUE)
    /\ RepayLoan(wallet, a, amount, maxDebtBurned)

(* Settings, and the price that only this contract reads *)

setAmoWalletAllowed(wallet, allowed) ==
    /\ allowedAmoWallets' = IF allowed THEN allowedAmoWallets \cup {wallet}
                                       ELSE allowedAmoWallets \ {wallet}
    /\ UNCHANGED <<tolerance, pegDeviationBps, dstablePrice>>

setTolerance(newTolerance) ==
    /\ tolerance' = newTolerance
    /\ UNCHANGED <<allowedAmoWallets, pegDeviationBps, dstablePrice>>

setPegDeviationBps(newPegDeviationBps) ==
    /\ newPegDeviationBps <= OneHundredPercentBps
    /\ pegDeviationBps' = newPegDeviationBps
    /\ UNCHANGED <<allowedAmoWallets, tolerance, dstablePrice>>

DStablePriceMoves(newPrice) ==
    /\ dstablePrice' = newPrice
    /\ UNCHANGED <<allowedAmoWallets, tolerance, pegDeviationBps>>

AmoV2TypeOK ==
    /\ allowedAmoWallets \in SUBSET Accounts
    /\ tolerance \in Nat
    /\ pegDeviationBps \in 0..OneHundredPercentBps
    /\ dstablePrice \in Nat
=============================================================================
