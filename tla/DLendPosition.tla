--------------------------- MODULE DLendPosition ---------------------------
(***************************************************************************)
(* contracts/dlend (Aave v3) as one borrower sees it: a position of one    *)
(* collateral and one variable-rate debt, and the tests of the pool that   *)
(* depend on it. The position's balances are counted in tokens, with       *)
(* interest as a step of its own; the caps of the two reserves, which the  *)
(* others have used up in part, bound it.                                  *)
(***************************************************************************)
EXTENDS BasisPointConstants

CONSTANTS
    CollateralUnit, DebtUnit,          \* 10 ** decimals of the two tokens
    LtvBps, LiquidationThresholdBps,   \* of the collateral's reserve
    SupplyCap, BorrowCap,              \* left to this borrower
    CollateralPrices, DebtPrices       \* what the oracle may report

ASSUME PositionAssumption ==
    /\ CollateralUnit \in Nat \ {0} /\ DebtUnit \in Nat \ {0}
    /\ LtvBps \in Nat \ {0} /\ LiquidationThresholdBps \in Nat \ {0}
    /\ SupplyCap \in Nat /\ BorrowCap \in Nat
    /\ CollateralPrices \subseteq Nat \ {0} /\ DebtPrices \subseteq Nat \ {0}

VARIABLES collateral, debt, collateralPrice, debtPrice

position == <<collateral, debt>>
prices == <<collateralPrice, debtPrice>>

collateralBase(amount) == mulDiv(amount, collateralPrice, CollateralUnit)
debtBase(amount) == mulDiv(amount, debtPrice, DebtUnit)

\* PercentageMath, rounded half up.
percentMul(value, bps) == (value * bps + OneHundredPercentBps \div 2) \div OneHundredPercentBps
percentDiv(value, bps) == (value * OneHundredPercentBps + bps \div 2) \div bps

\* The health factor of collateral c and debt d, compared with one.
Healthy(c, d) ==
    debtBase(d) = 0 \/ percentMul(collateralBase(c), LiquidationThresholdBps) >= debtBase(d)
StrictlyHealthy(c, d) ==
    debtBase(d) = 0 \/ percentMul(collateralBase(c), LiquidationThresholdBps) > debtBase(d)

(* When the pool's functions do not revert, for a position c, d *)

CanSupply(c, amount) == amount # 0 /\ c + amount <= SupplyCap

CanBorrow(c, d, amount) ==
    /\ amount # 0
    /\ d + amount <= BorrowCap
    /\ collateralBase(c) # 0
    /\ StrictlyHealthy(c, d)
    /\ percentDiv(debtBase(d) + debtBase(amount), LtvBps) <= collateralBase(c)

CanRepay(d, amount) == amount # 0 /\ d # 0

CanWithdraw(c, d, amount) ==
    /\ amount # 0
    /\ amount <= c
    /\ d # 0 => Healthy(c - amount, d)

-----------------------------------------------------------------------------
(* Steps of others *)

\* Interest on both sides, one token at a time; also what somebody supplies on
\* the borrower's behalf.
Interest ==
    /\ \/ collateral < SupplyCap /\ collateral' = collateral + 1 /\ UNCHANGED debt
       \/ debt \in 1..(BorrowCap - 1) /\ debt' = debt + 1 /\ UNCHANGED collateral
    /\ UNCHANGED prices

\* Anybody may repay for the borrower.
RepaidByOthers(amount) ==
    /\ CanRepay(debt, amount)
    /\ amount <= debt
    /\ debt' = debt - amount
    /\ UNCHANGED <<collateral, prices>>

\* liquidationCall; how much is seized is the pool's matter.
Liquidated(repaid, seized) ==
    /\ ~ Healthy(collateral, debt)
    /\ repaid \in 1..debt /\ seized \in 0..collateral
    /\ debt' = debt - repaid
    /\ collateral' = collateral - seized
    /\ UNCHANGED prices

PricesMove(newCollateralPrice, newDebtPrice) ==
    /\ collateralPrice' = newCollateralPrice
    /\ debtPrice' = newDebtPrice
    /\ UNCHANGED position
=============================================================================
