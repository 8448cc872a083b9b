--------------------------- MODULE DLoopCoreLogic ---------------------------
(***************************************************************************)
(* contracts/vaults/dloop/core/DLoopCoreLogic.sol: the arithmetic of the   *)
(* leveraged vault. cb and db are the position's collateral and debt in    *)
(* base currency; a leverage is cb / (cb - db) in basis points.            *)
(***************************************************************************)
EXTENDS WithdrawalFees

CONSTANT MaxUint    \* type(uint256).max, the leverage of a vault without equity

ASSUME MaxUintAssumption == MaxUint \in Nat /\ MaxUint >= OneHundredPercentBps

\* Otherwise getCurrentLeverageBps reverts, and with it all that asks for it.
HasLeverage(cb, db) == cb >= db

leverageBps(cb, db) ==
    IF cb = 0 THEN 0
    ELSE IF cb = db THEN MaxUint
    ELSE mulDiv(cb, OneHundredPercentBps, cb - db)

Distance(x, y) == IF x >= y THEN x - y ELSE y - x

\* The share of the deviation in the target, up to the maximum.
subsidyUncapped(current, target, maxSubsidyBps, minDeviationBps) ==
    IF Distance(current, target) < minDeviationBps THEN 0
    ELSE mulDiv(Distance(current, target), OneHundredPercentBps, target)
subsidyBps(current, target, maxSubsidyBps, minDeviationBps) ==
    LET share == mulDiv(Distance(current, target), OneHundredPercentBps, target)
    IN  IF Distance(current, target) < minDeviationBps THEN 0
        ELSE IF share > maxSubsidyBps THEN maxSubsidyBps ELSE share

convertFromBaseCurrencyToToken(amountInBase, unit, price) == mulDiv(amountInBase, unit, price)
convertFromTokenAmountToBaseCurrency(amount, unit, price) == mulDiv(amount, price, unit)

isOutside(leverage, lowerBound, upperBound) ==
    leverage # 0 /\ (leverage < lowerBound \/ leverage > upperBound)

\* The debt that goes with collateral of a value, at a leverage: what a deposit
\* borrows and a withdrawal repays.
debtShare(value, leverage) == mulDiv(value, leverage - OneHundredPercentBps, leverage)

(* Towards the target. x is collateral, y debt, both in base currency. *)

depositWithoutSubsidy(target, cb, db, subsidy) ==
    mulDivUp(target * (cb - db) - cb * OneHundredPercentBps, 1, OneHundredPercentBps)
depositDenominator(target, subsidy) ==
    OneHundredPercentBps + mulDiv(target, subsidy, OneHundredPercentBps)
getCollateralTokenDepositAmountToReachTargetLeverage(target, cb, db, subsidy) ==
    mulDivUp(target * (cb - db) - cb * OneHundredPercentBps, 1, depositDenominator(target, subsidy))

getDebtBorrowAmountInBaseToIncreaseLeverage(x, subsidy) ==
    mulDiv(x, OneHundredPercentBps + subsidy, OneHundredPercentBps)

repayDenominator(target, subsidy) ==
    OneHundredPercentBps + subsidy - mulDiv(target, subsidy, OneHundredPercentBps)
getDebtRepayAmountInBaseToReachTargetLeverage(target, cb, db, subsidy) ==
    (cb * OneHundredPercentBps - target * (cb - db)) \div repayDenominator(target, subsidy)

getCollateralWithdrawAmountInBaseToDecreaseLeverage(y, subsidy) ==
    mulDivUp(y, OneHundredPercentBps + subsidy, OneHundredPercentBps)
=============================================================================
