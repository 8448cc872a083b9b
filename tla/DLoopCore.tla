----------------------------- MODULE DLoopCore -----------------------------
(***************************************************************************)
(* contracts/vaults/dloop/core: DLoopCoreBase on dLEND (DLoopCoreDLend).   *)
(* Shares over a leveraged position: who deposits collateral receives      *)
(* shares and the debt that goes with it, who withdraws brings that debt   *)
(* back, and anybody may move the leverage towards the target for a        *)
(* subsidy. Callers have the tokens they spend. Tokens that lie in the     *)
(* vault itself are no part of its value, neither there nor here.          *)
(***************************************************************************)
EXTENDS DLendPosition, DLoopCoreLogic

CONSTANTS
    NumHolders,
    TargetLeverageBps,
    MaxWithdrawalFeeBps,
    Amounts,                                       \* of tokens, in calls
    MaxShares,                                     \* bounds the shares, as uint256 does
    LeverageBounds, Subsidies, Deviations, Fees,   \* what the admin may set
    InitialLowerBound, InitialUpperBound

Holders == 1..NumHolders

ASSUME DLoopAssumption ==
    /\ NumHolders \in Nat \ {0}
    /\ TargetLeverageBps \in Nat
    /\ TargetLeverageBps >= OneHundredPercentBps
    /\ MaxWithdrawalFeeBps \in 0..(OneHundredPercentBps - 1)
    /\ Amounts \subseteq Nat /\ MaxShares \in Nat
    /\ LeverageBounds \subseteq Nat /\ Subsidies \subseteq Nat
    /\ Deviations \subseteq Nat /\ Fees \subseteq Nat
    /\ InitialLowerBound \in Nat /\ InitialUpperBound \in Nat
    /\ InitialLowerBound < TargetLeverageBps /\ TargetLeverageBps < InitialUpperBound

VARIABLES
    sharesOf, totalShares,
    lowerBoundTargetLeverageBps, upperBoundTargetLeverageBps,
    maxSubsidyBps, minDeviationBps, withdrawalFeeBps,
    paused

shareVars == <<sharesOf, totalShares>>
bounds == <<lowerBoundTargetLeverageBps, upperBoundTargetLeverageBps>>
settings == <<bounds, maxSubsidyBps, minDeviationBps, withdrawalFeeBps>>
vars == <<position, prices, shareVars, settings, paused>>

-----------------------------------------------------------------------------
(* What the calls read *)

\* A view of the leverage reverts unless LeverageKnown.
LeverageKnown(c, d) == HasLeverage(collateralBase(c), debtBase(d))
leverageOf(c, d) == leverageBps(collateralBase(c), debtBase(d))
currentLeverageBps == leverageOf(collateral, debt)

isTooImbalanced ==
    isOutside(currentLeverageBps, lowerBoundTargetLeverageBps, upperBoundTargetLeverageBps)
Balanced == LeverageKnown(collateral, debt) /\ ~ isTooImbalanced

currentSubsidyBps ==
    subsidyBps(currentLeverageBps, TargetLeverageBps, maxSubsidyBps, minDeviationBps)

toCollateral(value) == convertFromBaseCurrencyToToken(value, CollateralUnit, collateralPrice)
toDebt(value) == convertFromBaseCurrencyToToken(value, DebtUnit, debtPrice)

totalAssets == toCollateral(collateralBase(collateral))

\* ERC4626 with one virtual share and asset.
convertToShares(assets) == mulDiv(assets, totalShares + 1, totalAssets + 1)
convertToSharesUp(assets) == mulDivUp(assets, totalShares + 1, totalAssets + 1)
convertToAssets(shares) == mulDiv(shares, totalAssets + 1, totalShares + 1)
convertToAssetsUp(shares) == mulDivUp(shares, totalAssets + 1, totalShares + 1)

redeemWithoutFee(shares) == convertToAssets(shares)
previewRedeem(shares) == netAfterFee(convertToAssets(shares), withdrawalFeeBps)
previewWithdraw(assets) == convertToSharesUp(grossFromNet(assets, withdrawalFeeBps))

borrowForDeposit(assets) ==
    toDebt(debtShare(collateralBase(assets),
                     IF currentLeverageBps = 0 THEN TargetLeverageBps ELSE currentLeverageBps))
repayAtTarget(assets) == toDebt(debtShare(collateralBase(assets), TargetLeverageBps))
repayForWithdrawal(assets) ==
    IF currentLeverageBps = 0 THEN 0
    ELSE toDebt(debtShare(collateralBase(assets), currentLeverageBps))

\* What a rebalancing call receives for what it brings.
borrowedFor(inputCollateral) ==
    toDebt(getDebtBorrowAmountInBaseToIncreaseLeverage(
               collateralBase(inputCollateral), currentSubsidyBps))
withdrawnFor(inputDebt) ==
    toCollateral(getCollateralWithdrawAmountInBaseToDecreaseLeverage(
                     debtBase(inputDebt), currentSubsidyBps))

\* The tests at its end, for the position it leaves.
RaisedToTarget(c, d) ==
    /\ LeverageKnown(c, d)
    /\ leverageOf(c, d) <= TargetLeverageBps
    /\ leverageOf(c, d) > currentLeverageBps
LoweredToTarget(c, d) ==
    /\ LeverageKnown(c, d)
    /\ leverageOf(c, d) >= TargetLeverageBps
    /\ leverageOf(c, d) < currentLeverageBps

\* What a rebalancing service is told to bring (DLoopQuoter).
HasQuote == collateralBase(collateral) > debtBase(debt)
quotedCollateral ==
    toCollateral(getCollateralTokenDepositAmountToReachTargetLeverage(
        TargetLeverageBps, collateralBase(collateral), debtBase(debt), currentSubsidyBps))
quotedDebt ==
    toDebt(getDebtRepayAmountInBaseToReachTargetLeverage(
        TargetLeverageBps, collateralBase(collateral), debtBase(debt), currentSubsidyBps))

Min2(x, y) == IF x <= y THEN x ELSE y

BoundsUnchecked(lower, upper) == TRUE
BoundsEncloseTarget(lower, upper) == lower < TargetLeverageBps /\ TargetLeverageBps < upper

-----------------------------------------------------------------------------
Init ==
    /\ collateral = 0 /\ debt = 0
    /\ collateralPrice \in CollateralPrices /\ debtPrice \in DebtPrices
    /\ sharesOf = [h \in Holders |-> 0] /\ totalShares = 0
    /\ lowerBoundTargetLeverageBps = InitialLowerBound
    /\ upperBoundTargetLeverageBps = InitialUpperBound
    /\ maxSubsidyBps \in Subsidies
    /\ minDeviationBps \in Deviations
    /\ withdrawalFeeBps \in Fees
    /\ paused = FALSE

\* _deposit: supply, then borrow what keeps the leverage; the debt tokens go to
\* the receiver. A pool call that moves nothing reverts.
TakeDeposit(receiver, assets, shares) ==
    /\ shares # 0 /\ totalShares + shares <= MaxShares
    /\ Balanced
    /\ CanSupply(collateral, assets)
    /\ CanBorrow(collateral + assets, debt, borrowForDeposit(assets))
    /\ collateral' = collateral + assets
    /\ debt' = debt + borrowForDeposit(assets)
    /\ sharesOf' = [sharesOf EXCEPT ![receiver] = @ + shares]
    /\ totalShares' = totalShares + shares
    /\ UNCHANGED <<prices, settings, paused>>

deposit(receiver, assets) == TakeDeposit(receiver, assets, convertToShares(assets))

mint(receiver, shares) == TakeDeposit(receiver, convertToAssetsUp(shares), shares)

\* _withdraw: repay what keeps the leverage, at the caller's cost, then withdraw.
PayWithdrawal(owner, assets, shares) ==
    /\ shares <= sharesOf[owner]
    /\ Balanced
    /\ CanRepay(debt, Min2(repayForWithdrawal(assets), debt))
    /\ LET debtLeft == debt - Min2(repayForWithdrawal(assets), debt)
           withdrawn == Min2(assets, collateral)
       IN  /\ CanWithdraw(collateral, debtLeft, withdrawn)
           /\ collateral' = collateral - withdrawn
           /\ debt' = debtLeft
    /\ sharesOf' = [sharesOf EXCEPT ![owner] = @ - shares]
    /\ totalShares' = totalShares - shares
    /\ UNCHANGED <<prices, settings, paused>>

withdraw(owner, assets) ==
    /\ withdrawalFeeBps < OneHundredPercentBps
    /\ assets <= previewRedeem(sharesOf[owner])
    /\ PayWithdrawal(owner, assets, previewWithdraw(assets))

redeem(owner, shares) ==
    /\ withdrawalFeeBps <= OneHundredPercentBps
    /\ PayWithdrawal(owner, previewRedeem(shares), shares)

increaseLeverage(inputCollateral, minReceived) ==
    LET borrowed == borrowedFor(inputCollateral)
    IN  /\ ~ paused
        /\ LeverageKnown(collateral, debt)
        /\ currentLeverageBps < TargetLeverageBps
        /\ CanSupply(collateral, inputCollateral)
        /\ CanBorrow(collateral + inputCollateral, debt, borrowed)
        /\ borrowed >= minReceived
        /\ RaisedToTarget(collateral + inputCollateral, debt + borrowed)
        /\ collateral' = collateral + inputCollateral
        /\ debt' = debt + borrowed
        /\ UNCHANGED <<prices, shareVars, settings, paused>>

\* The collateral is that for the whole input, of which no more is repaid than
\* there is debt.
decreaseLeverage(inputDebt, minReceived) ==
    LET debtLeft == debt - Min2(inputDebt, debt)
        withdrawn == Min2(withdrawnFor(inputDebt), collateral)
    IN  /\ ~ paused
        /\ LeverageKnown(collateral, debt)
        /\ currentLeverageBps > TargetLeverageBps
        /\ CanRepay(debt, inputDebt)
        /\ CanWithdraw(collateral, debtLeft, withdrawn)
        /\ withdrawn >= minReceived
        /\ LoweredToTarget(collateral - withdrawn, debtLeft)
        /\ collateral' = collateral - withdrawn
        /\ debt' = debtLeft
        /\ UNCHANGED <<prices, shareVars, settings, paused>>

\* compoundRewards (RewardClaimable): the caller's shares are moved to the vault
\* and burnt. What he claims for them is not modelled.
compoundRewards(caller, amount) ==
    /\ amount > 0
    /\ amount <= sharesOf[caller]
    /\ sharesOf' = [sharesOf EXCEPT ![caller] = @ - amount]
    /\ totalShares' = totalShares - amount
    /\ UNCHANGED <<position, prices, settings, paused>>

(* Settings *)

setLeverageBounds(lower, upper) ==
    /\ ~ paused
    /\ BoundsEncloseTarget(lower, upper)
    /\ lowerBoundTargetLeverageBps' = lower /\ upperBoundTargetLeverageBps' = upper
    /\ UNCHANGED <<maxSubsidyBps, minDeviationBps, withdrawalFeeBps, paused>>

setMaxSubsidyBps(newMaxSubsidyBps) ==
    /\ ~ paused
    /\ maxSubsidyBps' = newMaxSubsidyBps
    /\ UNCHANGED <<bounds, minDeviationBps, withdrawalFeeBps, paused>>

setMinDeviationBps(newMinDeviationBps) ==
    /\ ~ paused
    /\ minDeviationBps' = newMinDeviationBps
    /\ UNCHANGED <<bounds, maxSubsidyBps, withdrawalFeeBps, paused>>

setWithdrawalFeeBps(newWithdrawalFeeBps) ==
    /\ ~ paused
    /\ newWithdrawalFeeBps <= MaxWithdrawalFeeBps
    /\ withdrawalFeeBps' = newWithdrawalFeeBps
    /\ UNCHANGED <<bounds, maxSubsidyBps, minDeviationBps, paused>>

\* pause and unpause.
setPaused(newPaused) ==
    /\ paused # newPaused
    /\ paused' = newPaused
    /\ UNCHANGED settings

-----------------------------------------------------------------------------
Users ==
    \E h \in Holders, amount \in Amounts :
       \/ deposit(h, amount)  \/ mint(h, amount)
       \/ withdraw(h, amount) \/ redeem(h, amount)
       \/ compoundRewards(h, amount)

Rebalancers ==
    \E amount, min \in Amounts \cup {0} :
       increaseLeverage(amount, min) \/ decreaseLeverage(amount, min)

Admin ==
    /\ UNCHANGED <<position, prices, shareVars>>
    /\ \/ \E lower, upper \in LeverageBounds : setLeverageBounds(lower, upper)
       \/ \E s \in Subsidies : setMaxSubsidyBps(s)
       \/ \E dev \in Deviations : setMinDeviationBps(dev)
       \/ \E fee \in Fees : setWithdrawalFeeBps(fee)
       \/ \E p \in BOOLEAN : setPaused(p)

Market ==
    /\ UNCHANGED <<shareVars, settings, paused>>
    /\ \/ Interest
       \/ \E amount \in Amounts : RepaidByOthers(amount)
       \/ \E repaid \in 1..debt, seized \in 0..collateral : Liquidated(repaid, seized)
       \/ \E pc \in CollateralPrices, pd \in DebtPrices : PricesMove(pc, pd)

Next == Users \/ Rebalancers \/ Admin \/ Market

Spec == Init /\ [][Next]_vars

-----------------------------------------------------------------------------
\* Nothing leaves its range, and the shares add up: no withdrawal or repayment
\* takes more than there is, and no holder can burn what another one holds.
TypeOK ==
    /\ collateral \in Nat /\ debt \in Nat
    /\ collateralPrice \in CollateralPrices /\ debtPrice \in DebtPrices
    /\ sharesOf \in [Holders -> Nat] /\ totalShares = SumTo(sharesOf, NumHolders)
    /\ lowerBoundTargetLeverageBps \in Nat /\ upperBoundTargetLeverageBps \in Nat
    /\ lowerBoundTargetLeverageBps < TargetLeverageBps
    /\ TargetLeverageBps < upperBoundTargetLeverageBps
    /\ maxSubsidyBps \in Nat /\ minDeviationBps \in Nat /\ withdrawalFeeBps \in Nat
    /\ paused \in BOOLEAN

\* Exact values, in one common unit.
collateralWorth(amount) == amount * collateralPrice * DebtUnit
debtWorth(amount) == amount * debtPrice * CollateralUnit
baseWorth(value) == value * CollateralUnit * DebtUnit

\* Who moves the leverage earns no more than the maximal subsidy on what he
\* brings, after every conversion and for every history of positions, prices and
\* settings; for a decrease one base unit more, since it is rounded up.
CallerEarnsAtMostSubsidy ==
    [][UNCHANGED totalShares =>
          \A amount \in Amounts :
             /\ collateral' > collateral /\ increaseLeverage(amount, 0) =>
                   (debtWorth(debt' - debt) - collateralWorth(amount)) * OneHundredPercentBps
                      <= maxSubsidyBps * collateralWorth(amount)
             /\ collateral' < collateral /\ decreaseLeverage(amount, 0) =>
                   (collateralWorth(collateral - collateral') - debtWorth(amount) - baseWorth(1))
                         * OneHundredPercentBps
                      <= maxSubsidyBps * debtWorth(amount)]_vars

\* The collateral behind the other holders' shares: a deposit brings at least
\* what its shares stand for, a withdrawal takes at most that less the fee.
HoldersKeepTheirShare ==
    [][/\ totalShares' > totalShares =>
             (totalShares' - totalShares) * (totalAssets + 1)
                <= (collateral' - collateral) * (totalShares + 1)
       /\ totalShares' < totalShares /\ collateral' < collateral =>
             ((collateral - collateral') * OneHundredPercentBps - (OneHundredPercentBps - 1))
                    * (totalShares + 1)
                <= (totalShares - totalShares') * (totalAssets + 1)
                    * (OneHundredPercentBps - withdrawalFeeBps)]_vars

\* The debt that goes with the collateral: a deposit borrows no more than the
\* vault owes for as much collateral; a withdrawal pays back what the vault owes
\* for it, but for one basis point of its value, which is how finely leverage is
\* measured, one base unit and one unit of the debt token.
DebtFollowsCollateral ==
    [][LET cb == collateralBase(collateral)
           db == debtBase(debt)
       IN  /\ totalShares' > totalShares /\ cb # 0 =>
                 debtWorth(debt' - debt) * cb <= collateralWorth(collateral' - collateral) * db
           /\ totalShares' < totalShares /\ collateral' < collateral =>
                 baseWorth(collateralBase(collateral - collateral'))
                        * (db * (OneHundredPercentBps - 1) - cb)
                    <= (debtWorth(debt - debt' + 1) + baseWorth(1))
                        * cb * (OneHundredPercentBps - 1)]_vars

\* Positions on which a base unit moves no leverage by a whole basis point: some
\* hundred thousand base units, a fraction of a cent at eight decimals.
MeasuredFinely ==
    (TargetLeverageBps + 1) * (depositDenominator(TargetLeverageBps, currentSubsidyBps) - 1)
        < OneHundredPercentBps * collateralBase(collateral)

\* Whoever brings the collateral he was quoted raises the leverage to the target
\* at most, as the vault tests at the end of the call, though the quote is rounded
\* up. It does not hold where target and subsidy multiply with a rest, which the
\* quote drops: a target of whole multiples has none.
QuotedIncreaseStopsAtTarget ==
    LET borrowed == borrowedFor(quotedCollateral)
    IN  (/\ HasQuote /\ currentLeverageBps < TargetLeverageBps /\ MeasuredFinely
         /\ (TargetLeverageBps * currentSubsidyBps) % OneHundredPercentBps = 0) =>
            /\ LeverageKnown(collateral + quotedCollateral, debt + borrowed)
            /\ leverageOf(collateral + quotedCollateral, debt + borrowed) <= TargetLeverageBps
=============================================================================
