--------------------------- MODULE DLoopCoreProofs ---------------------------
(***************************************************************************)
(* For every number of holders, target, fee, unit and set of prices: the   *)
(* shares add up and nothing leaves its range, who moves the leverage earns *)
(* no more than the maximal subsidy, and who comes or goes takes nothing   *)
(* from those who stay.                                                    *)
(*                                                                         *)
(* The type invariant is inductive by itself. What it needs is that every  *)
(* amount computed is natural: the leverage never falls below one, so the  *)
(* debt that goes with a deposit is not negative.                          *)
(***************************************************************************)
EXTENDS DLoopCore, ArithmeticProofs

-----------------------------------------------------------------------------
(* Every amount is natural *)

LEMMA UnitsAndPrices ==
    ASSUME TypeOK
    PROVE  /\ collateralPrice \in Nat \ {0} /\ debtPrice \in Nat \ {0}
           /\ CollateralUnit \in Nat \ {0} /\ DebtUnit \in Nat \ {0}
           /\ OneHundredPercentBps \in Nat \ {0}
           /\ TargetLeverageBps \in Nat /\ TargetLeverageBps >= OneHundredPercentBps
BY PositionAssumption, BpsAssumption, DLoopAssumption DEF TypeOK, PositionAssumption, BpsAssumption,
   DLoopAssumption

LEMMA BaseTypes ==
    ASSUME TypeOK
    PROVE  /\ \A x \in Nat : collateralBase(x) \in Nat /\ debtBase(x) \in Nat
           /\ \A x \in Nat : toCollateral(x) \in Nat /\ toDebt(x) \in Nat
           /\ collateralBase(collateral) \in Nat /\ debtBase(debt) \in Nat
           /\ totalAssets \in Nat
<1>1. /\ \A x \in Nat : collateralBase(x) \in Nat /\ debtBase(x) \in Nat
      /\ \A x \in Nat : toCollateral(x) \in Nat /\ toDebt(x) \in Nat
    BY UnitsAndPrices, MulDivBounds
    DEF collateralBase, debtBase, toCollateral, toDebt, convertFromBaseCurrencyToToken
<1>2. collateral \in Nat /\ debt \in Nat
    BY DEF TypeOK
<1> QED BY <1>1, <1>2 DEF totalAssets

\* A leverage that is known is zero, for an empty vault, or at least one.
LEMMA LeverageAtLeastOne ==
    ASSUME TypeOK, NEW c \in Nat, NEW d \in Nat, LeverageKnown(c, d)
    PROVE  /\ leverageOf(c, d) \in Nat
           /\ leverageOf(c, d) # 0 => leverageOf(c, d) >= OneHundredPercentBps
<1> DEFINE cb == collateralBase(c)
           db == debtBase(d)
           S == OneHundredPercentBps
<1>1. cb \in Nat /\ db \in Nat /\ cb >= db /\ S \in Nat \ {0}
    BY BaseTypes, UnitsAndPrices DEF LeverageKnown, HasLeverage
<1>2. leverageOf(c, d) = IF cb = 0 THEN 0 ELSE IF cb = db THEN MaxUint
                         ELSE mulDiv(cb, S, cb - db)
    BY DEF leverageOf, leverageBps
<1>3. MaxUint \in Nat /\ MaxUint >= S
    BY MaxUintAssumption DEF MaxUintAssumption
<1> HIDE DEF cb, db, S
<1>4. CASE cb # 0 /\ cb # db
  <2>1. cb - db \in Nat \ {0}
      BY <1>1, <1>4
  <2>2. S * (cb - db) <= cb * S
    <3>1. S * (cb - db) = cb * S - S * db /\ S * db \in Nat /\ cb * S \in Nat
        BY <1>1, ProductNat
    <3> QED BY <3>1
  <2>3. mulDiv(cb, S, cb - db) \in Nat /\ S <= mulDiv(cb, S, cb - db)
      BY <1>1, <2>1, <2>2, MulDivBounds, MulDivAtLeast
  <2>4. leverageOf(c, d) = mulDiv(cb, S, cb - db)
      BY <1>2, <1>4
  <2> QED BY <1>1, <2>3, <2>4 DEF S
<1> QED BY <1>1, <1>2, <1>3, <1>4 DEF S

LEMMA CurrentLeverage ==
    ASSUME TypeOK, LeverageKnown(collateral, debt)
    PROVE  /\ currentLeverageBps \in Nat
           /\ currentLeverageBps # 0 => currentLeverageBps >= OneHundredPercentBps
BY LeverageAtLeastOne DEF TypeOK, currentLeverageBps

LEMMA DebtShareNat ==
    ASSUME BpsAssumption, NEW v \in Nat, NEW lev \in Nat, lev >= OneHundredPercentBps
    PROVE  debtShare(v, lev) \in Nat
<1>1. lev \in Nat \ {0} /\ lev - OneHundredPercentBps \in Nat
    BY DEF BpsAssumption
<1> QED BY <1>1, MulDivBounds DEF debtShare

\* The debt that goes with a deposit or a withdrawal.
LEMMA FollowingDebtTypes ==
    ASSUME TypeOK, LeverageKnown(collateral, debt), NEW assets \in Nat
    PROVE  borrowForDeposit(assets) \in Nat /\ repayForWithdrawal(assets) \in Nat
<1>1. collateralBase(assets) \in Nat
    BY BaseTypes
<1>2. \A lev \in Nat : lev >= OneHundredPercentBps => debtShare(collateralBase(assets), lev) \in Nat
    BY <1>1, DebtShareNat, BpsAssumption
<1>3. borrowForDeposit(assets) \in Nat
    BY <1>2, CurrentLeverage, UnitsAndPrices, BaseTypes DEF borrowForDeposit
<1>4. repayForWithdrawal(assets) \in Nat
    BY <1>2, CurrentLeverage, BaseTypes DEF repayForWithdrawal
<1> QED BY <1>3, <1>4

LEMMA SubsidyType ==
    ASSUME TypeOK, LeverageKnown(collateral, debt)
    PROVE  currentSubsidyBps \in Nat /\ currentSubsidyBps <= maxSubsidyBps
<1> DEFINE gap == Distance(currentLeverageBps, TargetLeverageBps)
           share == mulDiv(gap, OneHundredPercentBps, TargetLeverageBps)
<1>1. gap \in Nat
    BY CurrentLeverage, UnitsAndPrices DEF Distance
<1>2. TargetLeverageBps \in Nat \ {0}
    BY UnitsAndPrices
<1>3. share \in Nat
    BY <1>1, <1>2, UnitsAndPrices, MulDivBounds
<1>4. maxSubsidyBps \in Nat /\ minDeviationBps \in Nat
    BY DEF TypeOK
<1> HIDE DEF gap, share
<1>5. currentSubsidyBps = IF gap < minDeviationBps THEN 0
                          ELSE IF share > maxSubsidyBps THEN maxSubsidyBps ELSE share
    BY DEF currentSubsidyBps, subsidyBps, gap, share
<1> QED BY <1>3, <1>4, <1>5

LEMMA NetType ==
    ASSUME BpsAssumption, NEW x \in Nat, NEW f \in Nat
    PROVE  netAfterFee(x, f) \in Nat
<1>1. CASE f >= OneHundredPercentBps
    BY <1>1 DEF netAfterFee, calculateWithdrawalFee, BpsAssumption
<1>2. CASE f < OneHundredPercentBps
  <2> DEFINE S == OneHundredPercentBps
             q == mulDiv(x, f, S)
  <2>1. S \in Nat \ {0}
      BY DEF BpsAssumption
  <2>2. x * f < (x + 1) * S
    <3>1. x * f <= x * S /\ x * S < (x + 1) * S
        BY <1>2, <2>1
    <3>2. x * f \in Nat /\ x * S \in Nat /\ (x + 1) * S \in Nat
        BY <2>1, ProductNat
    <3> QED BY <3>1, <3>2
  <2>3. q \in Nat /\ q <= x
      BY <2>1, <2>2, MulDivBounds, MulDivAtMost
  <2>4. netAfterFee(x, f) = x - q
      BY <1>2, <2>1 DEF netAfterFee, calculateWithdrawalFee
  <2> HIDE DEF q
  <2> QED BY <2>3, <2>4
<1> QED BY <1>1, <1>2 DEF BpsAssumption

LEMMA GrossType ==
    ASSUME BpsAssumption, NEW n \in Nat, NEW f \in Nat, f < OneHundredPercentBps
    PROVE  grossFromNet(n, f) \in Nat
<1> DEFINE S == OneHundredPercentBps
           g == grossRoundedUp(n, f)
<1>1. S \in Nat \ {0} /\ S - f \in Nat \ {0}
    BY DEF BpsAssumption
<1>2. g \in Nat /\ n * S <= g * (S - f)
    BY <1>1, MulDivUpBounds DEF grossRoundedUp
<1> HIDE DEF g, S
<1>3. n # 0 => g # 0
  <2>1. n # 0 => n * S > 0
      BY <1>1
  <2>2. g = 0 => g * (S - f) = 0
      BY <1>1
  <2> QED BY <1>1, <1>2, <2>1, <2>2, ProductNat
<1> QED BY <1>2, <1>3 DEF grossFromNet, g

\* ERC4626 conversions.
LEMMA ConversionTypes ==
    ASSUME TypeOK, NEW x \in Nat
    PROVE  /\ convertToShares(x) \in Nat /\ convertToSharesUp(x) \in Nat
           /\ convertToAssets(x) \in Nat /\ convertToAssetsUp(x) \in Nat
<1>1. totalAssets + 1 \in Nat \ {0}
    BY BaseTypes
<1>2. totalShares \in Nat
  <2>1. NumHolders \in Nat /\ sharesOf \in [1..NumHolders -> Nat]
      BY DLoopAssumption DEF DLoopAssumption, TypeOK, Holders
  <2> QED BY <2>1, SumNat DEF TypeOK
<1>3. totalShares + 1 \in Nat \ {0}
    BY <1>2
<1> QED BY <1>1, <1>3, MulDivBounds, MulDivUpBounds
        DEF convertToShares, convertToSharesUp, convertToAssets, convertToAssetsUp

-----------------------------------------------------------------------------
(* Shares *)

SharesOK ==
    /\ sharesOf \in [Holders -> Nat]
    /\ totalShares = SumTo(sharesOf, NumHolders)

\* One holder's shares and the total move together.
LEMMA SharesMove ==
    ASSUME SharesOK, NEW h \in Holders, NEW k \in Int, sharesOf[h] + k >= 0,
           sharesOf' = [sharesOf EXCEPT ![h] = @ + k],
           totalShares' = totalShares + k
    PROVE  SharesOK'
<1>1. NumHolders \in Nat /\ h \in 1..NumHolders /\ sharesOf \in [1..NumHolders -> Nat]
    BY DLoopAssumption DEF DLoopAssumption, SharesOK, Holders
<1>2. sharesOf' \in [1..NumHolders -> Nat] /\ sharesOf'[h] = sharesOf[h] + k
    BY <1>1
<1>3. \A i \in 1..NumHolders \ {h} : sharesOf'[i] = sharesOf[i]
    BY <1>1
<1>4. sharesOf \in [1..NumHolders -> Int] /\ sharesOf' \in [1..NumHolders -> Int]
    BY <1>1, <1>2
<1>5. SumTo(sharesOf', NumHolders) = SumTo(sharesOf, NumHolders) + sharesOf'[h] - sharesOf[h]
    BY <1>1, <1>3, <1>4, SumUpdate
<1>6. SumTo(sharesOf, NumHolders) \in Int /\ sharesOf[h] \in Nat
    BY <1>1, <1>4, SumToType
<1>7. SumTo(sharesOf', NumHolders) = totalShares + k
    BY <1>2, <1>5, <1>6 DEF SharesOK
<1> QED BY <1>2, <1>7 DEF SharesOK, Holders

-----------------------------------------------------------------------------
(* Type correctness, one step per action *)

PositionOK == collateral \in Nat /\ debt \in Nat
PricesOK == collateralPrice \in CollateralPrices /\ debtPrice \in DebtPrices
SettingsOK ==
    /\ lowerBoundTargetLeverageBps \in Nat /\ upperBoundTargetLeverageBps \in Nat
    /\ lowerBoundTargetLeverageBps < TargetLeverageBps
    /\ TargetLeverageBps < upperBoundTargetLeverageBps
    /\ maxSubsidyBps \in Nat /\ minDeviationBps \in Nat /\ withdrawalFeeBps \in Nat
    /\ paused \in BOOLEAN

LEMMA Parts == TypeOK <=> PositionOK /\ PricesOK /\ SharesOK /\ SettingsOK
BY DEF TypeOK, PositionOK, PricesOK, SharesOK, SettingsOK

LEMMA PartsAfter == PositionOK' /\ PricesOK' /\ SharesOK' /\ SettingsOK' => TypeOK'
BY DEF TypeOK, PositionOK, PricesOK, SharesOK, SettingsOK

LEMMA SamePrices == PricesOK /\ UNCHANGED prices => PricesOK'
BY DEF PricesOK, prices

LEMMA SameShares == SharesOK /\ UNCHANGED shareVars => SharesOK'
BY DEF SharesOK, shareVars

LEMMA SameSettings == SettingsOK /\ UNCHANGED <<settings, paused>> => SettingsOK'
BY DEF SettingsOK, settings, bounds

LEMMA SamePosition == PositionOK /\ UNCHANGED position => PositionOK'
BY DEF PositionOK, position

LEMMA DepositTypes ==
    ASSUME TypeOK, NEW h \in Holders, NEW assets \in Nat, NEW shares \in Nat,
           TakeDeposit(h, assets, shares)
    PROVE  TypeOK'
<1>1. PositionOK /\ PricesOK /\ SharesOK /\ SettingsOK
    BY Parts
<1>2. PositionOK'
  <2>1. borrowForDeposit(assets) \in Nat
      BY FollowingDebtTypes DEF TakeDeposit, Balanced
  <2> QED BY <1>1, <2>1 DEF TakeDeposit, PositionOK
<1>3. SharesOK'
  <2>1. sharesOf[h] \in Nat
      BY <1>1 DEF SharesOK
  <2>2. /\ shares \in Int /\ sharesOf[h] + shares >= 0
        /\ sharesOf' = [sharesOf EXCEPT ![h] = @ + shares]
        /\ totalShares' = totalShares + shares
      BY <2>1 DEF TakeDeposit
  <2> QED BY <1>1, <2>2, SharesMove
<1>4. PricesOK' /\ SettingsOK'
    BY <1>1, SamePrices, SameSettings DEF TakeDeposit
<1> QED BY <1>2, <1>3, <1>4, PartsAfter

LEMMA WithdrawalTypes ==
    ASSUME TypeOK, NEW h \in Holders, NEW assets \in Nat, NEW shares \in Nat,
           PayWithdrawal(h, assets, shares)
    PROVE  TypeOK'
<1>1. PositionOK /\ PricesOK /\ SharesOK /\ SettingsOK
    BY Parts
<1>2. PositionOK'
  <2>1. repayForWithdrawal(assets) \in Nat
      BY FollowingDebtTypes DEF PayWithdrawal, Balanced
  <2>2. /\ debt - Min2(repayForWithdrawal(assets), debt) \in Nat
        /\ collateral - Min2(assets, collateral) \in Nat
      BY <1>1, <2>1 DEF Min2, PositionOK
  <2> QED BY <2>2 DEF PayWithdrawal, PositionOK
<1>3. SharesOK'
  <2>1. sharesOf[h] \in Nat /\ shares <= sharesOf[h]
      BY <1>1 DEF SharesOK, PayWithdrawal
  <2>2. totalShares \in Int
    <3>1. NumHolders \in Nat /\ sharesOf \in [1..NumHolders -> Int]
        BY <1>1, DLoopAssumption DEF DLoopAssumption, SharesOK, Holders
    <3> QED BY <1>1, <3>1, SumToType DEF SharesOK
  <2> DEFINE k == 0 - shares
  <2>3. k \in Int /\ sharesOf[h] + k >= 0 /\ totalShares - shares = totalShares + k
        /\ sharesOf[h] - shares = sharesOf[h] + k
      BY <2>1, <2>2
  <2>4. /\ sharesOf' = [sharesOf EXCEPT ![h] = @ - shares]
        /\ totalShares' = totalShares - shares
      BY DEF PayWithdrawal
  <2> HIDE DEF k
  <2>5. sharesOf' = [sharesOf EXCEPT ![h] = @ + k]
      BY <2>3, <2>4
  <2> QED BY <1>1, <2>3, <2>4, <2>5, SharesMove
<1>4. PricesOK' /\ SettingsOK'
    BY <1>1, SamePrices, SameSettings DEF PayWithdrawal
<1> QED BY <1>2, <1>3, <1>4, PartsAfter

LEMMA UsersTypes == ASSUME TypeOK, Users PROVE TypeOK'
<1>1. PICK h \in Holders, amount \in Amounts :
          \/ deposit(h, amount)  \/ mint(h, amount)
          \/ withdraw(h, amount) \/ redeem(h, amount)
          \/ compoundRewards(h, amount)
    BY DEF Users
<1>2. amount \in Nat
    BY DLoopAssumption DEF DLoopAssumption
<1>3. PositionOK /\ PricesOK /\ SharesOK /\ SettingsOK
    BY Parts
<1>4. withdrawalFeeBps \in Nat
    BY <1>3 DEF SettingsOK
<1>5. CASE deposit(h, amount)
    BY <1>2, <1>5, ConversionTypes, DepositTypes DEF deposit
<1>6. CASE mint(h, amount)
    BY <1>2, <1>6, ConversionTypes, DepositTypes DEF mint
<1>7. CASE withdraw(h, amount)
  <2>1. grossFromNet(amount, withdrawalFeeBps) \in Nat
      BY <1>2, <1>4, <1>7, BpsAssumption, GrossType DEF withdraw
  <2>2. previewWithdraw(amount) \in Nat
      BY <2>1, ConversionTypes DEF previewWithdraw
  <2> QED BY <1>2, <1>7, <2>2, WithdrawalTypes DEF withdraw
<1>8. CASE redeem(h, amount)
  <2>1. previewRedeem(amount) \in Nat
      BY <1>2, <1>4, BpsAssumption, ConversionTypes, NetType DEF previewRedeem
  <2> QED BY <1>2, <1>8, <2>1, WithdrawalTypes DEF redeem
<1>9. CASE compoundRewards(h, amount)
  <2>1. sharesOf[h] \in Nat /\ amount <= sharesOf[h]
      BY <1>3, <1>9 DEF SharesOK, compoundRewards
  <2>2. totalShares \in Int
    <3>1. NumHolders \in Nat /\ sharesOf \in [1..NumHolders -> Int]
        BY <1>3, DLoopAssumption DEF DLoopAssumption, SharesOK, Holders
    <3> QED BY <1>3, <3>1, SumToType DEF SharesOK
  <2> DEFINE k == 0 - amount
  <2>3. k \in Int /\ sharesOf[h] + k >= 0 /\ totalShares - amount = totalShares + k
        /\ sharesOf[h] - amount = sharesOf[h] + k
      BY <1>2, <2>1, <2>2
  <2>4. /\ sharesOf' = [sharesOf EXCEPT ![h] = @ - amount]
        /\ totalShares' = totalShares - amount
      BY <1>9 DEF compoundRewards
  <2> HIDE DEF k
  <2>5. sharesOf' = [sharesOf EXCEPT ![h] = @ + k]
      BY <2>3, <2>4
  <2>6. SharesOK'
      BY <1>3, <2>3, <2>4, <2>5, SharesMove
  <2> QED BY <1>3, <1>9, <2>6, SamePosition, SamePrices, SameSettings, Parts, PartsAfter
          DEF compoundRewards
<1> QED BY <1>1, <1>5, <1>6, <1>7, <1>8, <1>9

\* What a rebalancing call receives is natural.
LEMMA ReceivedTypes ==
    ASSUME TypeOK, LeverageKnown(collateral, debt), NEW x \in Nat
    PROVE  borrowedFor(x) \in Nat /\ withdrawnFor(x) \in Nat
<1>1. currentSubsidyBps \in Nat /\ OneHundredPercentBps \in Nat \ {0}
    BY SubsidyType, UnitsAndPrices
<1>2. collateralBase(x) \in Nat /\ debtBase(x) \in Nat
      /\ OneHundredPercentBps + currentSubsidyBps \in Nat
    BY <1>1, BaseTypes
<1> QED BY <1>1, <1>2, BaseTypes, MulDivBounds, MulDivUpBounds
        DEF borrowedFor, withdrawnFor, getDebtBorrowAmountInBaseToIncreaseLeverage,
            getCollateralWithdrawAmountInBaseToDecreaseLeverage

LEMMA RebalancersTypes == ASSUME TypeOK, Rebalancers PROVE TypeOK'
<1>1. PICK amount \in Amounts \cup {0}, min \in Amounts \cup {0} :
          increaseLeverage(amount, min) \/ decreaseLeverage(amount, min)
    BY DEF Rebalancers
<1>2. amount \in Nat
    BY DLoopAssumption DEF DLoopAssumption
<1>3. PositionOK /\ PricesOK /\ SharesOK /\ SettingsOK
    BY Parts
<1>4. borrowedFor(amount) \in Nat /\ withdrawnFor(amount) \in Nat
    BY <1>1, <1>2, ReceivedTypes DEF increaseLeverage, decreaseLeverage
<1>5. PositionOK'
  <2>1. CASE increaseLeverage(amount, min)
      BY <1>2, <1>3, <1>4, <2>1 DEF increaseLeverage, PositionOK
  <2>2. CASE decreaseLeverage(amount, min)
      BY <1>2, <1>3, <1>4, <2>2 DEF decreaseLeverage, PositionOK, Min2
  <2> QED BY <1>1, <2>1, <2>2
<1>6. UNCHANGED <<prices, shareVars, settings, paused>>
    BY <1>1 DEF increaseLeverage, decreaseLeverage
<1> QED BY <1>3, <1>5, <1>6, SamePrices, SameShares, SameSettings, Parts, PartsAfter

LEMMA AdminTypes == ASSUME TypeOK, Admin PROVE TypeOK'
<1>1. PositionOK /\ PricesOK /\ SharesOK /\ SettingsOK
    BY Parts
<1>2. SettingsOK'
    BY <1>1, DLoopAssumption
    DEF Admin, SettingsOK, DLoopAssumption, setLeverageBounds, setMaxSubsidyBps,
        setMinDeviationBps, setWithdrawalFeeBps, setPaused, settings, bounds,
        BoundsEncloseTarget
<1> QED BY <1>1, <1>2, SamePosition, SamePrices, SameShares, Parts, PartsAfter DEF Admin

LEMMA MarketTypes == ASSUME TypeOK, Market PROVE TypeOK'
<1>1. PositionOK /\ PricesOK /\ SharesOK /\ SettingsOK
    BY Parts
<1>2. PositionOK' /\ PricesOK'
    BY <1>1, DLoopAssumption
    DEF Market, PositionOK, PricesOK, DLoopAssumption, Interest, RepaidByOthers,
        Liquidated, PricesMove, position, prices
<1> QED BY <1>1, <1>2, SameShares, SameSettings, Parts, PartsAfter DEF Market

LEMMA InitTypes == ASSUME Init PROVE TypeOK
<1>1. NumHolders \in Nat
    BY DLoopAssumption DEF DLoopAssumption
<1>2. SharesOK
    BY <1>1, SumOfZeros DEF Init, SharesOK, Holders
<1> QED BY <1>2, DLoopAssumption, Parts DEF Init, DLoopAssumption, PositionOK, PricesOK, SettingsOK

\* The shares add up to their total, the bounds enclose the target, and every
\* balance stays natural.
THEOREM TypeCorrect == Spec => []TypeOK
<1>1. Init => TypeOK
    BY InitTypes
<1>2. TypeOK /\ [Next]_vars => TypeOK'
  <2>1. ASSUME TypeOK, UNCHANGED vars PROVE TypeOK'
      BY <2>1, SamePosition, SamePrices, SameShares, SameSettings, Parts, PartsAfter DEF vars
  <2> QED BY <2>1, UsersTypes, RebalancersTypes, AdminTypes, MarketTypes DEF Next
<1> QED BY <1>1, <1>2, PTL DEF Spec

-----------------------------------------------------------------------------
(* The subsidy *)

\* b debt tokens for x collateral tokens: v and m are the base values between,
\* k the share of the value that is given for it, and every step rounds down.
LEMMA ThroughThreeRoundings ==
    ASSUME NEW x \in Nat, NEW v \in Nat, NEW m \in Nat, NEW b \in Nat,
           NEW px \in Nat, NEW pb \in Nat, NEW ux \in Nat, NEW ub \in Nat,
           NEW S \in Nat, NEW k \in Nat,
           v * ux <= x * px, m * S <= v * k, b * pb <= m * ub
    PROVE  (b * pb * ux) * S <= (x * px * ub) * k
<1>1. (b * pb) * (ux * S) <= (m * ub) * (ux * S)
    BY ProductNat, Scaled
<1>2. (m * S) * (ub * ux) <= (v * k) * (ub * ux)
    BY ProductNat, Scaled
<1>3. (v * ux) * (k * ub) <= (x * px) * (k * ub)
    BY ProductNat, Scaled
<1>4. /\ (b * pb) * (ux * S) = (b * pb * ux) * S
      /\ (m * ub) * (ux * S) = (m * S) * (ub * ux)
      /\ (v * k) * (ub * ux) = (v * ux) * (k * ub)
      /\ (x * px) * (k * ub) = (x * px * ub) * k
    OBVIOUS
<1>5. /\ (b * pb * ux) * S \in Nat /\ (m * S) * (ub * ux) \in Nat
      /\ (v * ux) * (k * ub) \in Nat /\ (x * px * ub) * k \in Nat
    BY ProductNat
<1> QED BY <1>1, <1>2, <1>3, <1>4, <1>5

LEMMA IncreaseEarns ==
    ASSUME TypeOK, NEW x \in Nat, increaseLeverage(x, 0)
    PROVE  (debtWorth(debt' - debt) - collateralWorth(x)) * OneHundredPercentBps
              <= maxSubsidyBps * collateralWorth(x)
<1> DEFINE S == OneHundredPercentBps
           v == collateralBase(x)
           m == getDebtBorrowAmountInBaseToIncreaseLeverage(v, currentSubsidyBps)
           b == borrowedFor(x)
           B == b * debtPrice * CollateralUnit
           X == x * collateralPrice * DebtUnit
<1>1. /\ S \in Nat \ {0} /\ collateralPrice \in Nat \ {0} /\ debtPrice \in Nat \ {0}
      /\ CollateralUnit \in Nat \ {0} /\ DebtUnit \in Nat \ {0}
    BY UnitsAndPrices
<1>2. currentSubsidyBps \in Nat /\ currentSubsidyBps <= maxSubsidyBps /\ maxSubsidyBps \in Nat
    BY SubsidyType DEF increaseLeverage, TypeOK
<1>3. v \in Nat /\ v * CollateralUnit <= x * collateralPrice
    BY <1>1, MulDivBounds DEF collateralBase
<1>4. S + currentSubsidyBps \in Nat
    BY <1>1, <1>2
<1>5. m \in Nat /\ m * S <= v * (S + currentSubsidyBps)
    BY <1>1, <1>3, <1>4, MulDivBounds DEF getDebtBorrowAmountInBaseToIncreaseLeverage
<1>6. b \in Nat /\ b * debtPrice <= m * DebtUnit
    BY <1>1, <1>5, MulDivBounds DEF borrowedFor, toDebt, convertFromBaseCurrencyToToken
<1>7. debt' - debt = b
  <2>1. debt' = debt + b /\ debt \in Nat
      BY DEF increaseLeverage, TypeOK
  <2> HIDE DEF b
  <2> QED BY <1>6, <2>1
<1> HIDE DEF S, v, m, b
<1>8. B * S <= X * (S + currentSubsidyBps)
    BY <1>1, <1>3, <1>4, <1>5, <1>6, ThroughThreeRoundings
<1>9. B \in Nat /\ X \in Nat
    BY <1>1, <1>6, ProductNat
<1> HIDE DEF B, X
<1>10. X * currentSubsidyBps <= maxSubsidyBps * X
    BY <1>2, <1>9, Scaled
<1>11. (B - X) * S <= maxSubsidyBps * X
  <2>1. /\ (B - X) * S = B * S - X * S
        /\ X * (S + currentSubsidyBps) = X * S + X * currentSubsidyBps
        /\ B * S \in Nat /\ X * S \in Nat /\ X * currentSubsidyBps \in Nat
        /\ maxSubsidyBps * X \in Nat
      BY <1>1, <1>2, <1>9, ProductNat
  <2> QED BY <1>8, <1>10, <2>1
<1> QED BY <1>7, <1>11 DEF debtWorth, collateralWorth, B, X, S

\* The same with the share rounded up: one base unit more.
LEMMA ThroughARoundingUp ==
    ASSUME NEW x \in Nat, NEW v \in Nat, NEW m \in Nat, NEW b \in Nat,
           NEW px \in Nat, NEW pb \in Nat, NEW ux \in Nat, NEW ub \in Nat,
           NEW S \in Nat, NEW k \in Nat,
           v * ux <= x * px, m * S <= v * k + S, b * pb <= m * ub
    PROVE  (b * pb * ux) * S <= (x * px * ub) * k + (ub * ux) * S
<1>1. (b * pb) * (ux * S) <= (m * ub) * (ux * S)
    BY ProductNat, Scaled
<1>2. v * k + S \in Nat /\ m * S \in Nat /\ ub * ux \in Nat
    BY ProductNat
<1>3. (m * S) * (ub * ux) <= (v * k + S) * (ub * ux)
    BY <1>2, Scaled
<1>4. (v * ux) * (k * ub) <= (x * px) * (k * ub)
    BY ProductNat, Scaled
<1>5. /\ (b * pb) * (ux * S) = (b * pb * ux) * S
      /\ (m * ub) * (ux * S) = (m * S) * (ub * ux)
      /\ (v * k + S) * (ub * ux) = (v * ux) * (k * ub) + (ub * ux) * S
      /\ (x * px) * (k * ub) = (x * px * ub) * k
    OBVIOUS
<1>6. /\ (b * pb * ux) * S \in Nat /\ (m * S) * (ub * ux) \in Nat
      /\ (v * ux) * (k * ub) \in Nat /\ (x * px * ub) * k \in Nat
      /\ (ub * ux) * S \in Nat
    BY ProductNat
<1> QED BY <1>1, <1>3, <1>4, <1>5, <1>6

LEMMA DecreaseEarns ==
    ASSUME TypeOK, NEW x \in Nat, decreaseLeverage(x, 0)
    PROVE  (collateralWorth(collateral - collateral') - debtWorth(x) - baseWorth(1))
               * OneHundredPercentBps
              <= maxSubsidyBps * debtWorth(x)
<1> DEFINE S == OneHundredPercentBps
           v == debtBase(x)
           m == getCollateralWithdrawAmountInBaseToDecreaseLeverage(v, currentSubsidyBps)
           b == withdrawnFor(x)
           w == Min2(b, collateral)
           W == w * collateralPrice * DebtUnit
           X == x * debtPrice * CollateralUnit
           U == CollateralUnit * DebtUnit
<1>1. /\ S \in Nat \ {0} /\ collateralPrice \in Nat \ {0} /\ debtPrice \in Nat \ {0}
      /\ CollateralUnit \in Nat \ {0} /\ DebtUnit \in Nat \ {0}
    BY UnitsAndPrices
<1>2. currentSubsidyBps \in Nat /\ currentSubsidyBps <= maxSubsidyBps /\ maxSubsidyBps \in Nat
    BY SubsidyType DEF decreaseLeverage, TypeOK
<1>3. v \in Nat /\ v * DebtUnit <= x * debtPrice
    BY <1>1, MulDivBounds DEF debtBase
<1>4. S + currentSubsidyBps \in Nat /\ v * (S + currentSubsidyBps) \in Nat
    BY <1>1, <1>2, <1>3, ProductNat
<1>5. m \in Nat /\ m * S <= v * (S + currentSubsidyBps) + S
  <2>1. m \in Nat /\ m * S < v * (S + currentSubsidyBps) + S
      BY <1>1, <1>3, <1>4, MulDivUpBounds DEF getCollateralWithdrawAmountInBaseToDecreaseLeverage
  <2> HIDE DEF m, v, S
  <2>2. m * S \in Nat
      BY <1>1, <2>1, ProductNat
  <2> QED BY <1>1, <1>4, <2>1, <2>2
<1>6. b \in Nat /\ b * collateralPrice <= m * CollateralUnit
    BY <1>1, <1>5, MulDivBounds DEF withdrawnFor, toCollateral, convertFromBaseCurrencyToToken
<1>7. collateral' = collateral - w /\ collateral \in Nat
    BY DEF decreaseLeverage, TypeOK
<1> HIDE DEF S, v, m, b
<1>8. w \in Nat /\ w <= b
    BY <1>6, <1>7 DEF Min2
<1> HIDE DEF w
<1>9. w * collateralPrice <= m * CollateralUnit
  <2>1. w * collateralPrice <= b * collateralPrice
      BY <1>1, <1>6, <1>8, Scaled
  <2> QED BY <1>1, <1>5, <1>6, <1>8, <2>1, ProductNat
<1>10. W * S <= X * (S + currentSubsidyBps) + U * S
    BY <1>1, <1>3, <1>4, <1>5, <1>8, <1>9, ThroughARoundingUp
<1>11. W \in Nat /\ X \in Nat /\ U \in Nat
    BY <1>1, <1>8, ProductNat
<1>12. collateral - collateral' = w
    BY <1>7, <1>8
<1> HIDE DEF W, X, U
<1>13. X * currentSubsidyBps <= maxSubsidyBps * X
    BY <1>2, <1>11, Scaled
<1>14. (W - X - U) * S <= maxSubsidyBps * X
  <2>1. /\ (W - X - U) * S = W * S - X * S - U * S
        /\ X * (S + currentSubsidyBps) = X * S + X * currentSubsidyBps
        /\ W * S \in Nat /\ X * S \in Nat /\ U * S \in Nat
        /\ X * currentSubsidyBps \in Nat /\ maxSubsidyBps * X \in Nat
      BY <1>1, <1>2, <1>11, ProductNat
  <2> QED BY <1>10, <1>13, <2>1
<1>15. baseWorth(1) = U
    BY <1>1 DEF baseWorth, U
<1> QED BY <1>12, <1>14, <1>15 DEF debtWorth, collateralWorth, W, X, S

\* No history of positions, prices and settings lets a caller take more than the
\* maximal subsidy from the holders.
THEOREM SubsidyIsBounded == Spec => CallerEarnsAtMostSubsidy
<1> DEFINE Bounded ==
        UNCHANGED totalShares =>
          \A amount \in Amounts :
             /\ collateral' > collateral /\ increaseLeverage(amount, 0) =>
                   (debtWorth(debt' - debt) - collateralWorth(amount)) * OneHundredPercentBps
                      <= maxSubsidyBps * collateralWorth(amount)
             /\ collateral' < collateral /\ decreaseLeverage(amount, 0) =>
                   (collateralWorth(collateral - collateral') - debtWorth(amount) - baseWorth(1))
                         * OneHundredPercentBps
                      <= maxSubsidyBps * debtWorth(amount)
<1>1. TypeOK => Bounded
  <2>1. \A amount \in Amounts : amount \in Nat
      BY DLoopAssumption DEF DLoopAssumption
  <2> QED BY <2>1, IncreaseEarns, DecreaseEarns
<1>2. TypeOK => [Bounded]_vars
    BY <1>1
<1>3. Spec => []TypeOK
    BY TypeCorrect
<1> QED BY <1>2, <1>3, PTL DEF CallerEarnsAtMostSubsidy

-----------------------------------------------------------------------------
(* The other holders' collateral *)

LEMMA TotalsTypes ==
    ASSUME TypeOK
    PROVE  /\ totalShares \in Nat /\ totalAssets \in Nat
           /\ totalShares + 1 \in Nat \ {0} /\ totalAssets + 1 \in Nat \ {0}
<1>1. NumHolders \in Nat /\ sharesOf \in [1..NumHolders -> Nat]
    BY DLoopAssumption DEF DLoopAssumption, TypeOK, Holders
<1>2. totalShares \in Nat
    BY <1>1, SumNat DEF TypeOK
<1> QED BY <1>2, BaseTypes

\* What is left after the fee says how much there was.
LEMMA NetBoundsGross ==
    ASSUME BpsAssumption, NEW x \in Nat, NEW f \in Nat, f <= OneHundredPercentBps,
           NEW n \in Nat, n <= netAfterFee(x, f)
    PROVE  n * OneHundredPercentBps - (OneHundredPercentBps - 1) <= x * (OneHundredPercentBps - f)
<1> DEFINE S == OneHundredPercentBps
           q == mulDiv(x, f, S)
<1>1. S \in Nat \ {0}
    BY DEF BpsAssumption
<1>2. CASE f = S
  <2>1. n = 0
      BY <1>1, <1>2 DEF netAfterFee, calculateWithdrawalFee
  <2> QED BY <1>1, <1>2, <2>1
<1>3. CASE f < S
  <2>1. q \in Nat /\ x * f < q * S + S
      BY <1>1, MulDivBounds
  <2>2. n <= x - q
      BY <1>1, <1>3 DEF netAfterFee, calculateWithdrawalFee
  <2> HIDE DEF q, S
  <2>3. n + q <= x
      BY <2>1, <2>2
  <2>4. (n + q) * S <= x * S
      BY <1>1, <2>1, <2>3, Scaled
  <2>5. /\ (n + q) * S = n * S + q * S /\ x * (S - f) = x * S - x * f
        /\ n * S \in Nat /\ q * S \in Nat /\ x * S \in Nat /\ x * f \in Nat
      BY <1>1, <2>1, ProductNat
  <2>6. n * S - (S - 1) <= x * (S - f)
      BY <1>1, <2>1, <2>4, <2>5
  <2> QED BY <2>6 DEF S
<1> QED BY <1>1, <1>2, <1>3

\* The gross amount for a net amount leaves at least that.
LEMMA GrossBoundsNet ==
    ASSUME BpsAssumption, NEW n \in Nat, NEW f \in Nat, f < OneHundredPercentBps
    PROVE  n * OneHundredPercentBps - (OneHundredPercentBps - 1)
              <= grossFromNet(n, f) * (OneHundredPercentBps - f)
<1> DEFINE S == OneHundredPercentBps
           g == grossRoundedUp(n, f)
<1>1. S \in Nat \ {0} /\ S - f \in Nat \ {0}
    BY DEF BpsAssumption
<1>2. g \in Nat /\ n * S <= g * (S - f) /\ n * S \in Nat
    BY <1>1, MulDivUpBounds, ProductNat DEF grossRoundedUp
<1>3. grossFromNet(n, f) \in Nat
    BY GrossType
<1>4. CASE n <= netAfterFee(grossFromNet(n, f), f)
    BY <1>3, <1>4, NetBoundsGross
<1>5. CASE grossFromNet(n, f) = g
  <2> HIDE DEF g, S
  <2>1. g * (S - f) \in Nat
      BY <1>1, <1>2, ProductNat
  <2>2. n * S - (S - 1) <= g * (S - f)
      BY <1>1, <1>2, <2>1
  <2> QED BY <1>5, <2>2 DEF S
<1>6. CASE n = 0
  <2>1. grossFromNet(n, f) = 0
      BY <1>6 DEF grossFromNet
  <2> QED BY <1>1, <1>6, <2>1
<1>7. CASE n # 0 /\ f = 0
  <2>1. grossFromNet(n, f) = n
      BY <1>7 DEF grossFromNet
  <2> QED BY <1>1, <1>2, <1>7, <2>1
<1>8. CASE n # 0 /\ f # 0 /\ grossFromNet(n, f) # g
  <2>1. grossFromNet(n, f) = g - 1 /\ netAfterFee(g - 1, f) >= n
      BY <1>8 DEF grossFromNet
  <2>2. netAfterFee(g - 1, f) \in Nat
      BY <1>3, <2>1, NetType
  <2>3. n <= netAfterFee(grossFromNet(n, f), f)
      BY <2>1, <2>2
  <2> QED BY <1>4, <2>3
<1> QED BY <1>5, <1>6, <1>7, <1>8

LEMMA DepositBrings ==
    ASSUME TypeOK, NEW h \in Holders, NEW assets \in Nat, NEW shares \in Nat,
           TakeDeposit(h, assets, shares),
           shares * (totalAssets + 1) <= assets * (totalShares + 1)
    PROVE  /\ totalShares' > totalShares
           /\ (totalShares' - totalShares) * (totalAssets + 1)
                <= (collateral' - collateral) * (totalShares + 1)
<1>1. /\ totalShares' = totalShares + shares /\ collateral' = collateral + assets
      /\ shares # 0
    BY DEF TakeDeposit
<1>2. totalShares \in Nat /\ collateral \in Nat
    BY TotalsTypes DEF TypeOK
<1>3. totalShares' - totalShares = shares /\ collateral' - collateral = assets
    BY <1>1, <1>2
<1> QED BY <1>1, <1>2, <1>3

\* gross is what the shares stand for, before the fee.
LEMMA WithdrawalTakes ==
    ASSUME TypeOK, NEW h \in Holders, NEW assets \in Nat, NEW shares \in Nat,
           PayWithdrawal(h, assets, shares),
           withdrawalFeeBps <= OneHundredPercentBps,
           NEW gross \in Nat,
           gross * (totalShares + 1) <= shares * (totalAssets + 1),
           assets * OneHundredPercentBps - (OneHundredPercentBps - 1)
               <= gross * (OneHundredPercentBps - withdrawalFeeBps)
    PROVE  /\ totalShares' <= totalShares
           /\ ((collateral - collateral') * OneHundredPercentBps - (OneHundredPercentBps - 1))
                   * (totalShares + 1)
                <= (totalShares - totalShares') * (totalAssets + 1)
                   * (OneHundredPercentBps - withdrawalFeeBps)
<1> DEFINE S == OneHundredPercentBps
           R == OneHundredPercentBps - withdrawalFeeBps
           T == totalShares + 1
           A == totalAssets + 1
           w == Min2(assets, collateral)
<1>1. /\ totalShares \in Nat /\ T \in Nat /\ A \in Nat /\ S \in Nat \ {0}
      /\ R \in Nat /\ collateral \in Nat
  <2>1. withdrawalFeeBps \in Nat /\ collateral \in Nat
      BY DEF TypeOK
  <2> QED BY <2>1, TotalsTypes, UnitsAndPrices
<1>2. totalShares' = totalShares - shares /\ collateral' = collateral - w
    BY DEF PayWithdrawal
<1>3. w \in Nat /\ w <= assets
    BY <1>1 DEF Min2
<1>4. totalShares - totalShares' = shares /\ collateral - collateral' = w
      /\ totalShares' <= totalShares
  <2> HIDE DEF w
  <2> QED BY <1>1, <1>2, <1>3
<1>5. gross * T <= shares * A /\ assets * S - (S - 1) <= gross * R
    OBVIOUS
<1> HIDE DEF S, R, T, A, w
<1>6. w * S <= assets * S /\ w * S \in Nat /\ assets * S \in Nat /\ gross * R \in Nat
    BY <1>1, <1>3, Scaled, ProductNat
<1>7. w * S - (S - 1) <= gross * R
    BY <1>1, <1>5, <1>6
<1>8. (w * S - (S - 1)) * T <= (gross * R) * T
    BY <1>1, <1>6, <1>7
<1>9. (gross * T) * R <= (shares * A) * R
    BY <1>1, <1>5, ProductNat, Scaled
<1>10. (gross * R) * T = (gross * T) * R /\ (gross * R) * T \in Nat
       /\ (shares * A) * R \in Nat /\ (w * S - (S - 1)) * T \in Int
    BY <1>1, <1>6, ProductNat
<1>11. (w * S - (S - 1)) * T <= (shares * A) * R
    BY <1>8, <1>9, <1>10
<1> QED BY <1>4, <1>11 DEF S, R, T, A

DepositsBring ==
    totalShares' > totalShares =>
        (totalShares' - totalShares) * (totalAssets + 1)
            <= (collateral' - collateral) * (totalShares + 1)
WithdrawalsTake ==
    totalShares' < totalShares /\ collateral' < collateral =>
        ((collateral - collateral') * OneHundredPercentBps - (OneHundredPercentBps - 1))
               * (totalShares + 1)
            <= (totalShares - totalShares') * (totalAssets + 1)
               * (OneHundredPercentBps - withdrawalFeeBps)

LEMMA TotalsCompare ==
    ASSUME TypeOK, TypeOK'
    PROVE  /\ totalShares \in Nat /\ totalShares' \in Nat
           /\ collateral \in Nat /\ collateral' \in Nat
<1>1. NumHolders \in Nat /\ sharesOf \in [1..NumHolders -> Nat]
      /\ sharesOf' \in [1..NumHolders -> Nat]
    BY DLoopAssumption DEF DLoopAssumption, TypeOK, Holders
<1>2. totalShares \in Nat /\ totalShares' \in Nat
    BY <1>1, SumNat DEF TypeOK
<1> QED BY <1>2 DEF TypeOK

LEMMA UsersKeepShares ==
    ASSUME TypeOK, TypeOK', Users
    PROVE  DepositsBring /\ WithdrawalsTake
<1>1. PICK h \in Holders, amount \in Amounts :
          \/ deposit(h, amount)  \/ mint(h, amount)
          \/ withdraw(h, amount) \/ redeem(h, amount)
          \/ compoundRewards(h, amount)
    BY DEF Users
<1>2. amount \in Nat /\ withdrawalFeeBps \in Nat
    BY DLoopAssumption DEF DLoopAssumption, TypeOK
<1>3. /\ totalShares \in Nat /\ totalShares' \in Nat
      /\ collateral \in Nat /\ collateral' \in Nat
    BY TotalsCompare
<1>4. ~ (totalShares' > totalShares /\ totalShares' <= totalShares)
      /\ ~ (totalShares' > totalShares /\ totalShares' < totalShares)
    BY <1>3
<1>5. totalShares + 1 \in Nat \ {0} /\ totalAssets + 1 \in Nat \ {0}
    BY TotalsTypes
<1>6. CASE deposit(h, amount)
  <2>1. convertToShares(amount) \in Nat
        /\ convertToShares(amount) * (totalAssets + 1) <= amount * (totalShares + 1)
      BY <1>2, <1>5, MulDivBounds DEF convertToShares
  <2> QED BY <1>2, <1>4, <1>6, <2>1, DepositBrings DEF deposit, DepositsBring, WithdrawalsTake
<1>7. CASE mint(h, amount)
  <2>1. convertToAssetsUp(amount) \in Nat
        /\ amount * (totalAssets + 1) <= convertToAssetsUp(amount) * (totalShares + 1)
      BY <1>2, <1>5, MulDivUpBounds DEF convertToAssetsUp
  <2> QED BY <1>2, <1>4, <1>7, <2>1, DepositBrings DEF mint, DepositsBring, WithdrawalsTake
<1>8. CASE withdraw(h, amount)
  <2> DEFINE g == grossFromNet(amount, withdrawalFeeBps)
  <2>1. withdrawalFeeBps < OneHundredPercentBps /\ withdrawalFeeBps <= OneHundredPercentBps
      BY <1>2, <1>8, BpsAssumption DEF withdraw, BpsAssumption
  <2>2. g \in Nat
        /\ amount * OneHundredPercentBps - (OneHundredPercentBps - 1)
              <= g * (OneHundredPercentBps - withdrawalFeeBps)
      BY <1>2, <2>1, BpsAssumption, GrossType, GrossBoundsNet
  <2>3. convertToSharesUp(g) \in Nat
        /\ g * (totalShares + 1) <= convertToSharesUp(g) * (totalAssets + 1)
      BY <1>5, <2>2, MulDivUpBounds DEF convertToSharesUp
  <2>4. PayWithdrawal(h, amount, convertToSharesUp(g))
      BY <1>8 DEF withdraw, previewWithdraw
  <2> HIDE DEF g
  <2> QED BY <1>2, <1>4, <2>1, <2>2, <2>3, <2>4, WithdrawalTakes
          DEF DepositsBring, WithdrawalsTake
<1>9. CASE redeem(h, amount)
  <2> DEFINE g == convertToAssets(amount)
             n == netAfterFee(g, withdrawalFeeBps)
  <2>1. withdrawalFeeBps <= OneHundredPercentBps
      BY <1>9 DEF redeem
  <2>2. g \in Nat /\ g * (totalShares + 1) <= amount * (totalAssets + 1)
      BY <1>2, <1>5, MulDivBounds DEF convertToAssets
  <2>3. n \in Nat
      BY <1>2, <2>2, BpsAssumption, NetType
  <2>4. PayWithdrawal(h, n, amount)
      BY <1>9 DEF redeem, previewRedeem
  <2> HIDE DEF g
  <2>5. n * OneHundredPercentBps - (OneHundredPercentBps - 1)
            <= g * (OneHundredPercentBps - withdrawalFeeBps)
      BY <1>2, <2>1, <2>2, <2>3, BpsAssumption, NetBoundsGross
  <2> HIDE DEF n
  <2> QED BY <1>2, <1>4, <2>1, <2>2, <2>3, <2>4, <2>5, WithdrawalTakes
          DEF DepositsBring, WithdrawalsTake
<1>10. CASE compoundRewards(h, amount)
  <2>1. totalShares' = totalShares - amount /\ collateral' = collateral
      BY <1>10 DEF compoundRewards, position
  <2>2. ~ (totalShares' > totalShares) /\ ~ (collateral' < collateral)
      BY <1>2, <1>3, <2>1
  <2> QED BY <2>2 DEF DepositsBring, WithdrawalsTake
<1> QED BY <1>1, <1>6, <1>7, <1>8, <1>9, <1>10

\* Whoever comes or goes, rounding and fee are in favour of those who stay: a
\* deposit brings what its shares stand for, a withdrawal takes that less the fee.
THEOREM SharesAreKept == Spec => HoldersKeepTheirShare
<1>1. TypeOK /\ TypeOK' /\ [Next]_vars => DepositsBring /\ WithdrawalsTake
  <2>1. ASSUME TypeOK, TypeOK', UNCHANGED shareVars PROVE DepositsBring /\ WithdrawalsTake
    <3>1. totalShares' = totalShares /\ totalShares \in Nat
        BY <2>1, TotalsCompare DEF shareVars
    <3> QED BY <3>1 DEF DepositsBring, WithdrawalsTake
  <2>2. Rebalancers \/ Admin \/ Market \/ UNCHANGED vars => UNCHANGED shareVars
      BY DEF Rebalancers, Admin, Market, vars, increaseLeverage, decreaseLeverage
  <2> QED BY <2>1, <2>2, UsersKeepShares DEF Next
<1>2. TypeOK /\ TypeOK' /\ [Next]_vars => [DepositsBring /\ WithdrawalsTake]_vars
    BY <1>1
<1>3. Spec => []TypeOK
    BY TypeCorrect
<1>4. Spec => [][DepositsBring /\ WithdrawalsTake]_vars
    BY <1>2, <1>3, PTL DEF Spec
<1> QED BY <1>4, PTL DEF HoldersKeepTheirShare, DepositsBring, WithdrawalsTake

-----------------------------------------------------------------------------
(* The debt that goes with the collateral *)

LEMMA BaseGrows ==
    ASSUME TypeOK, NEW x \in Nat, NEW y \in Nat, x <= y
    PROVE  collateralBase(x) <= collateralBase(y)
<1> DEFINE q == mulDiv(x, collateralPrice, CollateralUnit)
<1>1. collateralPrice \in Nat /\ CollateralUnit \in Nat \ {0}
    BY UnitsAndPrices
<1>2. q \in Nat /\ q * CollateralUnit <= x * collateralPrice
    BY <1>1, MulDivBounds
<1> HIDE DEF q
<1>3. /\ x * collateralPrice <= y * collateralPrice
      /\ x * collateralPrice \in Nat /\ y * collateralPrice \in Nat /\ q * CollateralUnit \in Nat
    BY <1>1, <1>2, Scaled, ProductNat
<1>4. q * CollateralUnit <= y * collateralPrice
    BY <1>2, <1>3
<1>5. q <= mulDiv(y, collateralPrice, CollateralUnit)
    BY <1>1, <1>2, <1>4, MulDivAtLeast
<1> QED BY <1>5 DEF collateralBase, q

\* How the leverage brackets the ratio of debt and collateral. Without equity the
\* leverage is the greatest number there is, which is beyond the square of the scale.
LEMMA LeverageBrackets ==
    ASSUME TypeOK, LeverageKnown(collateral, debt), collateralBase(collateral) # 0,
           MaxUint >= OneHundredPercentBps * OneHundredPercentBps
    PROVE  LET S  == OneHundredPercentBps
               L  == currentLeverageBps
               cb == collateralBase(collateral)
               db == debtBase(debt)
           IN  /\ L \in Nat \ {0} /\ S <= L /\ db <= cb
               /\ cb * (L - S) <= L * db
               /\ L * (db * (S - 1) - cb) <= (S - 1) * (cb * (L - S))
<1> DEFINE S  == OneHundredPercentBps
           L  == currentLeverageBps
           cb == collateralBase(collateral)
           db == debtBase(debt)
           e  == cb - db
<1>1. cb \in Nat \ {0} /\ db \in Nat /\ db <= cb /\ S \in Nat \ {0} /\ e \in Nat
    BY BaseTypes, UnitsAndPrices DEF LeverageKnown, HasLeverage
<1>2. L = IF cb = db THEN MaxUint ELSE mulDiv(cb, S, e)
    BY DEF currentLeverageBps, leverageOf, leverageBps
<1>3. MaxUint \in Nat /\ MaxUint >= S * S /\ MaxUint >= S
    BY MaxUintAssumption DEF MaxUintAssumption
<1>4. L \in Nat \ {0} /\ S <= L
  <2>1. L # 0
    <3>1. CASE cb = db
        BY <1>1, <1>2, <1>3, <3>1
    <3>2. CASE cb # db
      <4>1. e \in Nat \ {0} /\ 1 * e <= cb * S
        <5>1. cb * 1 <= cb * S
            BY <1>1
        <5>2. e # 0 /\ e <= cb
            BY <1>1, <3>2
        <5> QED BY <1>1, <5>1, <5>2
      <4>2. 1 <= mulDiv(cb, S, e)
          BY <1>1, <4>1, MulDivAtLeast
      <4> QED BY <1>2, <3>2, <4>2
    <3> QED BY <3>1, <3>2
  <2> QED BY <2>1, CurrentLeverage
<1> HIDE DEF S, L, cb, db
<1>5. db = cb - e /\ e <= cb
    BY <1>1 DEF e
<1> HIDE DEF e
<1>6. /\ cb * (L - S) = cb * L - cb * S /\ L * db = cb * L - L * e
      /\ L * (db * (S - 1) - cb) = (L * db) * (S - 1) - L * cb
      /\ (S - 1) * (cb * (L - S)) = (cb * L) * (S - 1) - (cb * S) * (S - 1)
      /\ (L * db) * (S - 1) = (cb * L) * (S - 1) - (L * e) * (S - 1)
      /\ cb * L \in Nat /\ cb * S \in Nat /\ L * e \in Nat /\ L * cb = cb * L
    BY <1>1, <1>4, <1>5
<1>7. CASE e = 0
  <2>1. cb * (L - S) <= L * db
    <3>1. L * e = 0
        BY <1>1, <1>4, <1>7
    <3> QED BY <1>6, <3>1
  <2>2. S * S <= L
      BY <1>1, <1>2, <1>3, <1>5, <1>7
  <2>3. cb * S * (S - 1) <= cb * L
    <3>1. S * (S - 1) = S * S - S /\ S * S \in Nat
        BY <1>1
    <3>2. S * (S - 1) <= L /\ S * (S - 1) \in Nat
        BY <1>1, <1>4, <2>2, <3>1
    <3>3. (S * (S - 1)) * cb <= L * cb
        BY <1>1, <1>4, <3>2, Scaled
    <3>4. (S * (S - 1)) * cb = cb * S * (S - 1)
        BY <1>1
    <3> QED BY <1>6, <3>3, <3>4
  <2>4. L * e = 0 /\ (L * e) * (S - 1) = 0
      BY <1>1, <1>4, <1>7
  <2>5. (cb * L) * (S - 1) \in Nat /\ (cb * S) * (S - 1) \in Nat
      BY <1>1, <1>6, ProductNat
  <2>6. L * (db * (S - 1) - cb) <= (S - 1) * (cb * (L - S))
      BY <1>6, <2>3, <2>4, <2>5
  <2> QED BY <1>1, <1>4, <2>1, <2>6 DEF S, L, cb, db
<1>8. CASE e # 0
  <2>1. L = mulDiv(cb, S, e) /\ e \in Nat \ {0}
      BY <1>1, <1>2, <1>5, <1>8
  <2>2. L * e <= cb * S /\ cb * S < L * e + e
      BY <1>1, <2>1, MulDivBounds
  <2>3. cb * (L - S) <= L * db
      BY <1>6, <2>2
  <2>4. cb * S - L * e <= e /\ e * (S - 1) <= cb * L
    <3>1. e * (S - 1) <= cb * (S - 1) /\ (S - 1) * cb <= L * cb
        BY <1>1, <1>4, <1>5, Scaled
    <3>2. cb * (S - 1) = (S - 1) * cb
        BY <1>1
    <3> QED BY <1>1, <1>4, <1>6, <2>2, <3>1, <3>2, ProductNat
  <2>5. (cb * S) * (S - 1) - (L * e) * (S - 1) <= cb * L
    <3>1. (cb * S - L * e) * (S - 1) = (cb * S) * (S - 1) - (L * e) * (S - 1)
        BY <1>1, <1>6
    <3>2. cb * S - L * e \in Nat /\ S - 1 \in Nat
        BY <1>1, <1>6, <2>2
    <3>3. (cb * S - L * e) * (S - 1) <= e * (S - 1)
        BY <1>1, <2>4, <3>2, Scaled
    <3> QED BY <1>1, <1>6, <2>4, <3>1, <3>2, <3>3, ProductNat
  <2>6. (cb * L) * (S - 1) \in Nat /\ (cb * S) * (S - 1) \in Nat /\ (L * e) * (S - 1) \in Nat
      BY <1>1, <1>6, ProductNat
  <2>7. L * (db * (S - 1) - cb) <= (S - 1) * (cb * (L - S))
      BY <1>6, <2>5, <2>6
  <2> QED BY <1>1, <1>4, <2>3, <2>7 DEF S, L, cb, db
<1> QED BY <1>7, <1>8

\* b debt tokens for a collateral tokens: s and v are the base values between.
LEMMA BorrowedInProportion ==
    ASSUME NEW b \in Nat, NEW s \in Nat, NEW v \in Nat, NEW a \in Nat,
           NEW pd \in Nat, NEW ud \in Nat, NEW pc \in Nat, NEW uc \in Nat,
           NEW cb \in Nat, NEW db \in Nat, NEW L \in Nat \ {0}, NEW S \in Nat, S <= L,
           b * pd <= s * ud, s * L <= v * (L - S), v * uc <= a * pc,
           cb * (L - S) <= L * db
    PROVE  (b * pd * uc) * cb <= (a * pc * ud) * db
<1>1. s * cb <= v * db
  <2>1. L - S \in Nat
      OBVIOUS
  <2>2. (s * L) * cb <= (v * (L - S)) * cb
      BY <2>1, ProductNat, Scaled
  <2>3. (cb * (L - S)) * v <= (L * db) * v
      BY <2>1, ProductNat, Scaled
  <2>4. /\ (s * L) * cb = (s * cb) * L /\ (L * db) * v = (v * db) * L
        /\ (v * (L - S)) * cb = (cb * (L - S)) * v
      OBVIOUS
  <2>5. s * cb \in Nat /\ v * db \in Nat
        /\ (cb * (L - S)) * v \in Nat /\ (s * cb) * L \in Nat /\ (v * db) * L \in Nat
      BY <2>1, ProductNat
  <2>6. (s * cb) * L <= (v * db) * L
      BY <2>2, <2>3, <2>4, <2>5
  <2> DEFINE x == s * cb
             y == v * db
  <2>7. x \in Nat /\ y \in Nat /\ x * L <= y * L
      BY <2>5, <2>6
  <2> HIDE DEF x, y
  <2>8. x <= y
      BY <2>7
  <2> QED BY <2>8 DEF x, y
<1>2. (b * pd) * (uc * cb) <= (s * ud) * (uc * cb)
    BY ProductNat, Scaled
<1>3. (s * cb) * (ud * uc) <= (v * db) * (ud * uc)
    BY <1>1, ProductNat, Scaled
<1>4. (v * uc) * (db * ud) <= (a * pc) * (db * ud)
    BY ProductNat, Scaled
<1>5. /\ (b * pd) * (uc * cb) = (b * pd * uc) * cb
      /\ (s * ud) * (uc * cb) = (s * cb) * (ud * uc)
      /\ (v * db) * (ud * uc) = (v * uc) * (db * ud)
      /\ (a * pc) * (db * ud) = (a * pc * ud) * db
    OBVIOUS
<1>6. /\ (b * pd * uc) * cb \in Nat /\ (s * cb) * (ud * uc) \in Nat
      /\ (v * uc) * (db * ud) \in Nat /\ (a * pc * ud) * db \in Nat
    BY ProductNat
<1> QED BY <1>2, <1>3, <1>4, <1>5, <1>6

LEMMA DepositBorrows ==
    ASSUME TypeOK, NEW h \in Holders, NEW assets \in Nat, NEW shares \in Nat,
           TakeDeposit(h, assets, shares), collateralBase(collateral) # 0,
           MaxUint >= OneHundredPercentBps * OneHundredPercentBps
    PROVE  debtWorth(debt' - debt) * collateralBase(collateral)
              <= collateralWorth(collateral' - collateral) * debtBase(debt)
<1> DEFINE S  == OneHundredPercentBps
           L  == currentLeverageBps
           cb == collateralBase(collateral)
           db == debtBase(debt)
           v  == collateralBase(assets)
           s  == debtShare(v, L)
           b  == borrowForDeposit(assets)
<1>1. /\ LeverageKnown(collateral, debt)
      /\ collateral' = collateral + assets /\ debt' = debt + b
      /\ collateral \in Nat /\ debt \in Nat
    BY DEF TakeDeposit, Balanced, TypeOK
<1>2. /\ L \in Nat \ {0} /\ S <= L /\ cb * (L - S) <= L * db
      /\ cb \in Nat /\ db \in Nat /\ S \in Nat
    BY <1>1, LeverageBrackets, BaseTypes, UnitsAndPrices
<1>3. /\ collateralPrice \in Nat \ {0} /\ debtPrice \in Nat \ {0}
      /\ CollateralUnit \in Nat \ {0} /\ DebtUnit \in Nat \ {0}
    BY UnitsAndPrices
<1>4. v \in Nat /\ v * CollateralUnit <= assets * collateralPrice
    BY <1>3, MulDivBounds DEF collateralBase
<1>5. s \in Nat /\ s * L <= v * (L - S)
  <2> HIDE DEF v, L, S
  <2>1. L - S \in Nat
      BY <1>2
  <2> QED BY <1>2, <1>4, <2>1, MulDivBounds DEF debtShare, S
<1>6. b \in Nat /\ b * debtPrice <= s * DebtUnit
  <2>1. b = toDebt(s)
      BY <1>2 DEF borrowForDeposit
  <2> HIDE DEF s, b
  <2> QED BY <1>3, <1>5, <2>1, MulDivBounds DEF toDebt, convertFromBaseCurrencyToToken
<1> HIDE DEF S, L, cb, db, v, s, b
<1>7. (b * debtPrice * CollateralUnit) * cb <= (assets * collateralPrice * DebtUnit) * db
    BY <1>2, <1>3, <1>4, <1>5, <1>6, BorrowedInProportion
<1>8. debt' - debt = b /\ collateral' - collateral = assets
    BY <1>1, <1>6
<1> QED BY <1>7, <1>8 DEF debtWorth, collateralWorth, cb, db

\* x is the base value repaid, rounded up: D is what is asked of each unit, over K.
LEMMA RepaidCovers ==
    ASSUME NEW r \in Nat, NEW pd \in Nat, NEW ud \in Nat, NEW uc \in Nat,
           NEW v \in Nat, NEW x \in Nat, NEW D \in Int, NEW K \in Nat,
           v * D <= x * K, x * ud <= (r + 1) * pd + ud
    PROVE  (v * uc * ud) * D <= ((r + 1) * pd * uc + 1 * uc * ud) * K
<1>1. (v * D) * (uc * ud) <= (x * K) * (uc * ud)
  <2> DEFINE a == v * D
             b == x * K
             u == uc * ud
  <2>1. a \in Int /\ b \in Int /\ u \in Nat /\ a <= b
      OBVIOUS
  <2> HIDE DEF a, b, u
  <2>2. a * u <= b * u
      BY <2>1
  <2> QED BY <2>2 DEF a, b, u
<1>2. (x * ud) * (uc * K) <= ((r + 1) * pd + ud) * (uc * K)
    BY ProductNat, Scaled
<1>3. /\ (v * D) * (uc * ud) = (v * uc * ud) * D
      /\ (x * K) * (uc * ud) = (x * ud) * (uc * K)
      /\ ((r + 1) * pd + ud) * (uc * K) = ((r + 1) * pd * uc + 1 * uc * ud) * K
    OBVIOUS
<1>4. /\ (v * D) * (uc * ud) \in Int /\ (x * ud) * (uc * K) \in Int
      /\ ((r + 1) * pd + ud) * (uc * K) \in Int
    OBVIOUS
<1> QED BY <1>1, <1>2, <1>3, <1>4

\* s is the debt that goes with the value va of what was asked, v <= va what leaves.
LEMMA ShareCoversValue ==
    ASSUME NEW v \in Nat, NEW va \in Nat, NEW s \in Nat, NEW cb \in Nat, NEW db \in Nat,
           NEW L \in Nat \ {0}, NEW S \in Nat \ {0}, S <= L, v <= va,
           va * (L - S) < s * L + L,
           L * (db * (S - 1) - cb) <= (S - 1) * (cb * (L - S))
    PROVE  v * (db * (S - 1) - cb) <= (s + 1) * (cb * (S - 1))
<1> DEFINE D == db * (S - 1) - cb
           K == cb * (S - 1)
<1>1. D \in Int /\ K \in Nat /\ L - S \in Nat /\ S - 1 \in Nat
    BY ProductNat
<1>2. (S - 1) * (cb * (L - S)) = (L - S) * K
    BY <1>1
<1>3. L * D <= (L - S) * K
    BY <1>2
<1> HIDE DEF D, K
<1>4. (L * D) * v <= ((L - S) * K) * v
  <2> DEFINE a == L * D
             b == (L - S) * K
  <2>1. a \in Int /\ b \in Int /\ a <= b
      BY <1>1, <1>3
  <2> HIDE DEF a, b
  <2>2. a * v <= b * v
      BY <2>1
  <2> QED BY <2>2 DEF a, b
<1>5. v * (L - S) <= (s + 1) * L
  <2>1. v * (L - S) <= va * (L - S)
      BY <1>1, Scaled
  <2>2. (s + 1) * L = s * L + L /\ va * (L - S) \in Nat /\ v * (L - S) \in Nat /\ s * L \in Nat
      BY <1>1, ProductNat
  <2> QED BY <2>1, <2>2
<1>6. (v * (L - S)) * K <= ((s + 1) * L) * K
    BY <1>1, <1>5, ProductNat, Scaled
<1>7. /\ (L * D) * v = (v * D) * L /\ ((L - S) * K) * v = (v * (L - S)) * K
      /\ ((s + 1) * L) * K = ((s + 1) * K) * L
    BY <1>1
<1> DEFINE x == v * D
           y == (s + 1) * K
<1>8. x \in Int /\ y \in Int /\ x * L \in Int /\ y * L \in Int /\ (v * (L - S)) * K \in Int
    BY <1>1
<1>9. x * L <= y * L
    BY <1>4, <1>6, <1>7, <1>8
<1> HIDE DEF x, y
<1>10. x <= y
    BY <1>8, <1>9
<1> QED BY <1>10 DEF x, y, D, K

\* Who pays the whole debt pays for all the collateral there is.
LEMMA DebtCoversValue ==
    ASSUME NEW v \in Nat, NEW cb \in Nat, NEW db \in Nat, NEW S \in Nat \ {0}, v <= cb
    PROVE  v * (db * (S - 1) - cb) <= db * (cb * (S - 1))
<1> DEFINE p == db * (S - 1)
<1>1. p \in Nat
    BY ProductNat
<1>2. db * (cb * (S - 1)) = p * cb
    OBVIOUS
<1> HIDE DEF p
<1>3. v * p <= cb * p /\ v * (p - cb) = v * p - v * cb /\ v * cb \in Nat
    BY <1>1, ProductNat, Scaled
<1> QED BY <1>1, <1>2, <1>3 DEF p

LEMMA WithdrawalRepays ==
    ASSUME TypeOK, NEW h \in Holders, NEW assets \in Nat, NEW shares \in Nat,
           PayWithdrawal(h, assets, shares),
           MaxUint >= OneHundredPercentBps * OneHundredPercentBps
    PROVE  baseWorth(collateralBase(collateral - collateral'))
                 * (debtBase(debt) * (OneHundredPercentBps - 1) - collateralBase(collateral))
              <= (debtWorth(debt - debt' + 1) + baseWorth(1))
                 * collateralBase(collateral) * (OneHundredPercentBps - 1)
<1> DEFINE S  == OneHundredPercentBps
           L  == currentLeverageBps
           cb == collateralBase(collateral)
           db == debtBase(debt)
           w  == Min2(assets, collateral)
           v  == collateralBase(w)
           va == collateralBase(assets)
           s  == debtShare(va, L)
           R  == repayForWithdrawal(assets)
           r  == Min2(R, debt)
<1>1. /\ LeverageKnown(collateral, debt)
      /\ collateral' = collateral - w /\ debt' = debt - r /\ r # 0
      /\ collateral \in Nat /\ debt \in Nat
    BY DEF PayWithdrawal, Balanced, TypeOK, CanRepay
<1>2. R \in Nat
    BY <1>1, FollowingDebtTypes
<1>3. w \in Nat /\ w <= assets /\ w <= collateral
    BY <1>1 DEF Min2
<1>4. r \in Nat /\ (r = R \/ r = debt)
    BY <1>1, <1>2 DEF Min2
<1>5. L # 0
  <2>1. R # 0
      BY <1>1, <1>2 DEF Min2
  <2> QED BY <2>1 DEF repayForWithdrawal
<1>6. cb # 0
    BY <1>5 DEF currentLeverageBps, leverageOf, leverageBps
<1>7. /\ L \in Nat \ {0} /\ S <= L
      /\ L * (db * (S - 1) - cb) <= (S - 1) * (cb * (L - S))
    BY <1>1, <1>6, LeverageBrackets
<1>8. /\ debtPrice \in Nat \ {0} /\ collateralPrice \in Nat \ {0}
      /\ CollateralUnit \in Nat \ {0} /\ DebtUnit \in Nat \ {0} /\ S \in Nat \ {0}
      /\ cb \in Nat /\ db \in Nat /\ v \in Nat /\ va \in Nat
    BY <1>3, BaseTypes, UnitsAndPrices
<1>9. v <= va /\ v <= cb
    BY <1>1, <1>3, BaseGrows
<1>10. s \in Nat /\ va * (L - S) < s * L + L
  <2> HIDE DEF va, L, S
  <2>1. L - S \in Nat
      BY <1>7, <1>8
  <2> QED BY <1>7, <1>8, <2>1, MulDivBounds DEF debtShare, S
<1>11. R = toDebt(s)
    BY <1>5 DEF repayForWithdrawal
<1>12. db * DebtUnit <= debt * debtPrice
    BY <1>1, <1>8, MulDivBounds DEF debtBase
<1>13. collateral - collateral' = w /\ debt - debt' = r
  <2> HIDE DEF w, r
  <2> QED BY <1>1, <1>3, <1>4
<1> DEFINE D == db * (S - 1) - cb
           K == cb * (S - 1)
<1>14. D \in Int /\ K \in Nat
  <2> HIDE DEF cb, db, S
  <2> QED BY <1>8, ProductNat
<1>15. (v * CollateralUnit * DebtUnit) * D
          <= ((r + 1) * debtPrice * CollateralUnit + 1 * CollateralUnit * DebtUnit) * K
  <2>1. CASE r = R
    <3> HIDE DEF S, L, cb, db, w, v, va, s, R, r
    <3>1. v * D <= (s + 1) * K
        BY <1>7, <1>8, <1>9, <1>10, ShareCoversValue
    <3>2. s * DebtUnit < r * debtPrice + debtPrice
        BY <1>8, <1>10, <1>11, <2>1, MulDivBounds DEF toDebt, convertFromBaseCurrencyToToken
    <3>3. (s + 1) * DebtUnit <= (r + 1) * debtPrice + DebtUnit
      <4>1. (s + 1) * DebtUnit = s * DebtUnit + DebtUnit /\ s * DebtUnit \in Nat
            /\ (r + 1) * debtPrice = r * debtPrice + debtPrice /\ r * debtPrice \in Nat
          BY <1>4, <1>8, <1>10, ProductNat
      <4> QED BY <1>8, <3>2, <4>1
    <3> HIDE DEF D, K
    <3>4. s + 1 \in Nat
        BY <1>10
    <3> QED BY <1>4, <1>8, <1>14, <3>1, <3>3, <3>4, RepaidCovers
  <2>2. CASE r = debt
    <3> HIDE DEF S, L, cb, db, w, v, va, s, R, r
    <3>1. v * D <= db * K
        BY <1>8, <1>9, DebtCoversValue
    <3>2. db * DebtUnit <= (r + 1) * debtPrice + DebtUnit
      <4>1. (r + 1) * debtPrice = r * debtPrice + debtPrice /\ r * debtPrice \in Nat
            /\ db * DebtUnit \in Nat
          BY <1>4, <1>8, ProductNat
      <4> QED BY <1>8, <1>12, <2>2, <4>1
    <3> HIDE DEF D, K
    <3> QED BY <1>4, <1>8, <1>14, <3>1, <3>2, RepaidCovers
  <2> QED BY <1>4, <2>1, <2>2
<1> HIDE DEF L, cb, db, w, v, va, s, R, r
<1>16. \A y \in Int : y * cb * (S - 1) = y * K
    BY <1>8
<1> HIDE DEF S, D, K
<1>17. (r + 1) * debtPrice * CollateralUnit + 1 * CollateralUnit * DebtUnit \in Int
    BY <1>4, <1>8
<1> QED BY <1>13, <1>15, <1>16, <1>17 DEF baseWorth, debtWorth, D, S, cb, db, v

DepositsBorrow ==
    totalShares' > totalShares /\ collateralBase(collateral) # 0 =>
        debtWorth(debt' - debt) * collateralBase(collateral)
            <= collateralWorth(collateral' - collateral) * debtBase(debt)
WithdrawalsRepay ==
    totalShares' < totalShares /\ collateral' < collateral =>
        baseWorth(collateralBase(collateral - collateral'))
               * (debtBase(debt) * (OneHundredPercentBps - 1) - collateralBase(collateral))
            <= (debtWorth(debt - debt' + 1) + baseWorth(1))
               * collateralBase(collateral) * (OneHundredPercentBps - 1)

LEMMA UsersMoveDebt ==
    ASSUME TypeOK, TypeOK', Users, MaxUint >= OneHundredPercentBps * OneHundredPercentBps
    PROVE  DepositsBorrow /\ WithdrawalsRepay
<1>1. PICK h \in Holders, amount \in Amounts :
          \/ deposit(h, amount)  \/ mint(h, amount)
          \/ withdraw(h, amount) \/ redeem(h, amount)
          \/ compoundRewards(h, amount)
    BY DEF Users
<1>2. amount \in Nat /\ withdrawalFeeBps \in Nat
    BY DLoopAssumption DEF DLoopAssumption, TypeOK
<1>3. /\ totalShares \in Nat /\ totalShares' \in Nat
      /\ collateral \in Nat /\ collateral' \in Nat
    BY TotalsCompare
<1>4. \A x, shares \in Nat :
          TakeDeposit(h, x, shares) => DepositsBorrow /\ WithdrawalsRepay
  <2> SUFFICES ASSUME NEW x \in Nat, NEW shares \in Nat, TakeDeposit(h, x, shares)
               PROVE  DepositsBorrow /\ WithdrawalsRepay
      OBVIOUS
  <2>1. ~ (totalShares' < totalShares)
      BY <1>3 DEF TakeDeposit
  <2> QED BY <2>1, DepositBorrows DEF DepositsBorrow, WithdrawalsRepay
<1>5. \A x, shares \in Nat :
          PayWithdrawal(h, x, shares) => DepositsBorrow /\ WithdrawalsRepay
  <2> SUFFICES ASSUME NEW x \in Nat, NEW shares \in Nat, PayWithdrawal(h, x, shares)
               PROVE  DepositsBorrow /\ WithdrawalsRepay
      OBVIOUS
  <2>1. ~ (totalShares' > totalShares)
      BY <1>3 DEF PayWithdrawal
  <2> QED BY <2>1, WithdrawalRepays DEF DepositsBorrow, WithdrawalsRepay
<1>6. CASE deposit(h, amount)
    BY <1>2, <1>4, <1>6, ConversionTypes DEF deposit
<1>7. CASE mint(h, amount)
    BY <1>2, <1>4, <1>7, ConversionTypes DEF mint
<1>8. CASE withdraw(h, amount)
  <2>1. grossFromNet(amount, withdrawalFeeBps) \in Nat
      BY <1>2, <1>8, BpsAssumption, GrossType DEF withdraw
  <2>2. previewWithdraw(amount) \in Nat
      BY <2>1, ConversionTypes DEF previewWithdraw
  <2> QED BY <1>2, <1>5, <1>8, <2>2 DEF withdraw
<1>9. CASE redeem(h, amount)
  <2>1. previewRedeem(amount) \in Nat
      BY <1>2, BpsAssumption, ConversionTypes, NetType DEF previewRedeem
  <2> QED BY <1>2, <1>5, <1>9, <2>1 DEF redeem
<1>10. CASE compoundRewards(h, amount)
  <2>1. totalShares' = totalShares - amount /\ collateral' = collateral
      BY <1>10 DEF compoundRewards, position
  <2>2. ~ (totalShares' > totalShares) /\ ~ (collateral' < collateral)
      BY <1>2, <1>3, <2>1
  <2> QED BY <2>2 DEF DepositsBorrow, WithdrawalsRepay
<1> QED BY <1>1, <1>6, <1>7, <1>8, <1>9, <1>10

\* A deposit borrows no more than the vault owes for as much collateral, and a
\* withdrawal pays back what it owes for it, but for a basis point of its value and
\* the two roundings: nobody leaves the others with more debt than goes with what
\* they keep. The leverage of a vault without equity must be large enough.
THEOREM DebtFollows ==
    ASSUME MaxUint >= OneHundredPercentBps * OneHundredPercentBps
    PROVE  Spec => DebtFollowsCollateral
<1>1. TypeOK /\ TypeOK' /\ [Next]_vars => DepositsBorrow /\ WithdrawalsRepay
  <2>1. ASSUME TypeOK, TypeOK', UNCHANGED shareVars PROVE DepositsBorrow /\ WithdrawalsRepay
    <3>1. totalShares' = totalShares /\ totalShares \in Nat
        BY <2>1, TotalsCompare DEF shareVars
    <3> QED BY <3>1 DEF DepositsBorrow, WithdrawalsRepay
  <2>2. Rebalancers \/ Admin \/ Market \/ UNCHANGED vars => UNCHANGED shareVars
      BY DEF Rebalancers, Admin, Market, vars, increaseLeverage, decreaseLeverage
  <2> QED BY <2>1, <2>2, UsersMoveDebt DEF Next
<1>2. TypeOK /\ TypeOK' /\ [Next]_vars => [DepositsBorrow /\ WithdrawalsRepay]_vars
    BY <1>1
<1>3. Spec => []TypeOK
    BY TypeCorrect
<1>4. Spec => [][DepositsBorrow /\ WithdrawalsRepay]_vars
    BY <1>2, <1>3, PTL DEF Spec
<1> QED BY <1>4, PTL DEF DebtFollowsCollateral, DepositsBorrow, WithdrawalsRepay


-----------------------------------------------------------------------------
(* The quote to raise the leverage *)

\* The position after the call, in base values: y came in, v was lent for it, and the
\* quote x, of which y is left, was rounded up. What is beyond the target is less than
\* the denominator of the quote.
LEMMA QuotedOvershoot ==
    ASSUME NEW S \in Nat \ {0}, NEW T \in Nat, T >= S, NEW s \in Nat, NEW k \in Nat,
           T * s = k * S,
           NEW c \in Nat, NEW d \in Nat, d <= c, c * S <= T * (c - d),
           NEW x \in Nat, x * (S + k) < T * (c - d) - c * S + (S + k),
           NEW y \in Nat, y <= x, NEW v \in Nat, v * S <= y * (S + s),
           NEW c1 \in Nat, c + y <= c1, NEW d1 \in Nat, d1 <= d + v
    PROVE  c1 * S < T * (c1 - d1) + (S + k)
<1>1. T * v <= T * y + k * y
  <2>1. (T * v) * S <= (T * y + k * y) * S
    <3>1. T * (v * S) <= T * (y * (S + s))
        BY ProductNat
    <3>2. T * (y * (S + s)) = (T * y) * S + (T * s) * y /\ T * (v * S) = (T * v) * S
        OBVIOUS
    <3>3. (T * y + k * y) * S = (T * y) * S + (k * S) * y
        OBVIOUS
    <3> QED BY <3>1, <3>2, <3>3
  <2>2. T * v \in Nat /\ T * y + k * y \in Nat
      BY ProductNat
  <2> QED BY <2>1, <2>2
<1>2. y * (S + k) <= x * (S + k)
    BY Scaled
<1>3. (T - S) * (c + y) <= (T - S) * c1
    BY ProductNat
<1>4. T * d1 <= T * d + T * v
  <2>1. T * d1 <= T * (d + v)
      OBVIOUS
  <2> QED BY <2>1
<1>5. /\ (T - S) * (c + y) = T * c + T * y - S * c - S * y
      /\ (T - S) * c1 = T * c1 - S * c1
      /\ y * (S + k) = S * y + k * y
      /\ T * (c - d) = T * c - T * d /\ T * (c1 - d1) = T * c1 - T * d1
      /\ c * S = S * c /\ c1 * S = S * c1
    OBVIOUS
<1>6. /\ T * c \in Nat /\ T * y \in Nat /\ S * c \in Nat /\ S * y \in Nat /\ T * c1 \in Nat
      /\ S * c1 \in Nat /\ k * y \in Nat /\ T * d \in Nat /\ T * d1 \in Nat /\ T * v \in Nat
      /\ x * (S + k) \in Nat
    BY ProductNat
<1> QED BY <1>1, <1>2, <1>3, <1>4, <1>5, <1>6

\* With so much collateral that overshoot is no whole basis point.
LEMMA OvershootVanishes ==
    ASSUME NEW S \in Nat \ {0}, NEW T \in Nat, T >= S, NEW D \in Nat \ {0},
           NEW c \in Nat, (T + 1) * (D - 1) < S * c,
           NEW c1 \in Nat, c <= c1, NEW e \in Int, c1 * S < T * e + D
    PROVE  e \in Nat \ {0} /\ mulDiv(c1, S, e) <= T
<1>1. S * c <= c1 * S /\ S * c \in Nat /\ c1 * S \in Nat
    BY ProductNat
<1>2. T * (D - 1) + (D - 1) < T * e + D
  <2>1. (T + 1) * (D - 1) = T * (D - 1) + (D - 1)
      OBVIOUS
  <2> QED BY <1>1, <2>1
<1>3. e >= D
  <2>1. SUFFICES ASSUME e <= D - 1 PROVE FALSE
      OBVIOUS
  <2>2. T * e <= T * (D - 1)
      BY <2>1
  <2>3. T * e \in Int /\ T * (D - 1) \in Int
      OBVIOUS
  <2> QED BY <1>2, <2>2, <2>3
<1>4. c1 * S < (T + 1) * e
  <2>1. (T + 1) * e = T * e + e /\ T * e \in Int
      OBVIOUS
  <2> QED BY <1>1, <1>3, <2>1
<1>5. e \in Nat \ {0}
    BY <1>3
<1> QED BY <1>4, <1>5, MulDivAtMost

\* Whoever brings the collateral he was quoted raises the leverage to the target at
\* most: for every position that is measured finely, and every price, unit and subsidy.
LEMMA QuoteStops == ASSUME TypeOK PROVE QuotedIncreaseStopsAtTarget
<1> DEFINE S == OneHundredPercentBps
           T == TargetLeverageBps
           s == currentSubsidyBps
           k == mulDiv(T, s, S)
           c == collateralBase(collateral)
           d == debtBase(debt)
           x == getCollateralTokenDepositAmountToReachTargetLeverage(T, c, d, s)
           q == quotedCollateral
           y == collateralBase(q)
           v == getDebtBorrowAmountInBaseToIncreaseLeverage(y, s)
           b == borrowedFor(q)
           c1 == collateralBase(collateral + q)
           d1 == debtBase(debt + b)
<1>1. SUFFICES ASSUME HasQuote, currentLeverageBps < T, MeasuredFinely, (T * s) % S = 0
               PROVE  /\ LeverageKnown(collateral + q, debt + b)
                      /\ leverageOf(collateral + q, debt + b) <= T
    BY DEF QuotedIncreaseStopsAtTarget
<1>2. /\ S \in Nat \ {0} /\ T \in Nat /\ T >= S
      /\ collateralPrice \in Nat \ {0} /\ debtPrice \in Nat \ {0}
      /\ CollateralUnit \in Nat \ {0} /\ DebtUnit \in Nat \ {0}
      /\ collateral \in Nat /\ debt \in Nat
    BY UnitsAndPrices DEF TypeOK
<1>3. c \in Nat /\ d \in Nat /\ c > d /\ LeverageKnown(collateral, debt)
    BY <1>1, BaseTypes DEF HasQuote, LeverageKnown, HasLeverage
<1>4. s \in Nat
    BY <1>3, SubsidyType
<1>5. k \in Nat /\ T * s = k * S
  <2>1. T * s \in Nat
      BY <1>2, <1>4, ProductNat
  <2>2. k = (T * s) \div S
      BY DEF mulDiv
  <2> HIDE DEF k, s, T, S
  <2> QED BY <1>1, <1>2, <2>1, <2>2
<1>6. c * S < T * (c - d)
  <2>1. currentLeverageBps = mulDiv(c, S, c - d)
      BY <1>3 DEF currentLeverageBps, leverageOf, leverageBps
  <2>2. c - d \in Nat \ {0}
      BY <1>3
  <2>3. mulDiv(c, S, c - d) \in Nat /\ c * S < mulDiv(c, S, c - d) * (c - d) + (c - d)
      BY <1>2, <1>3, <2>2, MulDivBounds
  <2> DEFINE l == mulDiv(c, S, c - d)
             e == c - d
  <2>4. l + 1 <= T
      BY <1>1, <1>2, <2>1, <2>3
  <2> HIDE DEF l, c, d, S, T
  <2>5. e \in Nat /\ l \in Nat /\ T \in Nat
      BY <1>2, <2>2, <2>3 DEF l
  <2>6. c * S < l * e + e
      BY <2>3 DEF l
  <2> HIDE DEF e
  <2>7. (l + 1) * e <= T * e
      BY <2>4, <2>5, Scaled
  <2>8. (l + 1) * e = l * e + e /\ l * e \in Nat /\ T * e \in Nat /\ c * S \in Nat
      BY <1>2, <1>3, <2>5, ProductNat
  <2>9. c * S < T * e
      BY <2>5, <2>6, <2>7, <2>8
  <2> QED BY <2>9 DEF e
<1> DEFINE n == T * (c - d) - c * S
<1>7. n \in Nat /\ S + k \in Nat \ {0}
  <2>1. T * (c - d) \in Int /\ c * S \in Int
      BY <1>2, <1>3
  <2> HIDE DEF k, c, d, S, T
  <2> QED BY <1>2, <1>5, <1>6, <2>1
<1>8. x = mulDivUp(n, 1, S + k)
    BY DEF getCollateralTokenDepositAmountToReachTargetLeverage, depositDenominator
<1> HIDE DEF x, n, c, d, k, s
<1>9. x \in Nat /\ x * (S + k) < n + (S + k)
  <2>1. /\ mulDivUp(n, 1, S + k) \in Nat
        /\ mulDivUp(n, 1, S + k) * (S + k) < n * 1 + (S + k)
      BY <1>7, MulDivUpBounds
  <2> QED BY <1>7, <1>8, <2>1
<1>10. q = mulDiv(x, CollateralUnit, collateralPrice)
    BY DEF quotedCollateral, toCollateral, convertFromBaseCurrencyToToken, x, c, d, s
<1>11. q \in Nat /\ y \in Nat /\ y <= x
    BY <1>2, <1>9, <1>10, MulDivBounds, RoundTripDown DEF collateralBase
<1> HIDE DEF q
<1>12. v \in Nat /\ v * S <= y * (S + s)
  <2>1. S + s \in Nat
      BY <1>2, <1>4
  <2> QED BY <1>2, <1>11, <2>1, MulDivBounds DEF getDebtBorrowAmountInBaseToIncreaseLeverage
<1>13. b = mulDiv(v, DebtUnit, debtPrice)
    BY DEF borrowedFor, toDebt, convertFromBaseCurrencyToToken, s
<1> HIDE DEF v
<1>14. b \in Nat /\ b * debtPrice <= v * DebtUnit
    BY <1>2, <1>12, <1>13, MulDivBounds
<1> HIDE DEF b
<1>15. c1 \in Nat /\ c + y <= c1
  <2>1. /\ collateralBase(collateral) = mulDiv(collateralPrice, collateral, CollateralUnit)
        /\ collateralBase(q) = mulDiv(collateralPrice, q, CollateralUnit)
        /\ collateralBase(collateral + q) = mulDiv(collateralPrice, collateral + q, CollateralUnit)
      BY <1>2, <1>11, ProductsCommute DEF collateralBase
  <2>2. c1 >= c + y
      BY <1>2, <1>11, <2>1, MulDivSuperadditive DEF c
  <2>3. c1 \in Nat
      BY <1>2, <1>11, BaseTypes
  <2> QED BY <1>3, <1>11, <2>2, <2>3
<1>16. d1 \in Nat /\ d1 <= d + v
  <2>1. /\ debtBase(debt) = mulDiv(debtPrice, debt, DebtUnit)
        /\ debtBase(debt + b) = mulDiv(debtPrice, debt + b, DebtUnit)
      BY <1>2, <1>14, ProductsCommute DEF debtBase
  <2> DEFINE after == debt + b
  <2>2. debtPrice * b <= v * DebtUnit /\ after \in Nat /\ b <= after /\ after - b = debt
      BY <1>2, <1>14
  <2>3. d1 \in Nat
      BY <2>2, BaseTypes
  <2> HIDE DEF after
  <2>4. mulDiv(debtPrice, after, DebtUnit) <= mulDiv(debtPrice, after - b, DebtUnit) + v
      BY <1>2, <1>12, <1>14, <2>2, MulDivTaking
  <2> QED BY <2>1, <2>2, <2>3, <2>4 DEF d, after
<1> HIDE DEF y, c1, d1
<1>17. c1 * S < T * (c1 - d1) + (S + k)
  <2>1. d <= c /\ c * S <= T * (c - d) /\ x * (S + k) < T * (c - d) - c * S + (S + k)
    <3>1. c * S \in Int /\ T * (c - d) \in Int
        BY <1>2, <1>3
    <3> QED BY <1>3, <1>6, <1>9, <3>1 DEF n
  <2>2. /\ S \in Nat \ {0} /\ T \in Nat /\ T >= S /\ s \in Nat /\ k \in Nat
        /\ c \in Nat /\ d \in Nat /\ x \in Nat /\ y \in Nat /\ v \in Nat
        /\ c1 \in Nat /\ d1 \in Nat
      BY <1>2, <1>3, <1>4, <1>5, <1>9, <1>11, <1>12, <1>15, <1>16
  <2>3. /\ T * s = k * S /\ y <= x /\ v * S <= y * (S + s)
        /\ c + y <= c1 /\ d1 <= d + v
      BY <1>5, <1>11, <1>12, <1>15, <1>16
  <2> HIDE DEF S, T
  <2> QED BY <2>1, <2>2, <2>3, QuotedOvershoot, Zenon
<1>18. (T + 1) * ((S + k) - 1) < S * c
  <2>1. (T + 1) * (depositDenominator(T, s) - 1) < S * c
      BY <1>1, Zenon DEF MeasuredFinely, c, s
  <2>2. depositDenominator(T, s) = S + k
      BY Zenon DEF depositDenominator, k
  <2> QED BY <2>1, <2>2, Zenon
<1>19. c1 - d1 \in Nat \ {0} /\ mulDiv(c1, S, c1 - d1) <= T
  <2>1. /\ S \in Nat \ {0} /\ T \in Nat /\ T >= S /\ S + k \in Nat \ {0}
        /\ c \in Nat /\ c1 \in Nat /\ c <= c1 /\ c1 - d1 \in Int
      BY <1>2, <1>3, <1>7, <1>11, <1>15, <1>16
  <2> DEFINE D == S + k
             e == c1 - d1
  <2>2. c1 * S < T * e + D /\ (T + 1) * (D - 1) < S * c /\ D \in Nat \ {0} /\ e \in Int
      BY <1>17, <1>18, <2>1
  <2> HIDE DEF S, T, D, e
  <2>3. e \in Nat \ {0} /\ mulDiv(c1, S, e) <= T
      BY <2>1, <2>2, OvershootVanishes
  <2> QED BY <2>3 DEF e
<1>20. c1 > d1 /\ c1 # 0
    BY <1>15, <1>16, <1>19
<1>21. HasLeverage(c1, d1) /\ leverageBps(c1, d1) <= T
    BY <1>15, <1>16, <1>19, <1>20 DEF HasLeverage, leverageBps
<1> QED BY <1>21 DEF LeverageKnown, leverageOf, c1, d1

\* The quote of DLoopQuoter to raise the leverage is accepted where it ends: in every
\* state the vault reaches, at any price, unit, target and subsidy, the position after
\* the call has a leverage of at most the target.
THEOREM QuoteIsAccepted == Spec => []QuotedIncreaseStopsAtTarget
<1>1. Spec => []TypeOK
    BY TypeCorrect
<1> QED BY <1>1, QuoteStops, PTL
=============================================================================
