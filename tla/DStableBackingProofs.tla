------------------------ MODULE DStableBackingProofs ------------------------
(***************************************************************************)
(* For all units, prices, fees, accounts and assets: the dSTABLE contracts *)
(* implement BackedMoney. The argument is about rounding. Every conversion *)
(* rounds down, so what is minted is worth no more than what came in, what *)
(* is paid out no more than what was burnt; and the value of the vault,    *)
(* itself a sum of quotients rounded down, rises by at least the quotient  *)
(* of a deposit and falls by at most the exact value of a payment.         *)
(*                                                                         *)
(* The last sections add AmoManagerV2 and its debt token: where debt       *)
(* tokens are, and what minting and burning through the manager may cost.  *)
(***************************************************************************)
EXTENDS DStableProofs, DStableV2, RedemptionFees

IssuedAmount == totalSupply - flash.amount - dstableOf[AmoMgr]

-----------------------------------------------------------------------------
(* Types of the terms of the refinement mapping *)

LEMMA ValueAtType ==
    ASSUME Assumptions, VaultTypeOK, NEW a \in Assets, NEW n \in Nat
    PROVE  /\ assetValueFromAmount(a, n) \in Nat
           /\ price[a] \in Nat /\ assetUnit[a] \in Nat \ {0}
BY ConversionTypes DEF Assumptions, VaultAssumption, VaultTypeOK

LEMMA SupportedValuesType ==
    ASSUME Assumptions, VaultTypeOK, NEW b \in [Assets -> Nat]
    PROVE  /\ SupportedValues(b) \in [1..NumAssets -> Nat]
           /\ SumTo(SupportedValues(b), NumAssets) \in Nat
<1>1. \A a \in Assets : assetValueFromAmount(a, b[a]) \in Nat
    BY ValueAtType
<1>2. SupportedValues(b) \in [1..NumAssets -> Nat]
    BY <1>1 DEF SupportedValues, Assets
<1>3. NumAssets \in Nat
    BY DEF Assumptions, VaultAssumption
<1> QED BY <1>2, <1>3, SumNat

LEMMA TermTypes ==
    ASSUME Assumptions, IInv
    PROVE  /\ totalValue \in Nat /\ IssuedAmount \in Int /\ totalAllocated \in Nat
           /\ dstableUnit \in Nat \ {0} /\ baseCurrencyUnit \in Nat \ {0}
<1>1. totalValue \in Nat
    BY SupportedValuesType DEF totalValue, IInv, TypeOK, VaultTypeOK
<1>2. flash.amount \in Nat /\ totalSupply \in Nat /\ dstableOf[AmoMgr] \in Nat
    BY DEF IInv, TypeOK, TokenTypeOK, NoFlash, Assumptions, AmoAssumption
<1>3. totalAllocated \in Nat
    BY DEF IInv, TypeOK, AmoTypeOK
<1> QED BY <1>1, <1>2, <1>3 DEF IssuedAmount, Assumptions, VaultAssumption, TokenAssumption

-----------------------------------------------------------------------------
(* How the value of the vault moves with one balance *)

LEMMA OneBalance ==
    ASSUME Assumptions, VaultTypeOK, NEW b \in [Assets -> Nat], NEW c \in [Assets -> Nat],
           NEW a \in Assets, \A i \in Assets \ {a} : c[i] = b[i]
    PROVE  SumTo(SupportedValues(c), NumAssets)
             = SumTo(SupportedValues(b), NumAssets)
                 + SupportedValues(c)[a] - SupportedValues(b)[a]
<1>1. /\ SupportedValues(b) \in [1..NumAssets -> Int]
      /\ SupportedValues(c) \in [1..NumAssets -> Int]
    BY SupportedValuesType
<1>2. NumAssets \in Nat /\ a \in 1..NumAssets
    BY DEF Assumptions, VaultAssumption, Assets
<1>3. \A i \in (1..NumAssets) \ {a} : SupportedValues(c)[i] = SupportedValues(b)[i]
    BY DEF SupportedValues, Assets
<1> QED BY <1>1, <1>2, <1>3, SumUpdate

LEMMA ValueOfCredit ==
    ASSUME Assumptions, VaultTypeOK, NEW b \in [Assets -> Nat],
           NEW a \in Assets, NEW n \in Nat
    PROVE  /\ a \in supported =>
                SumTo(SupportedValues(Credit(b, a, n)), NumAssets)
                  >= SumTo(SupportedValues(b), NumAssets) + assetValueFromAmount(a, n)
           /\ a \notin supported =>
                SumTo(SupportedValues(Credit(b, a, n)), NumAssets)
                  = SumTo(SupportedValues(b), NumAssets)
<1> DEFINE c == Credit(b, a, n)
<1>1. /\ c \in [Assets -> Nat] /\ c[a] = b[a] + n
      /\ \A i \in Assets \ {a} : c[i] = b[i]
    BY CreditAt
<1> HIDE DEF c
<1>2. SumTo(SupportedValues(c), NumAssets)
        = SumTo(SupportedValues(b), NumAssets) + SupportedValues(c)[a] - SupportedValues(b)[a]
    BY <1>1, OneBalance
<1>3. SumTo(SupportedValues(b), NumAssets) \in Nat /\ b[a] \in Nat /\ c[a] \in Nat
    BY <1>1, SupportedValuesType
<1>4. CASE a \in supported
    <2>1. /\ SupportedValues(c)[a] = assetValueFromAmount(a, c[a])
          /\ SupportedValues(b)[a] = assetValueFromAmount(a, b[a])
        BY <1>4 DEF SupportedValues
    <2>2. /\ price[a] \in Nat /\ assetUnit[a] \in Nat \ {0}
          /\ assetValueFromAmount(a, b[a]) \in Nat /\ assetValueFromAmount(a, n) \in Nat
          /\ assetValueFromAmount(a, c[a]) \in Nat
        BY <1>3, ValueAtType
    <2>3. assetValueFromAmount(a, b[a] + n)
            >= assetValueFromAmount(a, b[a]) + assetValueFromAmount(a, n)
        BY <1>3, <2>2, MulDivSuperadditive DEF assetValueFromAmount, ValueAt
    <2> QED BY <1>1, <1>2, <1>3, <1>4, <2>1, <2>2, <2>3 DEF c
<1>5. CASE a \notin supported
    <2>1. SupportedValues(c)[a] = 0 /\ SupportedValues(b)[a] = 0
        BY <1>5 DEF SupportedValues
    <2> QED BY <1>2, <1>3, <1>5, <2>1 DEF c
<1> QED BY <1>4, <1>5

\* v bounds the exact value of what is paid.
LEMMA ValueOfDebit ==
    ASSUME Assumptions, VaultTypeOK, NEW b \in [Assets -> Nat],
           NEW a \in Assets, NEW n \in Nat, n <= b[a],
           NEW v \in Nat, price[a] * n <= v * assetUnit[a]
    PROVE  SumTo(SupportedValues(b), NumAssets)
             <= SumTo(SupportedValues(Debit(b, a, n)), NumAssets) + v
<1> DEFINE c == Debit(b, a, n)
<1>1. /\ c \in [Assets -> Nat] /\ c[a] = b[a] - n
      /\ \A i \in Assets \ {a} : c[i] = b[i]
    BY DebitAt
<1> HIDE DEF c
<1>2. SumTo(SupportedValues(c), NumAssets)
        = SumTo(SupportedValues(b), NumAssets) + SupportedValues(c)[a] - SupportedValues(b)[a]
    BY <1>1, OneBalance
<1>3. SumTo(SupportedValues(b), NumAssets) \in Nat /\ b[a] \in Nat /\ c[a] \in Nat
    BY <1>1, SupportedValuesType
<1>4. CASE a \in supported
    <2>1. /\ SupportedValues(c)[a] = assetValueFromAmount(a, c[a])
          /\ SupportedValues(b)[a] = assetValueFromAmount(a, b[a])
        BY <1>4 DEF SupportedValues
    <2>2. /\ price[a] \in Nat /\ assetUnit[a] \in Nat \ {0}
          /\ assetValueFromAmount(a, b[a]) \in Nat /\ assetValueFromAmount(a, c[a]) \in Nat
        BY <1>3, ValueAtType
    <2>3. assetValueFromAmount(a, b[a]) <= assetValueFromAmount(a, b[a] - n) + v
        BY <1>3, <2>2, MulDivTaking DEF assetValueFromAmount, ValueAt
    <2> QED BY <1>1, <1>2, <1>3, <2>1, <2>2, <2>3 DEF c
<1>5. CASE a \notin supported
    <2>1. SupportedValues(c)[a] = 0 /\ SupportedValues(b)[a] = 0
        BY <1>5 DEF SupportedValues
    <2> QED BY <1>2, <1>3, <2>1 DEF c
<1> QED BY <1>4, <1>5

-----------------------------------------------------------------------------
(* Steps at an unchanged valuation *)

LEMMA NextValue ==
    ASSUME UNCHANGED <<price, supported>>
    PROVE  /\ totalValue' = SumTo(SupportedValues(vaultBalance'), NumAssets)
           /\ UNCHANGED valuation
<1>1. SupportedValues(vaultBalance)' = SupportedValues(vaultBalance')
    BY DEF SupportedValues, assetValueFromAmount, ValueAt
<1> QED BY <1>1 DEF totalValue, valuation

LEMMA NextValueType ==
    ASSUME Assumptions, IInv, IInv', UNCHANGED <<price, supported>>
    PROVE  totalValue' \in Nat
<1>1. VaultTypeOK /\ vaultBalance' \in [Assets -> Nat]
    BY DEF IInv, TypeOK, VaultTypeOK
<1> QED BY <1>1, NextValue, SupportedValuesType

\* x more is issued, y more is in the vault at least.
LEMMA SettleIf ==
    ASSUME Assumptions, IInv, UNCHANGED <<price, supported>>, UNCHANGED totalAllocated,
           NEW x \in Int, NEW y \in Int, totalValue' \in Nat,
           IssuedAmount' = IssuedAmount + x, totalValue' >= totalValue + y,
           x * baseCurrencyUnit <= y * dstableUnit
    PROVE  Money!Next
<1> DEFINE D == dstableUnit
           B == baseCurrencyUnit
           i == IssuedAmount
           t == totalValue
           u == totalValue'
<1>1. i \in Int /\ t \in Int /\ u \in Int /\ D \in Nat /\ B \in Nat /\ u >= t + y
    BY TermTypes
<1> HIDE DEF i, t, u
<1>2. (i + x) * B = i * B + x * B /\ i * B \in Int /\ x * B \in Int
    BY <1>1
<1>3. /\ (t + y) * D = t * D + y * D /\ t * D \in Int /\ y * D \in Int /\ u * D \in Int
      /\ (t + y) * D <= u * D
    BY <1>1
<1>4. (i + x) * B - i * B <= u * D - t * D
    BY <1>2, <1>3
<1>5. UNCHANGED valuation
    BY NextValue
<1> QED BY <1>4, <1>5 DEF Money!Next, Money!Settle, IssuedAmount, i, t, u

LEMMA LendIf ==
    ASSUME Assumptions, IInv, UNCHANGED <<price, supported>>, totalValue' = totalValue,
           IssuedAmount' \in Int, totalAllocated' \in Nat,
           IssuedAmount' - IssuedAmount = totalAllocated' - totalAllocated
    PROVE  Money!Next
<1> DEFINE B == baseCurrencyUnit
<1>1. IssuedAmount \in Int /\ totalAllocated \in Nat /\ B \in Nat
    BY TermTypes
<1>2. IssuedAmount' - totalAllocated' = IssuedAmount - totalAllocated
    <2> DEFINE i == IssuedAmount
               j == IssuedAmount'
               s == totalAllocated
               t == totalAllocated'
    <2>1. i \in Int /\ j \in Int /\ s \in Int /\ t \in Int /\ j - i = t - s
        BY <1>1
    <2> HIDE DEF i, j, s, t
    <2>2. j - t = i - s
        BY <2>1
    <2> QED BY <2>2 DEF i, j, s, t
<1>3. /\ IssuedAmount' * B - totalAllocated' * B = (IssuedAmount' - totalAllocated') * B
      /\ IssuedAmount * B - totalAllocated * B = (IssuedAmount - totalAllocated) * B
    BY <1>1
<1>4. UNCHANGED valuation
    BY NextValue
<1> QED BY <1>2, <1>3, <1>4 DEF Money!Next, Money!Lend, Money!Owed, IssuedAmount

LEMMA StutterIf ==
    ASSUME UNCHANGED <<price, supported>>, UNCHANGED totalAllocated,
           totalValue' = totalValue, IssuedAmount' = IssuedAmount
    PROVE  UNCHANGED Money!vars
<1>1. UNCHANGED valuation
    BY NextValue
<1> QED BY <1>1 DEF Money!vars, IssuedAmount

LEMMA SameBalances ==
    ASSUME UNCHANGED <<price, supported>>, UNCHANGED vaultBalance
    PROVE  totalValue' = totalValue
BY NextValue DEF totalValue

LEMMA NextIssuedType ==
    ASSUME Assumptions, IInv'
    PROVE  IssuedAmount' \in Int /\ totalAllocated' \in Nat
<1>1. flash'.amount \in Nat /\ totalSupply' \in Nat /\ dstableOf'[AmoMgr] \in Nat
    BY DEF IInv, TypeOK, TokenTypeOK, NoFlash, Assumptions, AmoAssumption
<1>2. totalAllocated' \in Nat
    BY DEF IInv, TypeOK, AmoTypeOK
<1> QED BY <1>1, <1>2 DEF IssuedAmount

-----------------------------------------------------------------------------
(* How the issued amount moves with the token's effects *)

LEMMA IssuedMoves ==
    ASSUME Assumptions, IInv, UNCHANGED flash, NEW x \in Accounts, NEW n \in Nat
    PROVE  /\ Mint(x, n) => IssuedAmount' = IssuedAmount + (IF x = AmoMgr THEN 0 ELSE n)
           /\ Burn(x, n) => IssuedAmount' = IssuedAmount - (IF x = AmoMgr THEN 0 ELSE n)
<1>1. /\ dstableOf \in [Accounts -> Nat] /\ totalSupply \in Nat /\ flash.amount \in Nat
      /\ AmoMgr \in Accounts
    BY DEF IInv, TypeOK, TokenTypeOK, NoFlash, Assumptions, AmoAssumption
<1>2. ASSUME Mint(x, n)
      PROVE  IssuedAmount' = IssuedAmount + (IF x = AmoMgr THEN 0 ELSE n)
    <2>1. /\ totalSupply' = totalSupply + n
          /\ dstableOf'[AmoMgr] = dstableOf[AmoMgr] + (IF x = AmoMgr THEN n ELSE 0)
        BY <1>1, <1>2 DEF Mint, Credit
    <2> QED BY <1>1, <2>1 DEF IssuedAmount
<1>3. ASSUME Burn(x, n)
      PROVE  IssuedAmount' = IssuedAmount - (IF x = AmoMgr THEN 0 ELSE n)
    <2>1. /\ totalSupply' = totalSupply - n
          /\ dstableOf'[AmoMgr] = dstableOf[AmoMgr] - (IF x = AmoMgr THEN n ELSE 0)
        BY <1>1, <1>3 DEF Burn, Debit
    <2> QED BY <1>1, <2>1 DEF IssuedAmount
<1> QED BY <1>2, <1>3

LEMMA IssuedMovesWithTransfer ==
    ASSUME Assumptions, IInv, UNCHANGED flash,
           NEW x \in Accounts, NEW y \in Accounts, NEW n \in Nat, Move(x, y, n), x # y
    PROVE  IssuedAmount' = IssuedAmount + (IF x = AmoMgr THEN n ELSE 0)
                                        - (IF y = AmoMgr THEN n ELSE 0)
<1>1. /\ dstableOf \in [Accounts -> Nat] /\ totalSupply \in Nat /\ flash.amount \in Nat
      /\ AmoMgr \in Accounts /\ totalSupply' = totalSupply
      /\ dstableOf' = Credit(Debit(dstableOf, x, n), y, n)
    BY DEF IInv, TypeOK, TokenTypeOK, NoFlash, Assumptions, AmoAssumption, Move
<1>2. dstableOf'[AmoMgr] = dstableOf[AmoMgr] - (IF x = AmoMgr THEN n ELSE 0)
                                             + (IF y = AmoMgr THEN n ELSE 0)
    BY <1>1 DEF Credit, Debit
<1> QED BY <1>1, <1>2 DEF IssuedAmount

\* A move to oneself moves nothing.
LEMMA SelfTransfer ==
    ASSUME Assumptions, IInv, UNCHANGED flash,
           NEW x \in Accounts, NEW n \in Nat, Move(x, x, n)
    PROVE  IssuedAmount' = IssuedAmount
<1>1. /\ dstableOf \in [Accounts -> Nat] /\ totalSupply' = totalSupply
      /\ dstableOf' = Credit(Debit(dstableOf, x, n), x, n) /\ AmoMgr \in Accounts
    BY DEF IInv, TypeOK, TokenTypeOK, Move, Assumptions, AmoAssumption
<1>2. dstableOf'[AmoMgr] = dstableOf[AmoMgr]
    BY <1>1 DEF Credit, Debit
<1> QED BY <1>1, <1>2 DEF IssuedAmount

-----------------------------------------------------------------------------
(* One lemma for each kind of step *)

Implements == Money!Next \/ UNCHANGED Money!vars

\* Collateral comes in and no more than its value is minted.
LEMMA IssueImplements ==
    ASSUME Assumptions, IInv, IInv', NEW acct \in Accounts, acct # AmoMgr,
           NEW n \in Nat, NEW a \in Assets, NEW min, issue(acct, n, a, min)
    PROVE  Implements
<1> DEFINE v == assetValueFromAmount(a, n)
           d == baseValueToDstableAmount(v)
           D == dstableUnit
           B == baseCurrencyUnit
<1>1. /\ VaultReceives(acct, a, n) /\ Mint(acct, d) /\ a \in supported
      /\ UNCHANGED <<price, supported>> /\ UNCHANGED flash /\ UNCHANGED totalAllocated
    BY DEF issue, isAssetMintingEnabled, amoVars
<1>2. /\ VaultTypeOK /\ vaultBalance \in [Assets -> Nat]
      /\ D \in Nat \ {0} /\ B \in Nat \ {0}
    BY TermTypes DEF IInv, TypeOK, VaultTypeOK
<1>3. v \in Nat
    BY <1>2, ValueAtType
<1> HIDE DEF v
<1>4. d \in Nat /\ d * B <= v * D
    BY <1>2, <1>3, MulDivBounds DEF baseValueToDstableAmount
<1> HIDE DEF d
<1>5. IssuedAmount' = IssuedAmount + d
    BY <1>1, <1>4, IssuedMoves
<1>6. totalValue' >= totalValue + v
    <2>1. SumTo(SupportedValues(Credit(vaultBalance, a, n)), NumAssets) >= totalValue + v
        BY <1>1, <1>2, ValueOfCredit DEF totalValue, v
    <2>2. vaultBalance' = Credit(vaultBalance, a, n)
        BY <1>1 DEF VaultReceives
    <2> QED BY <1>1, <2>1, <2>2, NextValue
<1>7. /\ totalValue \in Nat /\ totalValue' \in Nat
      /\ IssuedAmount \in Int /\ IssuedAmount' \in Int
    BY <1>1, TermTypes, NextValueType, NextIssuedType
<1>8. Money!Next
    BY <1>1, <1>3, <1>4, <1>5, <1>6, <1>7, SettleIf
<1> QED BY <1>8 DEF Implements

\* dStable is burnt and no more than its value is paid, to whomever.
LEMMA RedemptionImplements ==
    ASSUME Assumptions, IInv, IInv', NEW acct \in Accounts, acct # AmoMgr,
           NEW n \in Nat, NEW a \in Assets, HasPrice(a),
           NEW payee \in Accounts, NEW other \in Accounts, NEW k \in Nat, NEW l \in Nat,
           k + l = totalCollateralFor(a, n),
           Burn(acct, n), VaultPaysTwo(payee, k, other, l, a),
           UNCHANGED <<price, supported>>, UNCHANGED flash, UNCHANGED totalAllocated
    PROVE  Implements
<1> DEFINE v == dstableAmountToBaseValue(n)
           total == totalCollateralFor(a, n)
           D == dstableUnit
           B == baseCurrencyUnit
<1>1. /\ VaultTypeOK /\ vaultBalance \in [Assets -> Nat]
      /\ D \in Nat \ {0} /\ B \in Nat \ {0}
      /\ price[a] \in Nat \ {0} /\ assetUnit[a] \in Nat
    BY TermTypes, ValueAtType DEF IInv, TypeOK, VaultTypeOK, HasPrice
<1>2. v \in Nat /\ v * D <= n * B
    BY <1>1, MulDivBounds DEF dstableAmountToBaseValue
<1> HIDE DEF v
<1>3. total \in Nat /\ total * price[a] <= v * assetUnit[a]
    BY <1>1, <1>2, MulDivBounds DEF totalCollateralFor, assetAmountFromValue, v
<1>4. price[a] * total <= v * assetUnit[a]
    BY <1>1, <1>2, <1>3
<1>5. /\ total <= vaultBalance[a]
      /\ vaultBalance' = Debit(vaultBalance, a, total)
    BY DEF VaultPaysTwo
<1> HIDE DEF total
<1>6. totalValue <= totalValue' + v
    <2>1. totalValue <= SumTo(SupportedValues(Debit(vaultBalance, a, total)), NumAssets) + v
        BY <1>1, <1>2, <1>3, <1>4, <1>5, ValueOfDebit DEF totalValue
    <2> QED BY <1>5, <2>1, NextValue
<1>7. IssuedAmount' = IssuedAmount - n
    BY IssuedMoves
<1>8. /\ totalValue \in Nat /\ totalValue' \in Nat
      /\ IssuedAmount \in Int /\ IssuedAmount' \in Int
    BY TermTypes, NextValueType, NextIssuedType
<1>9. totalValue' >= totalValue + (0 - v) /\ IssuedAmount' = IssuedAmount + (0 - n)
    <2> DEFINE i == IssuedAmount
               j == IssuedAmount'
               t == totalValue
               u == totalValue'
    <2>1. /\ t \in Nat /\ u \in Nat /\ t <= u + v /\ i \in Int /\ j = i - n
        BY <1>6, <1>7, <1>8
    <2> HIDE DEF i, j, t, u
    <2>2. u >= t + (0 - v) /\ j = i + (0 - n)
        BY <1>2, <2>1
    <2> QED BY <2>2 DEF i, j, t, u
<1>10. /\ 0 - n \in Int /\ 0 - v \in Int
       /\ (0 - n) * B <= (0 - v) * D
    <2>1. (0 - n) * B = 0 - n * B /\ (0 - v) * D = 0 - v * D
        BY <1>1, <1>2
    <2> QED BY <1>1, <1>2, <2>1, ProductNat
<1>11. Money!Next
    BY <1>8, <1>9, <1>10, SettleIf
<1> QED BY <1>11 DEF Implements

\* Nothing is issued, something may be burnt, and the vault is worth no less.
LEMMA NoLossImplements ==
    ASSUME Assumptions, IInv, UNCHANGED <<price, supported>>, UNCHANGED totalAllocated,
           NEW k \in Nat, IssuedAmount' = IssuedAmount - k,
           totalValue' \in Nat, totalValue' >= totalValue
    PROVE  Implements
<1>1. /\ IssuedAmount \in Int /\ totalValue \in Nat
      /\ dstableUnit \in Nat /\ baseCurrencyUnit \in Nat
    BY TermTypes
<1>2. IssuedAmount' = IssuedAmount + (0 - k)
    <2> DEFINE i == IssuedAmount
               j == IssuedAmount'
    <2>1. i \in Int /\ j = i - k
        BY <1>1
    <2> HIDE DEF i, j
    <2>2. j = i + (0 - k)
        BY <2>1
    <2> QED BY <2>2 DEF i, j
<1>3. totalValue' >= totalValue + 0
    <2> DEFINE t == totalValue
               u == totalValue'
    <2>1. t \in Nat /\ u >= t
        BY <1>1
    <2> HIDE DEF t, u
    <2>2. u >= t + 0
        BY <2>1
    <2> QED BY <2>2 DEF t, u
<1>4. (0 - k) * baseCurrencyUnit <= 0 * dstableUnit /\ 0 - k \in Int
    <2>1. (0 - k) * baseCurrencyUnit = 0 - k * baseCurrencyUnit /\ 0 * dstableUnit = 0
        BY <1>1
    <2> QED BY <1>1, <2>1, ProductNat
<1>5. Money!Next
    BY <1>2, <1>3, <1>4, SettleIf
<1> QED BY <1>5 DEF Implements

LEMMA UntouchedImplements ==
    ASSUME UNCHANGED vaultBalance, UNCHANGED <<price, supported>>, UNCHANGED totalAllocated,
           UNCHANGED tokenVars
    PROVE  Implements
<1>1. totalValue' = totalValue
    BY SameBalances
<1>2. IssuedAmount' = IssuedAmount
    BY DEF IssuedAmount, tokenVars
<1> QED BY <1>1, <1>2, StutterIf DEF Implements

LEMMA ExchangeImplements ==
    ASSUME Assumptions, IInv, IInv', NEW acct \in Accounts, NEW from \in Assets,
           NEW to \in Assets, NEW n \in Nat, NEW k \in Nat,
           exchangeCollateral(acct, n, from, k, to), UNCHANGED tokenVars, UNCHANGED amoVars
    PROVE  Implements
<1> DEFINE v == assetValueFromAmount(from, n)
           received == Credit(vaultBalance, from, n)
           value(b) == SumTo(SupportedValues(b), NumAssets)
<1>1. /\ from \in supported /\ HasPrice(to) /\ k <= maxExchangeAmount(n, from, to)
      /\ k <= received[to] /\ vaultBalance' = Debit(received, to, k)
      /\ UNCHANGED <<price, supported>>
    BY DEF exchangeCollateral
<1>2. /\ VaultTypeOK /\ vaultBalance \in [Assets -> Nat] /\ vaultBalance' \in [Assets -> Nat]
      /\ price[to] \in Nat \ {0} /\ assetUnit[to] \in Nat
    BY <1>1, ValueAtType DEF IInv, TypeOK, VaultTypeOK, HasPrice
<1>3. v \in Nat
    BY <1>2, ValueAtType
<1>4. received \in [Assets -> Nat]
    BY <1>2, CreditAt
<1>5. value(received) >= value(vaultBalance) + v
    BY <1>1, <1>2, ValueOfCredit
<1> DEFINE most == maxExchangeAmount(n, from, to)
<1>6. most \in Nat /\ most * price[to] <= v * assetUnit[to]
    BY <1>2, <1>3, MulDivBounds DEF maxExchangeAmount, assetAmountFromValue
<1> HIDE DEF most, v, received
<1>7. price[to] * k <= v * assetUnit[to]
    <2>1. k * price[to] <= most * price[to]
        BY <1>1, <1>2, <1>6 DEF most
    <2>2. /\ k * price[to] = price[to] * k /\ k * price[to] \in Int
          /\ most * price[to] \in Int /\ v * assetUnit[to] \in Int
        BY <1>2, <1>3, <1>6
    <2> QED BY <1>6, <2>1, <2>2
<1>8. value(received) <= value(Debit(received, to, k)) + v
    BY <1>1, <1>2, <1>3, <1>4, <1>7, ValueOfDebit
<1>9. /\ value(received) \in Nat /\ value(vaultBalance) \in Nat /\ value(vaultBalance') \in Nat
    BY <1>2, <1>4, SupportedValuesType
<1>10. value(vaultBalance') >= value(vaultBalance)
    BY <1>1, <1>3, <1>5, <1>8, <1>9
<1>11. totalValue' \in Nat /\ totalValue' >= totalValue
    BY <1>1, <1>9, <1>10, NextValue DEF totalValue
<1>12. IssuedAmount \in Int /\ IssuedAmount' = IssuedAmount - 0
    BY TermTypes DEF IssuedAmount, tokenVars
<1> QED BY <1>1, <1>11, <1>12, NoLossImplements DEF amoVars

LEMMA DepositImplements ==
    ASSUME Assumptions, IInv, IInv', NEW acct \in Accounts, NEW a \in Assets, NEW n \in Nat,
           vaultDeposit(acct, a, n), UNCHANGED tokenVars, UNCHANGED amoVars
    PROVE  Implements
<1>1. /\ a \in supported /\ vaultBalance' = Credit(vaultBalance, a, n)
      /\ UNCHANGED <<price, supported>>
    BY DEF vaultDeposit, VaultReceives
<1>2. VaultTypeOK /\ vaultBalance \in [Assets -> Nat]
    BY DEF IInv, TypeOK, VaultTypeOK
<1>3. assetValueFromAmount(a, n) \in Nat /\ totalValue \in Nat /\ totalValue' \in Nat
    BY <1>1, <1>2, ValueAtType, TermTypes, NextValueType
<1>4. SumTo(SupportedValues(Credit(vaultBalance, a, n)), NumAssets)
        >= totalValue + assetValueFromAmount(a, n)
    BY <1>1, <1>2, ValueOfCredit DEF totalValue
<1>5. totalValue' = SumTo(SupportedValues(Credit(vaultBalance, a, n)), NumAssets)
    BY <1>1, NextValue
<1>6. totalValue' >= totalValue
    BY <1>3, <1>4, <1>5
<1>7. IssuedAmount \in Int /\ IssuedAmount' = IssuedAmount - 0
    BY TermTypes DEF IssuedAmount, tokenVars
<1> QED BY <1>1, <1>3, <1>6, <1>7, NoLossImplements DEF amoVars

LEMMA TransferImplements ==
    ASSUME Assumptions, IInv, NEW x \in Accounts, x # AmoMgr, NEW y \in Accounts,
           NEW n \in Nat, tokenTransfer(x, y, n), UNCHANGED vaultVars, UNCHANGED amoVars
    PROVE  Implements
<1>1. /\ Move(x, y, n) /\ UNCHANGED flash /\ UNCHANGED <<price, supported>>
      /\ UNCHANGED vaultBalance /\ UNCHANGED totalAllocated
    BY DEF tokenTransfer, vaultVars, amoVars
<1>2. totalValue \in Nat /\ IssuedAmount \in Int
    BY TermTypes
<1>3. totalValue' \in Nat /\ totalValue' >= totalValue
    BY <1>1, <1>2, SameBalances
<1>4. \E k \in Nat : IssuedAmount' = IssuedAmount - k
    <2>1. CASE x = y
        BY <1>1, <1>2, <2>1, SelfTransfer
    <2>2. CASE x # y
        BY <1>1, <1>2, <2>2, IssuedMovesWithTransfer
    <2> QED BY <2>1, <2>2
<1> QED BY <1>1, <1>3, <1>4, NoLossImplements

LEMMA BurnImplements ==
    ASSUME Assumptions, IInv, NEW x \in Accounts, NEW n \in Nat,
           tokenBurn(x, n), UNCHANGED vaultVars, UNCHANGED amoVars
    PROVE  Implements
<1>1. /\ Burn(x, n) /\ UNCHANGED flash /\ UNCHANGED <<price, supported>>
      /\ UNCHANGED vaultBalance /\ UNCHANGED totalAllocated
    BY DEF tokenBurn, vaultVars, amoVars
<1>2. totalValue \in Nat
    BY TermTypes
<1>3. totalValue' \in Nat /\ totalValue' >= totalValue
    BY <1>1, <1>2, SameBalances
<1>4. \E k \in Nat : IssuedAmount' = IssuedAmount - k
    BY <1>1, IssuedMoves
<1> QED BY <1>1, <1>3, <1>4, NoLossImplements

LEMMA UsersImplement ==
    ASSUME Assumptions, IInv, IInv', Users
    PROVE  Implements
<1>1. PICK acct \in Accounts \ {AmoMgr}, n \in Amounts :
       \/ \E a \in Assets, min \in MinAmounts :
             \/ issue(acct, n, a, min) /\ UNCHANGED redeemerVars
             \/ redeem(acct, n, a, min)
             \/ redeemAsProtocol(acct, n, a, min)
       \/ \E a \in Assets :
             /\ vaultDeposit(acct, a, n)
             /\ UNCHANGED <<tokenVars, offChain>>
       \/ \E to \in Accounts :
             /\ tokenTransfer(acct, to, n)
             /\ UNCHANGED <<vaultVars, offChain>>
       \/ tokenBurn(acct, n) /\ UNCHANGED <<vaultVars, offChain>>
    BY DEF Users
<1>2. n \in Nat /\ acct \in Accounts /\ acct # AmoMgr /\ feeReceiver \in Accounts
    BY DEF Assumptions, VaultAssumption, IInv, TypeOK, RedeemerTypeOK
<1>3. ASSUME NEW a \in Assets, NEW min \in MinAmounts, issue(acct, n, a, min)
      PROVE  Implements
    BY <1>2, <1>3, IssueImplements
<1>4. ASSUME NEW a \in Assets, NEW min \in MinAmounts, redeem(acct, n, a, min)
      PROVE  Implements
    <2> DEFINE total == totalCollateralFor(a, n)
               fee   == feeCollateral(a, total)
    <2>1. /\ Burn(acct, n) /\ VaultPaysTwo(acct, total - fee, feeReceiver, fee, a)
          /\ HasPrice(a) /\ UNCHANGED <<price, supported>> /\ UNCHANGED flash
          /\ UNCHANGED totalAllocated
        BY <1>4 DEF redeem, amoVars
    <2>2. total \in Nat
        BY <1>2, <2>1, ConversionTypes DEF totalCollateralFor, IInv, TypeOK
    <2>3. fee \in Nat /\ fee <= total
        BY <2>2, FeeWithinTotal
    <2> HIDE DEF fee
    <2>4. total - fee \in Nat /\ (total - fee) + fee = total
        BY <2>2, <2>3
    <2> QED BY <1>2, <2>1, <2>3, <2>4, RedemptionImplements
<1>5. ASSUME NEW a \in Assets, NEW min \in MinAmounts, redeemAsProtocol(acct, n, a, min)
      PROVE  Implements
    <2> DEFINE total == totalCollateralFor(a, n)
    <2>1. /\ Burn(acct, n) /\ VaultPaysTwo(acct, total, acct, 0, a)
          /\ HasPrice(a) /\ UNCHANGED <<price, supported>> /\ UNCHANGED flash
          /\ UNCHANGED totalAllocated
        BY <1>5 DEF redeemAsProtocol, VaultPays, amoVars
    <2>2. total \in Nat
        BY <1>2, <2>1, ConversionTypes DEF totalCollateralFor, IInv, TypeOK
    <2>3. total + 0 = total
        BY <2>2
    <2> QED BY <1>2, <2>1, <2>2, <2>3, RedemptionImplements
<1>6. ASSUME NEW a \in Assets, vaultDeposit(acct, a, n), UNCHANGED <<tokenVars, offChain>>
      PROVE  Implements
    BY <1>2, <1>6, DepositImplements DEF offChain
<1>7. ASSUME NEW to \in Accounts, tokenTransfer(acct, to, n), UNCHANGED <<vaultVars, offChain>>
      PROVE  Implements
    BY <1>2, <1>7, TransferImplements DEF offChain
<1>8. ASSUME tokenBurn(acct, n), UNCHANGED <<vaultVars, offChain>>
      PROVE  Implements
    BY <1>2, <1>8, BurnImplements DEF offChain
<1> QED BY <1>1, <1>3, <1>4, <1>5, <1>6, <1>7, <1>8

-----------------------------------------------------------------------------
(* Steps of the AMO manager, the issuer and the flash minter *)

\* The flash borrower is never the AMO manager: what it repays was issued to
\* somebody whose balance counts.
BorrowerIsUser == flash.borrower # AmoMgr

LEMMA FlashLoansKeepBorrower ==
    ASSUME Assumptions, FlashLoans
    PROVE  BorrowerIsUser'
<1>1. AmoMgr # 0
    BY DEF Assumptions, AmoAssumption, AccountAssumption, Accounts
<1> QED BY <1>1 DEF FlashLoans, flashLoan, flashRepay, BorrowerIsUser, NoFlash

LEMMA OthersKeepFlash ==
    ASSUME Next, ~ FlashLoans
    PROVE  UNCHANGED flash
<1>1. Users => UNCHANGED flash
    BY DEF Users, issue, redeem, redeemAsProtocol, tokenVars, tokenTransfer, tokenBurn
<1>2. AmoSteps => UNCHANGED flash
    BY DEF AmoSteps, enableAmoVault, disableAmoVault, allocateAmo, deallocateAmo,
           decreaseAmoSupply, tokenBurn, transferFromAmoVaultToHoldingVault,
           transferFromHoldingVaultToAmoVault, withdrawProfits, tokenVars
<1>3. IssuerSteps => UNCHANGED flash
    BY DEF IssuerSteps, issueUsingExcessCollateral, increaseAmoSupply
<1>4. Exchanges \/ Trades \/ Listing \/ PriceMoves => UNCHANGED flash
    BY DEF Exchanges, Trades, Listing, PriceMoves, tokenVars
<1>5. Pauses => UNCHANGED flash
    BY DEF Pauses, setTokenPaused, setMintingPaused, setRedemptionPaused,
           setAssetMintingPause, setAssetRedemptionPause, tokenVars
<1>6. Fees => UNCHANGED flash
    BY DEF Fees, setFeeReceiver, setDefaultRedemptionFee, setCollateralRedemptionFee,
           clearCollateralRedemptionFee, tokenVars
<1> QED BY <1>1, <1>2, <1>3, <1>4, <1>5, <1>6 DEF Next

\* The loan is in the supply and in the borrower's balance, and is not issued.
LEMMA FlashLoansImplement ==
    ASSUME Assumptions, IInv, BorrowerIsUser, FlashLoans
    PROVE  Implements
<1>1. /\ UNCHANGED <<price, supported>> /\ UNCHANGED vaultBalance /\ UNCHANGED totalAllocated
    BY DEF FlashLoans, vaultVars, offChain, amoVars
<1>2. /\ dstableOf \in [Accounts -> Nat] /\ totalSupply \in Nat
      /\ flash \in {NoFlash} \cup [borrower : Accounts, amount : Nat]
      /\ AmoMgr \in Accounts /\ FlashAmounts \subseteq Nat
    BY DEF IInv, TypeOK, TokenTypeOK, Assumptions, AmoAssumption, TokenAssumption
<1>3. ASSUME NEW x \in Accounts \ {AmoMgr}, NEW n \in FlashAmounts, flashLoan(x, n)
      PROVE  IssuedAmount' = IssuedAmount
    <2>1. /\ flash.amount = 0 /\ flash'.amount = n /\ totalSupply' = totalSupply + n
          /\ dstableOf'[AmoMgr] = dstableOf[AmoMgr]
        BY <1>2, <1>3 DEF flashLoan, Mint, Credit, NoFlash
    <2>2. dstableOf[AmoMgr] \in Nat /\ n \in Nat
        BY <1>2
    <2> QED BY <1>2, <2>1, <2>2 DEF IssuedAmount
<1>4. ASSUME flashRepay
      PROVE  IssuedAmount' = IssuedAmount
    <2>1. /\ flash.borrower \in Accounts /\ flash.amount \in Nat /\ flash'.amount = 0
        BY <1>2, <1>4 DEF flashRepay, NoFlash
    <2>2. /\ totalSupply' = totalSupply - flash.amount
          /\ dstableOf'[AmoMgr] = dstableOf[AmoMgr]
        BY <1>2, <1>4, <2>1 DEF flashRepay, Burn, Debit, BorrowerIsUser
    <2>3. dstableOf[AmoMgr] \in Nat
        BY <1>2
    <2> QED BY <1>2, <2>1, <2>2, <2>3 DEF IssuedAmount
<1>5. IssuedAmount' = IssuedAmount
    BY <1>3, <1>4 DEF FlashLoans
<1> QED BY <1>1, <1>5, SameBalances, StutterIf DEF Implements

LEMMA CreditUndoesDebit ==
    ASSUME NEW S, NEW f \in [S -> Nat], NEW x \in S, NEW n \in Nat, n <= f[x]
    PROVE  Credit(Debit(f, x, n), x, n) = f
<1> DEFINE g == Debit(f, x, n)
<1>1. g \in [S -> Nat] /\ g[x] = f[x] - n /\ \A i \in S \ {x} : g[i] = f[i]
    BY DebitAt
<1> HIDE DEF g
<1>2. /\ Credit(g, x, n) \in [S -> Nat] /\ Credit(g, x, n)[x] = g[x] + n
      /\ \A i \in S \ {x} : Credit(g, x, n)[i] = g[i]
    BY <1>1, CreditAt
<1>3. f[x] \in Nat /\ g[x] + n = f[x]
    BY <1>1
<1>4. \A i \in S : Credit(g, x, n)[i] = f[i]
    BY <1>1, <1>2, <1>3
<1> QED BY <1>2, <1>4 DEF g

\* Collateral goes to a venue: the vault loses its value, rounded down once for
\* the allocation and once in the sum.
LEMMA FundVenueImplements ==
    ASSUME Assumptions, IInv, IInv', NEW w \in Accounts, NEW n \in Nat, NEW a \in Assets,
           transferFromHoldingVaultToAmoVault(w, a, n)
    PROVE  Implements
<1> DEFINE v == assetValueFromAmount(a, n)
           d == baseValueToDstableAmount(v)
           D == dstableUnit
           B == baseCurrencyUnit
           t == totalValue
           u == totalValue'
<1>1. /\ UNCHANGED <<price, supported>> /\ UNCHANGED tokenVars
      /\ totalAllocated' = totalAllocated + d
      /\ n <= vaultBalance[a] /\ vaultBalance' = Debit(vaultBalance, a, n)
    <2>1. n + 0 = n
        OBVIOUS
    <2> QED BY <2>1 DEF transferFromHoldingVaultToAmoVault, Allocate, VaultPays, VaultPaysTwo
<1>2. /\ VaultTypeOK /\ vaultBalance \in [Assets -> Nat] /\ vaultBalance' \in [Assets -> Nat]
      /\ D \in Nat \ {0} /\ B \in Nat \ {0}
      /\ price[a] \in Nat /\ assetUnit[a] \in Nat \ {0}
      /\ t \in Nat /\ u \in Nat /\ totalAllocated \in Nat
    BY <1>1, TermTypes, ValueAtType, NextValueType DEF IInv, TypeOK, VaultTypeOK
<1>3. v \in Nat /\ price[a] * n < v * assetUnit[a] + assetUnit[a]
    BY <1>2, MulDivBounds DEF assetValueFromAmount, ValueAt
<1>4. d \in Nat /\ v * D < d * B + B
    BY <1>2, <1>3, MulDivBounds DEF baseValueToDstableAmount
<1> HIDE DEF d
<1>5. t <= u + (v + 1)
    <2> HIDE DEF v
    <2>1. v + 1 \in Nat /\ price[a] * n <= (v + 1) * assetUnit[a]
        BY <1>2, <1>3, ProductNat
    <2>2. t <= SumTo(SupportedValues(Debit(vaultBalance, a, n)), NumAssets) + (v + 1)
        BY <1>1, <1>2, <2>1, ValueOfDebit DEF totalValue
    <2> QED BY <1>1, <2>2, NextValue
<1>6. u <= t
    <2>1. Credit(vaultBalance', a, n) = vaultBalance
        BY <1>1, <1>2, CreditUndoesDebit
    <2>2. SumTo(SupportedValues(Credit(vaultBalance', a, n)), NumAssets)
            >= SumTo(SupportedValues(vaultBalance'), NumAssets)
        <3> DEFINE r == SumTo(SupportedValues(vaultBalance'), NumAssets)
                   s == SumTo(SupportedValues(Credit(vaultBalance', a, n)), NumAssets)
        <3>1. (a \in supported => s >= r + v) /\ (a \notin supported => s = r)
            BY <1>2, ValueOfCredit
        <3>2. r \in Nat /\ s \in Nat
            BY <1>2, <2>1, SupportedValuesType
        <3> HIDE DEF r, s, v
        <3>3. s >= r
            BY <1>3, <3>1, <3>2
        <3> QED BY <3>3 DEF r, s
    <2>3. u = SumTo(SupportedValues(vaultBalance'), NumAssets)
        BY <1>1, NextValue
    <2> QED BY <2>1, <2>2, <2>3 DEF totalValue
<1>7. UNCHANGED valuation /\ IssuedAmount' = IssuedAmount
    BY <1>1, NextValue DEF IssuedAmount, tokenVars
<1> HIDE DEF v, t, u
<1>8. u * D <= t * D
    BY <1>2, <1>6
<1>9. t * D - u * D < d * B + (D + B)
    <2>1. t * D <= (u + (v + 1)) * D
        BY <1>2, <1>3, <1>5
    <2>2. (u + (v + 1)) * D = u * D + v * D + D
        BY <1>2, <1>3
    <2>3. t * D \in Int /\ u * D \in Int /\ v * D \in Int /\ d * B \in Int
        BY <1>2, <1>3, <1>4
    <2> QED BY <1>2, <1>4, <2>1, <2>2, <2>3
<1>10. totalAllocated' * B - totalAllocated * B = d * B
    BY <1>1, <1>2, <1>4
<1>11. Money!FundVenue
    BY <1>7, <1>8, <1>9, <1>10 DEF Money!FundVenue, IssuedAmount, t, u
<1> QED BY <1>11 DEF Implements, Money!Next

\* A venue pays: what is freed of its allocation is worth no more than what came
\* in, or nothing came in that counts.
LEMMA SettleVenueImplements ==
    ASSUME Assumptions, IInv, IInv', NEW w \in Accounts, NEW n \in Nat, NEW a \in Assets,
           transferFromAmoVaultToHoldingVault(w, a, n)
    PROVE  Implements
<1> DEFINE v == assetValueFromAmount(a, n)
           d == AllocationAdjustment(w, a, n)
           D == dstableUnit
           B == baseCurrencyUnit
           t == totalValue
           u == totalValue'
           s == totalAllocated
           r == totalAllocated'
<1>1. /\ UNCHANGED <<price, supported>> /\ UNCHANGED tokenVars
      /\ d <= s /\ r = s - d /\ vaultBalance' = Credit(vaultBalance, a, n)
    BY DEF transferFromAmoVaultToHoldingVault, Deallocate, VaultReceives
<1>2. /\ VaultTypeOK /\ vaultBalance \in [Assets -> Nat]
      /\ D \in Nat \ {0} /\ B \in Nat \ {0} /\ t \in Nat /\ u \in Nat /\ s \in Nat
    BY <1>1, TermTypes, NextValueType DEF IInv, TypeOK, VaultTypeOK
<1>3. v \in Nat /\ d \in Nat /\ d <= baseValueToDstableAmount(v)
    BY <1>2, ValueAtType, AdjustmentWithinAllocation
<1>4. UNCHANGED valuation /\ IssuedAmount' = IssuedAmount
    BY <1>1, NextValue DEF IssuedAmount, tokenVars
<1>5. s * B - r * B = d * B
    <2> HIDE DEF s, r, d
    <2> QED BY <1>1, <1>2, <1>3
<1>6. /\ a \in supported => u >= t + v
      /\ a \notin supported => u = t
    BY <1>1, <1>2, ValueOfCredit, NextValue DEF totalValue
<1>7. CASE a \in supported
    <2> HIDE DEF v
    <2>1. d * B <= v * D
        <3>1. /\ baseValueToDstableAmount(v) \in Nat
              /\ baseValueToDstableAmount(v) * B <= v * D
            BY <1>2, <1>3, MulDivBounds DEF baseValueToDstableAmount
        <3>2. d * B <= baseValueToDstableAmount(v) * B
            BY <1>2, <1>3, <3>1
        <3>3. d * B \in Int /\ baseValueToDstableAmount(v) * B \in Int /\ v * D \in Int
            BY <1>2, <1>3, <3>1
        <3> QED BY <3>1, <3>2, <3>3
    <2> HIDE DEF t, u, s, r, d
    <2>2. v * D <= u * D - t * D
        <3>1. (t + v) * D <= u * D
            BY <1>2, <1>3, <1>6, <1>7
        <3>2. (t + v) * D = t * D + v * D
            BY <1>2, <1>3
        <3>3. t * D \in Int /\ v * D \in Int /\ u * D \in Int
            BY <1>2, <1>3
        <3> QED BY <3>1, <3>2, <3>3
    <2>3. d * B \in Nat /\ v * D \in Int /\ u * D - t * D \in Int
        BY <1>2, <1>3
    <2>4. 0 <= s * B - r * B /\ s * B - r * B <= u * D - t * D
        BY <1>5, <2>1, <2>2, <2>3
    <2>5. Money!SettleVenue
        BY <1>4, <2>4 DEF Money!SettleVenue, IssuedAmount, t, u, s, r
    <2> QED BY <2>5 DEF Implements, Money!Next
<1>8. CASE a \notin supported
    <2> HIDE DEF s, r, d
    <2>1. r \in Nat /\ r <= s
        BY <1>1, <1>2, <1>3
    <2>2. 0 <= r * B /\ r * B <= s * B
        BY <1>2, <2>1
    <2>3. Money!SettleVenueOffList
        BY <1>4, <1>6, <1>8, <2>2 DEF Money!SettleVenueOffList, IssuedAmount, s, r
    <2> QED BY <2>3 DEF Implements, Money!Next
<1> QED BY <1>7, <1>8

LEMMA AmoStepsImplement ==
    ASSUME Assumptions, IInv, IInv', AmoSteps
    PROVE  Implements
<1>1. /\ AmoMgr \in Accounts /\ AmoVaults \subseteq Accounts /\ AmoMgr \notin AmoVaults
      /\ Amounts \subseteq Nat
      /\ IssuedAmount \in Int /\ totalAllocated \in Nat
      /\ IssuedAmount' \in Int /\ totalAllocated' \in Nat
    BY TermTypes, NextIssuedType DEF Assumptions, AmoAssumption, VaultAssumption
<1>2. ASSUME NEW w \in AmoVaults, enableAmoVault(w) \/ disableAmoVault(w)
      PROVE  Implements
    BY <1>2, UntouchedImplements DEF enableAmoVault, disableAmoVault, vaultVars
<1>3. ASSUME NEW w \in AmoVaults, NEW n \in Amounts, allocateAmo(w, n)
      PROVE  Implements
    <2>1. /\ Move(AmoMgr, w, n) /\ totalAllocated' = totalAllocated + n /\ UNCHANGED flash
          /\ UNCHANGED <<price, supported>> /\ UNCHANGED vaultBalance
        BY <1>3 DEF allocateAmo, Allocate, vaultVars
    <2>2. IssuedAmount' = IssuedAmount + n
        BY <1>1, <2>1, IssuedMovesWithTransfer
    <2>3. IssuedAmount' - IssuedAmount = totalAllocated' - totalAllocated
        <3> DEFINE i == IssuedAmount
                   j == IssuedAmount'
                   s == totalAllocated
                   t == totalAllocated'
        <3>1. i \in Int /\ s \in Int /\ n \in Int /\ j = i + n /\ t = s + n
            BY <1>1, <2>1, <2>2
        <3> HIDE DEF i, j, s, t
        <3>2. j - i = t - s
            BY <3>1
        <3> QED BY <3>2 DEF i, j, s, t
    <2>4. Money!Next
        BY <1>1, <2>1, <2>3, SameBalances, LendIf
    <2> QED BY <2>4 DEF Implements
<1>4. ASSUME NEW w \in AmoVaults, NEW n \in Amounts, deallocateAmo(w, n)
      PROVE  Implements
    <2>1. /\ Move(w, AmoMgr, n) /\ totalAllocated' = totalAllocated - n /\ UNCHANGED flash
          /\ UNCHANGED <<price, supported>> /\ UNCHANGED vaultBalance
        BY <1>4 DEF deallocateAmo, Deallocate, vaultVars
    <2>2. IssuedAmount' = IssuedAmount - n
        BY <1>1, <2>1, IssuedMovesWithTransfer
    <2>3. IssuedAmount' - IssuedAmount = totalAllocated' - totalAllocated
        <3> DEFINE i == IssuedAmount
                   j == IssuedAmount'
                   s == totalAllocated
                   t == totalAllocated'
        <3>1. i \in Int /\ s \in Int /\ n \in Int /\ j = i - n /\ t = s - n
            BY <1>1, <2>1, <2>2
        <3> HIDE DEF i, j, s, t
        <3>2. j - i = t - s
            BY <3>1
        <3> QED BY <3>2 DEF i, j, s, t
    <2>4. Money!Next
        BY <1>1, <2>1, <2>3, SameBalances, LendIf
    <2> QED BY <2>4 DEF Implements
<1>5. ASSUME NEW n \in Amounts, decreaseAmoSupply(n)
      PROVE  Implements
    <2>1. /\ Burn(AmoMgr, n) /\ UNCHANGED flash /\ UNCHANGED totalAllocated
          /\ UNCHANGED <<price, supported>> /\ UNCHANGED vaultBalance
        BY <1>5 DEF decreaseAmoSupply, tokenBurn, vaultVars, amoVars
    <2>2. IssuedAmount' = IssuedAmount
        BY <1>1, <2>1, IssuedMoves
    <2> QED BY <2>1, <2>2, SameBalances, StutterIf DEF Implements
<1>6. ASSUME NEW w \in AmoVaults, NEW n \in Amounts, NEW a \in Assets,
             transferFromAmoVaultToHoldingVault(w, a, n)
      PROVE  Implements
    BY <1>1, <1>6, SettleVenueImplements
<1>7. ASSUME NEW w \in AmoVaults, NEW n \in Amounts, NEW a \in Assets,
             transferFromHoldingVaultToAmoVault(w, a, n)
      PROVE  Implements
    BY <1>1, <1>7, FundVenueImplements
<1>8. ASSUME NEW w \in AmoVaults, NEW n \in Amounts, NEW a \in Assets, NEW to \in Accounts,
             withdrawProfits(w, to, a, n)
      PROVE  Implements
    BY <1>8, UntouchedImplements DEF withdrawProfits, CollateralChangesHands, amoVars
<1> QED BY <1>2, <1>3, <1>4, <1>5, <1>6, <1>7, <1>8 DEF AmoSteps

LEMMA IssuerStepsImplement ==
    ASSUME Assumptions, IInv, IInv', IssuerSteps
    PROVE  Implements
<1>1. PICK n \in Amounts :
         \/ \E receiver \in Accounts : issueUsingExcessCollateral(receiver, n)
         \/ increaseAmoSupply(n)
    BY DEF IssuerSteps
<1>2. n \in Nat /\ AmoMgr \in Accounts
    BY DEF Assumptions, VaultAssumption, AmoAssumption
<1>3. ASSUME increaseAmoSupply(n)
      PROVE  Implements
    <2>1. /\ Mint(AmoMgr, n) /\ UNCHANGED flash /\ UNCHANGED totalAllocated
          /\ UNCHANGED <<price, supported>> /\ UNCHANGED vaultBalance
        BY <1>3 DEF increaseAmoSupply, vaultVars, amoVars
    <2>2. IssuedAmount' = IssuedAmount
        BY <1>2, <2>1, IssuedMoves, TermTypes
    <2> QED BY <2>1, <2>2, SameBalances, StutterIf DEF Implements
<1>4. ASSUME NEW x \in Accounts, issueUsingExcessCollateral(x, n)
      PROVE  Implements
    <2> DEFINE D == dstableUnit
               B == baseCurrencyUnit
               t == totalValue
               s == totalAllocated
               i == IssuedAmount
               j == IssuedAmount'
               q == baseValueToDstableAmount(t)
    <2>1. /\ Mint(x, n) /\ UNCHANGED flash /\ UNCHANGED totalAllocated
          /\ UNCHANGED <<price, supported>> /\ UNCHANGED vaultBalance
          /\ collateralInDstable' >= circulatingDstable'
        BY <1>4 DEF issueUsingExcessCollateral, vaultVars, amoVars, BackedAfterMint
    <2>2. totalValue' = t /\ UNCHANGED valuation
        BY <2>1, SameBalances, NextValue
    <2>3. t \in Nat /\ D \in Nat \ {0} /\ B \in Nat \ {0} /\ s \in Nat /\ i \in Int /\ j \in Int
        BY TermTypes, NextIssuedType
    <2>4. j >= i
        <3>1. j = i + (IF x = AmoMgr THEN 0 ELSE n)
            BY <1>2, <2>1, IssuedMoves
        <3> HIDE DEF i, j
        <3> QED BY <1>2, <2>3, <3>1
    <2>5. q \in Nat /\ q * B <= t * D
        BY <2>3, MulDivBounds DEF baseValueToDstableAmount
    <2>6. j - s <= q
        <3>1. /\ totalSupply' \in Nat /\ flash'.amount \in Nat /\ dstableOf'[AmoMgr] \in Nat
            BY <1>2 DEF IInv, TypeOK, TokenTypeOK, NoFlash
        <3>2. j = totalSupply' - flash'.amount - dstableOf'[AmoMgr]
            BY DEF IssuedAmount
        <3>3. collateralInDstable' = q
            BY <2>2 DEF collateralInDstable, baseValueToDstableAmount
        <3>4. circulatingDstable' = totalSupply' - (dstableOf'[AmoMgr] + s)
            BY <2>1 DEF circulatingDstable, totalAmoSupply
        <3> HIDE DEF q, j, s
        <3> QED BY <2>1, <2>3, <2>5, <3>1, <3>2, <3>3, <3>4
    <2> HIDE DEF t, s, i, j, q
    <2>7. j * B - s * B <= t * D
        <3>1. (j - s) * B <= q * B /\ (j - s) * B = j * B - s * B
            BY <2>3, <2>5, <2>6
        <3>2. q * B \in Int /\ t * D \in Int /\ j * B \in Int /\ s * B \in Int
            BY <2>3, <2>5
        <3> QED BY <2>5, <3>1, <3>2
    <2>8. j * B >= i * B
        BY <2>3, <2>4
    <2>9. Money!MintExcess
        BY <2>1, <2>2, <2>7, <2>8
           DEF Money!MintExcess, Money!Owed, IssuedAmount, t, s, i, j
    <2> QED BY <2>9 DEF Implements, Money!Next
<1> QED BY <1>1, <1>3, <1>4

LEMMA CollateralStepsImplement ==
    ASSUME Assumptions, IInv, IInv', Exchanges \/ Trades \/ Listing \/ PriceMoves
    PROVE  Implements
<1>1. /\ UNCHANGED tokenVars /\ UNCHANGED amoVars
      /\ Amounts \subseteq Nat /\ VaultTypeOK
    BY DEF Exchanges, Trades, Listing, PriceMoves, offChain, Assumptions, VaultAssumption,
           IInv, TypeOK
<1>2. ASSUME NEW acct \in Accounts, NEW n \in Amounts, NEW from \in Assets, NEW to \in Assets,
             NEW k \in Nat, exchangeCollateral(acct, n, from, k, to)
      PROVE  Implements
    BY <1>1, <1>2, ExchangeImplements
<1>3. ASSUME NEW acct \in Accounts, NEW n \in Amounts, NEW from \in Assets, NEW to \in Assets,
             NEW min \in MinAmounts, exchangeMaxCollateral(acct, n, from, to, min)
      PROVE  Implements
    <2>1. assetValueFromAmount(from, n) \in Nat
        BY <1>1, ValueAtType
    <2>2. maxExchangeAmount(n, from, to) \in Nat
        BY <1>1, <1>3, <2>1, ConversionTypes DEF maxExchangeAmount, exchangeMaxCollateral
    <2> QED BY <1>2, <1>3, <2>2 DEF exchangeMaxCollateral
<1>4. Exchanges => Implements
    BY <1>1, <1>2, <1>3 DEF Exchanges
<1>5. Trades => Implements
    BY <1>1, UntouchedImplements DEF Trades, CollateralChangesHands, amoVars
<1>6. ASSUME Listing \/ PriceMoves
      PROVE  Implements
    <2>1. UNCHANGED vaultBalance /\ UNCHANGED IssuedAmount /\ UNCHANGED totalAllocated
        BY <1>1, <1>6 DEF Listing, PriceMoves, allowCollateral, disallowCollateral,
                          OracleMoves, IssuedAmount, tokenVars, amoVars
    <2>2. CASE UNCHANGED <<price, supported>>
        BY <1>1, <2>1, <2>2, UntouchedImplements DEF amoVars
    <2>3. CASE valuation' # valuation
        <3>1. Money!Revalue
            BY <2>1, <2>3 DEF Money!Revalue, IssuedAmount
        <3> QED BY <3>1 DEF Implements, Money!Next
    <2> QED BY <2>2, <2>3 DEF valuation
<1> QED BY <1>4, <1>5, <1>6

LEMMA SwitchesImplement ==
    ASSUME Pauses \/ Fees
    PROVE  Implements
<1>1. /\ UNCHANGED <<price, supported>> /\ UNCHANGED vaultBalance /\ UNCHANGED totalAllocated
      /\ UNCHANGED dstableOf /\ UNCHANGED totalSupply /\ UNCHANGED flash
    <2>1. Pauses => UNCHANGED <<vaultVars, amoVars, dstableOf, totalSupply, flash>>
        BY DEF Pauses, setTokenPaused, setMintingPaused, setRedemptionPaused,
               setAssetMintingPause, setAssetRedemptionPause, tokenVars, offChain
    <2>2. Fees => UNCHANGED <<vaultVars, amoVars, dstableOf, totalSupply, flash>>
        BY DEF Fees, setFeeReceiver, setDefaultRedemptionFee, setCollateralRedemptionFee,
               clearCollateralRedemptionFee, tokenVars
    <2> QED BY <2>1, <2>2 DEF vaultVars, amoVars
<1>2. totalValue' = totalValue /\ IssuedAmount' = IssuedAmount
    BY <1>1, SameBalances DEF IssuedAmount
<1> QED BY <1>1, <1>2, StutterIf DEF Implements

-----------------------------------------------------------------------------
LEMMA InitImplements ==
    ASSUME Assumptions, Init
    PROVE  Money!Init /\ BorrowerIsUser
<1>1. IInv
    BY InitIInv
<1>2. \A a \in Assets : SupportedValues(vaultBalance)[a] = 0
    <2> TAKE a \in Assets
    <2>1. price[a] \in Nat /\ assetUnit[a] \in Nat \ {0} /\ VaultTypeOK
        BY <1>1, ValueAtType DEF IInv, TypeOK
    <2>2. vaultBalance[a] = 0
        BY DEF Init, VaultInit
    <2>3. price[a] * 0 < (0 + 1) * assetUnit[a]
        BY <2>1
    <2>4. mulDiv(price[a], 0, assetUnit[a]) <= 0 /\ mulDiv(price[a], 0, assetUnit[a]) \in Nat
        BY <2>1, <2>3, MulDivAtMost, MulDivBounds, SMTT(30)
    <2> QED BY <2>2, <2>4 DEF SupportedValues, assetValueFromAmount, ValueAt
<1>3. SupportedValues(vaultBalance) = [a \in 1..NumAssets |-> 0]
    BY <1>2 DEF SupportedValues, Assets
<1>4. totalValue = 0
    BY <1>3, SumOfZeros DEF totalValue, Assumptions, VaultAssumption
<1>5. /\ totalSupply = 0 /\ flash.amount = 0 /\ dstableOf[AmoMgr] = 0
      /\ totalAllocated = 0 /\ flash.borrower = 0
    BY DEF Init, TokenInit, AmoInit, NoFlash, Assumptions, AmoAssumption
<1>6. AmoMgr # 0 /\ dstableUnit \in Nat /\ baseCurrencyUnit \in Nat
    BY DEF Assumptions, AmoAssumption, AccountAssumption, Accounts, TokenAssumption,
           VaultAssumption
<1> QED BY <1>4, <1>5, <1>6 DEF Money!Init, BorrowerIsUser

LEMMA StepImplements ==
    ASSUME Assumptions, IInv, IInv', BorrowerIsUser, [Next]_vars
    PROVE  Implements /\ BorrowerIsUser'
<1>1. CASE UNCHANGED vars
    <2>1. /\ UNCHANGED tokenVars /\ UNCHANGED vaultBalance /\ UNCHANGED <<price, supported>>
          /\ UNCHANGED totalAllocated
        BY <1>1 DEF vars, vaultVars, amoVars
    <2> QED BY <2>1, UntouchedImplements DEF BorrowerIsUser, tokenVars
<1>2. CASE Next
    <2>1. Implements
        BY <1>2, UsersImplement, FlashLoansImplement, AmoStepsImplement, IssuerStepsImplement,
           CollateralStepsImplement, SwitchesImplement DEF Next
    <2>2. BorrowerIsUser'
        BY <1>2, FlashLoansKeepBorrower, OthersKeepFlash DEF BorrowerIsUser
    <2> QED BY <2>1, <2>2
<1> QED BY <1>1, <1>2

\* The dSTABLE contracts implement BackedMoney: at an unchanged valuation no call,
\* in any order and with any amounts, lets the collateral of the vault fall behind
\* the dStable that is owed to holders.
THEOREM Implementation == Spec => Backed
<1>0. Assumptions
    BY AccountAssumption, VaultAssumption, TokenAssumption, AmoAssumption,
       RedeemerAssumption DEF Assumptions
<1>1. Init => Money!Init /\ BorrowerIsUser
    BY <1>0, InitImplements
<1>2. IInv /\ IInv' /\ BorrowerIsUser /\ [Next]_vars
        => [Money!Next]_(Money!vars) /\ BorrowerIsUser'
    BY <1>0, StepImplements DEF Implements
<1> QED BY <1>1, <1>2, InductiveInvariant, PTL DEF Spec, Backed, Money!Spec

-----------------------------------------------------------------------------
(* What a redeemer gets *)

\* The vault pays one account, and a fee to another or the same one.
LEMMA PaymentKeeps ==
    ASSUME Assumptions, IInv,
           NEW r \in Accounts, NEW b \in Assets, NEW other \in Accounts,
           NEW net \in Nat, NEW fee \in Nat, VaultPaysTwo(r, net, other, fee, b)
    PROVE  /\ Left(b) = net + fee
           /\ Kept(r, b) \in {0, fee}
           /\ r # other => Kept(r, b) = fee
           /\ \A i \in Assets \ {b} : vaultBalance'[i] = vaultBalance[i]
<1> DEFINE c == CreditAsset(collateralOf, r, b, net)
<1>1. /\ vaultBalance \in [Assets -> Nat]
      /\ collateralOf \in [Accounts -> [Assets -> Nat]]
    BY DEF IInv, TypeOK, VaultTypeOK
<1>2. /\ net + fee \in Nat /\ net + fee <= vaultBalance[b]
      /\ vaultBalance' = Debit(vaultBalance, b, net + fee)
    BY DEF VaultPaysTwo
<1>3. /\ vaultBalance'[b] = vaultBalance[b] - (net + fee) /\ vaultBalance[b] \in Nat
      /\ \A i \in Assets \ {b} : vaultBalance'[i] = vaultBalance[i]
    BY <1>1, <1>2, DebitAt
<1>4. Left(b) = net + fee
    BY <1>2, <1>3 DEF Left
<1>5. /\ c \in [Accounts -> [Assets -> Nat]]
      /\ c[r][b] = collateralOf[r][b] + net
  <2>1. c[r] = Credit(collateralOf[r], b, net) /\ collateralOf[r] \in [Assets -> Nat]
      BY <1>1 DEF CreditAsset
  <2>2. c[r][b] = collateralOf[r][b] + net
      BY <2>1, CreditAt
  <2>3. c \in [Accounts -> [Assets -> Nat]]
    <3> DEFINE f == collateralOf
    <3>1. f \in [Accounts -> [Assets -> Nat]]
        BY <1>1
    <3> HIDE DEF f
    <3>2. CreditAsset(f, r, b, net) \in [Accounts -> [Assets -> Nat]]
        BY <3>1, CreditAssetType
    <3> QED BY <3>2 DEF f
  <2> QED BY <2>2, <2>3
<1>6. collateralOf' = CreditAsset(c, other, b, fee)
    BY DEF VaultPaysTwo
<1>7. collateralOf[r][b] \in Nat
    BY <1>1
<1> HIDE DEF c
<1>8. CASE other = r
  <2>1. collateralOf'[r] = Credit(c[r], b, fee) /\ c[r] \in [Assets -> Nat]
      BY <1>5, <1>6, <1>8 DEF CreditAsset
  <2>2. collateralOf'[r][b] = c[r][b] + fee
      BY <2>1, CreditAt
  <2>3. Kept(r, b) = 0
      BY <1>4, <1>5, <1>7, <2>2 DEF Kept, Paid
  <2> QED BY <1>3, <1>4, <1>8, <2>3
<1>9. CASE other # r
  <2>1. collateralOf'[r] = c[r]
      BY <1>5, <1>6, <1>9 DEF CreditAsset
  <2>2. Kept(r, b) = fee
      BY <1>4, <1>5, <1>7, <2>1 DEF Kept, Paid
  <2> QED BY <1>3, <1>4, <2>2
<1> QED BY <1>8, <1>9

\* Who is seen to redeem an asset is who burnt, and it is what was paid.
LEMMA RedemptionIsHis ==
    ASSUME Assumptions, IInv, NEW r \in Accounts, NEW k \in Nat, NEW b \in Assets,
           Burn(r, k), \A i \in Assets \ {b} : vaultBalance'[i] = vaultBalance[i],
           NEW acct \in Accounts, NEW a \in Assets, NEW n \in Nat, RedeemedAt(acct, a, n)
    PROVE  acct = r /\ a = b
<1>1. /\ dstableOf \in [Accounts -> Nat] /\ vaultBalance[a] \in Nat
    BY DEF IInv, TypeOK, TokenTypeOK, VaultTypeOK
<1>2. acct = r
    BY <1>1, DebitAt DEF Burn, RedeemedAt
<1>3. a = b
    BY <1>1 DEF RedeemedAt
<1> QED BY <1>2, <1>3

\* No other step burns dStable and takes collateral out of the vault.
LEMMA OnlyRedemptionsPay ==
    ASSUME Assumptions, IInv, Next,
           NEW acct \in Accounts, NEW a \in Assets, NEW n \in Nat, RedeemedAt(acct, a, n)
    PROVE  \E r \in Accounts, k \in Amounts, b \in Assets, min \in MinAmounts :
              redeem(r, k, b, min) \/ redeemAsProtocol(r, k, b, min)
<1>1. totalSupply \in Nat /\ Amounts \subseteq Nat /\ vaultBalance[a] \in Nat
    BY DEF IInv, TypeOK, TokenTypeOK, VaultTypeOK, Assumptions, VaultAssumption
<1>2. ~ UNCHANGED totalSupply /\ ~ UNCHANGED vaultBalance
    BY <1>1 DEF RedeemedAt
<1>3. CASE Users
  <2>1. ASSUME NEW u \in Accounts, NEW k \in Amounts, NEW b \in Assets, NEW min \in MinAmounts,
               issue(u, k, b, min)
        PROVE  FALSE
    <3>1. PICK m \in Nat : Mint(u, m)
      <4>1. assetValueFromAmount(b, k) \in Nat
          BY <1>1, ConversionTypes DEF IInv, TypeOK
      <4>2. baseValueToDstableAmount(assetValueFromAmount(b, k)) \in Nat
          BY <4>1, ConversionTypes DEF IInv, TypeOK
      <4> QED BY <2>1, <4>2 DEF issue
    <3>2. totalSupply' = totalSupply + m
        BY <3>1 DEF Mint
    <3> QED BY <1>1, <3>2 DEF RedeemedAt
  <2> QED BY <1>2, <1>3, <2>1
          DEF Users, tokenVars, tokenTransfer, Move, vaultVars
<1>4. CASE FlashLoans \/ IssuerSteps
    BY <1>2, <1>4 DEF FlashLoans, IssuerSteps, issueUsingExcessCollateral, increaseAmoSupply,
                      vaultVars
<1>5. CASE AmoSteps
    BY <1>2, <1>5 DEF AmoSteps, enableAmoVault, disableAmoVault, allocateAmo, deallocateAmo,
           decreaseAmoSupply, transferFromAmoVaultToHoldingVault,
           transferFromHoldingVaultToAmoVault, withdrawProfits, vaultVars, tokenVars
<1>6. CASE Exchanges \/ Trades \/ Listing \/ PriceMoves
    BY <1>2, <1>6 DEF Exchanges, Trades, Listing, PriceMoves, tokenVars
<1>7. CASE Pauses \/ Fees
    BY <1>2, <1>7 DEF Pauses, Fees, setTokenPaused, setMintingPaused, setRedemptionPaused,
           setAssetMintingPause, setAssetRedemptionPause, setFeeReceiver,
           setDefaultRedemptionFee, setCollateralRedemptionFee, clearCollateralRedemptionFee,
           vaultVars
<1> QED BY <1>3, <1>4, <1>5, <1>6, <1>7 DEF Next

\* RedeemerV2's rate and flag hold what was said last.
SaidOK == said = [default |-> defaultRedemptionFeeBps,
                  own |-> [a \in Assets |-> IF isCollateralFeeOverridden[a]
                                            THEN {collateralRedemptionFeeBps[a]} ELSE {}]]

LEMMA HistoryHidden == HistorySpec => Spec
<1>1. [HistoryNext]_<<vars, said>> => [Next]_vars
    BY DEF HistoryNext, FeesAreSaid, SaysNothing, Fees, Next
<1> QED BY <1>1, PTL DEF HistorySpec, Spec

LEMMA SaidStays ==
    ASSUME SaidOK, UNCHANGED feeVars, UNCHANGED said
    PROVE  SaidOK'
BY DEF SaidOK, feeVars

LEMMA SaidKept ==
    ASSUME IInv, SaidOK, [HistoryNext]_<<vars, said>>
    PROVE  SaidOK'
<1>1. /\ collateralRedemptionFeeBps \in [Assets -> 0..MaxFeeBps]
      /\ isCollateralFeeOverridden \in [Assets -> BOOLEAN]
    BY DEF IInv, TypeOK, RedeemerTypeOK
<1>2. CASE FeesAreSaid
  <2>1. CASE \E acct \in Accounts : setFeeReceiver(acct) /\ UNCHANGED said
      BY <2>1 DEF setFeeReceiver, SaidOK
  <2>2. ASSUME NEW bps, setDefaultRedemptionFee(bps), said' = [said EXCEPT !.default = bps]
        PROVE  SaidOK'
      BY <2>2 DEF setDefaultRedemptionFee, SaidOK
  <2>3. ASSUME NEW bps, NEW a \in Assets, setCollateralRedemptionFee(a, bps),
               said' = [said EXCEPT !.own[a] = {bps}]
        PROVE  SaidOK'
      BY <1>1, <2>3 DEF setCollateralRedemptionFee, SaidOK
  <2>4. ASSUME NEW a \in Assets, clearCollateralRedemptionFee(a),
               said' = [said EXCEPT !.own[a] = {}]
        PROVE  SaidOK'
      BY <1>1, <2>4 DEF clearCollateralRedemptionFee, SaidOK
  <2> QED BY <1>2, <2>1, <2>2, <2>3, <2>4 DEF FeesAreSaid
<1>3. CASE SaysNothing /\ UNCHANGED said
  <2>1. UNCHANGED feeVars
    <3>1. CASE Users
        BY <3>1 DEF Users, redeem, redeemAsProtocol, offChain, redeemerVars
    <3>2. CASE FlashLoans \/ AmoSteps \/ IssuerSteps \/ Exchanges \/ Trades \/ Listing \/ PriceMoves
        BY <3>2 DEF FlashLoans, AmoSteps, IssuerSteps, Exchanges, Trades, Listing, PriceMoves,
               offChain, redeemerVars
    <3>3. CASE Pauses
        BY <3>3 DEF Pauses, setRedemptionPaused, setAssetRedemptionPause, offChain, redeemerVars
    <3> QED BY <1>3, <3>1, <3>2, <3>3 DEF SaysNothing
  <2> QED BY <1>3, <2>1, SaidStays
<1>4. CASE UNCHANGED <<vars, said>>
    BY <1>4, SaidStays DEF vars, redeemerVars
<1> QED BY <1>2, <1>3, <1>4 DEF HistoryNext

\* A fee at the rate of the contract is the fee that was said.
LEMMA FeeIsAgreed ==
    ASSUME IInv, SaidOK, NEW a \in Assets, NEW total, Left(a) = total
    PROVE  feeCollateral(a, total) \in AgreedFees(a)
<1>1. isCollateralFeeOverridden[a] \in BOOLEAN
    BY DEF IInv, TypeOK, RedeemerTypeOK
<1>2. AgreedBps(a) = {currentFeeBps(a)}
    BY <1>1 DEF AgreedBps, SaidOK, currentFeeBps
<1> QED BY <1>2 DEF AgreedFees, feeCollateral

\* What one call of redeem costs.
LEMMA RedeemCosts ==
    ASSUME Assumptions, IInv, SaidOK, NEW r \in Accounts, NEW k \in Nat, NEW b \in Assets,
           NEW min, redeem(r, k, b, min)
    PROVE  /\ Kept(r, b) \in {0} \cup AgreedFees(b)
           /\ r # feeReceiver => Kept(r, b) \in AgreedFees(b)
           /\ Kept(r, b) * OneHundredPercentBps <= Left(b) * MaxFeeBps
           /\ Left(b) \in Nat /\ Burn(r, k)
           /\ \A i \in Assets \ {b} : vaultBalance'[i] = vaultBalance[i]
<1> DEFINE total == totalCollateralFor(b, k)
           fee   == feeCollateral(b, total)
<1>1. HasPrice(b) /\ Burn(r, k) /\ VaultPaysTwo(r, total - fee, feeReceiver, fee, b)
    BY DEF redeem
<1>2. /\ VaultTypeOK /\ feeReceiver \in Accounts
      /\ MaxFeeBps \in Nat /\ OneHundredPercentBps \in Nat
    BY DEF IInv, TypeOK, RedeemerTypeOK, Assumptions, RedeemerAssumption
<1>3. dstableAmountToBaseValue(k) \in Nat
    BY <1>2, ConversionTypes
<1>4. total \in Nat
    BY <1>1, <1>2, <1>3, ConversionTypes DEF totalCollateralFor
<1>5. /\ fee \in Nat /\ fee <= total
      /\ fee * OneHundredPercentBps <= total * MaxFeeBps
    BY <1>4, FeeWithinTotal
<1>6. Left(b) = total => fee \in AgreedFees(b)
    BY FeeIsAgreed
<1> HIDE DEF fee, total
<1>7. total - fee \in Nat /\ (total - fee) + fee = total
    BY <1>4, <1>5
<1>8. /\ Left(b) = total /\ Kept(r, b) \in {0, fee}
      /\ r # feeReceiver => Kept(r, b) = fee
      /\ \A i \in Assets \ {b} : vaultBalance'[i] = vaultBalance[i]
  <2>1. Left(b) = (total - fee) + fee /\ Kept(r, b) \in {0, fee}
        /\ (r # feeReceiver => Kept(r, b) = fee)
        /\ \A i \in Assets \ {b} : vaultBalance'[i] = vaultBalance[i]
      BY <1>1, <1>2, <1>5, <1>7, PaymentKeeps
  <2> QED BY <1>7, <2>1
<1>9. total * MaxFeeBps \in Nat
    BY <1>2, <1>4, ProductNat
<1>10. Kept(r, b) * OneHundredPercentBps <= Left(b) * MaxFeeBps
    BY <1>2, <1>5, <1>8, <1>9
<1> QED BY <1>1, <1>4, <1>6, <1>8, <1>10

\* What one call of redeemAsProtocol costs: nothing.
LEMMA ProtocolKeepsAll ==
    ASSUME Assumptions, IInv, NEW r \in Accounts, NEW k \in Nat, NEW b \in Assets,
           NEW min, redeemAsProtocol(r, k, b, min)
    PROVE  /\ Kept(r, b) = 0 /\ Left(b) \in Nat /\ Burn(r, k)
           /\ \A i \in Assets \ {b} : vaultBalance'[i] = vaultBalance[i]
<1> DEFINE total == totalCollateralFor(b, k)
<1>1. HasPrice(b) /\ Burn(r, k) /\ VaultPaysTwo(r, total, r, 0, b)
    BY DEF redeemAsProtocol, VaultPays
<1>2. VaultTypeOK
    BY DEF IInv, TypeOK
<1>3. dstableAmountToBaseValue(k) \in Nat
    BY <1>2, ConversionTypes
<1>4. total \in Nat
    BY <1>1, <1>2, <1>3, ConversionTypes DEF totalCollateralFor
<1> HIDE DEF total
<1> QED BY <1>1, <1>4, PaymentKeeps

\* Whatever was set, overridden and cleared before, a redeemer gets the collateral
\* he pays for less nothing or the fee that was said last, and redeem charges it.
THEOREM RedeemersAreServed == HistorySpec => RedeemerGetsHisShare
<1>0. Assumptions
    BY AccountAssumption, VaultAssumption, TokenAssumption, AmoAssumption,
       RedeemerAssumption DEF Assumptions
<1>1. HistorySpec => []IInv
    BY HistoryHidden, InductiveInvariant, PTL
<1>2. HistorySpec => []SaidOK
  <2>1. Init /\ SaidInit => SaidOK
      BY DEF Init, SaidInit, RedeemerInit, SaidOK
  <2>2. IInv /\ SaidOK /\ [HistoryNext]_<<vars, said>> => SaidOK'
      BY SaidKept
  <2> QED BY <1>1, <2>1, <2>2, PTL DEF HistorySpec
<1> DEFINE Costs(acct, a, n) ==
               /\ RedeemedAt(acct, a, n) =>
                     /\ Kept(acct, a) \in {0} \cup AgreedFees(a)
                     /\ Kept(acct, a) * OneHundredPercentBps <= Left(a) * MaxFeeBps
               /\ \A min \in MinAmounts :
                     redeem(acct, n, a, min) /\ acct # feeReceiver
                        => Kept(acct, a) \in AgreedFees(a)
           Step == \A acct \in Accounts, a \in Assets, dstableAmount \in Amounts :
                      Costs(acct, a, dstableAmount)
<1>3. IInv /\ SaidOK /\ [HistoryNext]_<<vars, said>> => [Step]_vars
  <2> SUFFICES ASSUME IInv, SaidOK, HistoryNext, NEW acct \in Accounts, NEW a \in Assets,
                      NEW n \in Amounts
               PROVE  Costs(acct, a, n)
      BY DEF vars
  <2>1. n \in Nat /\ Amounts \subseteq Nat
      BY <1>0 DEF Assumptions, VaultAssumption
  <2>2. ASSUME RedeemedAt(acct, a, n)
        PROVE  /\ Kept(acct, a) \in {0} \cup AgreedFees(a)
               /\ Kept(acct, a) * OneHundredPercentBps <= Left(a) * MaxFeeBps
    <3>1. Next
        BY DEF HistoryNext, FeesAreSaid, SaysNothing, Fees, Next
    <3>2. PICK r \in Accounts, k \in Amounts, b \in Assets, min \in MinAmounts :
              redeem(r, k, b, min) \/ redeemAsProtocol(r, k, b, min)
        BY <1>0, <2>1, <2>2, <3>1, OnlyRedemptionsPay
    <3>3. k \in Nat
        BY <2>1
    <3>4. CASE redeem(r, k, b, min)
      <4>1. acct = r /\ a = b
          BY <1>0, <2>1, <2>2, <3>3, <3>4, RedeemCosts, RedemptionIsHis
      <4> QED BY <1>0, <3>3, <3>4, <4>1, RedeemCosts
    <3>5. CASE redeemAsProtocol(r, k, b, min)
      <4>1. acct = r /\ a = b
          BY <1>0, <2>1, <2>2, <3>3, <3>5, ProtocolKeepsAll, RedemptionIsHis
      <4>2. Kept(acct, a) = 0 /\ Left(a) \in Nat
          BY <1>0, <3>3, <3>5, <4>1, ProtocolKeepsAll
      <4>3. /\ OneHundredPercentBps \in Nat /\ MaxFeeBps \in Nat
            /\ Left(a) * MaxFeeBps \in Nat
          BY <1>0, <4>2, ProductNat DEF Assumptions, RedeemerAssumption
      <4> QED BY <4>2, <4>3
    <3> QED BY <3>2, <3>4, <3>5
  <2>3. ASSUME NEW min \in MinAmounts, redeem(acct, n, a, min), acct # feeReceiver
        PROVE  Kept(acct, a) \in AgreedFees(a)
      BY <1>0, <2>1, <2>3, RedeemCosts
  <2> QED BY <2>2, <2>3
<1> QED BY <1>1, <1>2, <1>3, PTL DEF HistorySpec, RedeemerGetsHisShare

-----------------------------------------------------------------------------
(* What a vault is left with *)

\* The worth of the collateral of one account.
Worth(b) == SumTo([a \in Assets |-> assetValueFromAmount(a, b[a])], NumAssets)

\* A debit lowers the worth by the value of what is taken and at most one more.
LEMMA WorthOfDebit ==
    ASSUME Assumptions, VaultTypeOK, NEW b \in [Assets -> Nat],
           NEW a \in Assets, NEW n \in Nat, n <= b[a]
    PROVE  /\ Worth(b) \in Nat /\ Worth(Debit(b, a, n)) \in Nat
           /\ Worth(b) <= Worth(Debit(b, a, n)) + assetValueFromAmount(a, n) + 1
<1> DEFINE c == Debit(b, a, n)
           f == [i \in Assets |-> assetValueFromAmount(i, b[i])]
           g == [i \in Assets |-> assetValueFromAmount(i, c[i])]
<1>1. /\ c \in [Assets -> Nat] /\ c[a] = b[a] - n
      /\ \A i \in Assets \ {a} : c[i] = b[i]
    BY DebitAt
<1> HIDE DEF c
<1>2. f \in [Assets -> Nat] /\ g \in [Assets -> Nat]
    BY <1>1, ValueAtType
<1>3. NumAssets \in Nat /\ Assets = 1..NumAssets
    BY DEF Assumptions, VaultAssumption, Assets
<1>4. SumTo(f, NumAssets) \in Nat /\ SumTo(g, NumAssets) \in Nat
    BY <1>2, <1>3, SumNat
<1>5. \A i \in Assets \ {a} : g[i] = f[i]
    BY <1>1
<1>6. f[a] = assetValueFromAmount(a, b[a]) /\ g[a] = assetValueFromAmount(a, b[a] - n)
    BY <1>1
<1>7. f[a] <= g[a] + assetValueFromAmount(a, n) + 1
    <2>1. price[a] \in Nat /\ assetUnit[a] \in Nat \ {0} /\ b[a] \in Nat
        BY ValueAtType
    <2> QED BY <1>6, <2>1, MulDivTakingQuotient DEF assetValueFromAmount, ValueAt
<1> HIDE DEF f, g
<1>8. SumTo(g, NumAssets) = SumTo(f, NumAssets) + g[a] - f[a]
    <2>1. f \in [1..NumAssets -> Int] /\ g \in [1..NumAssets -> Int]
        BY <1>2, <1>3
    <2> QED BY <1>3, <1>5, <2>1, SumUpdate
<1>9. f[a] \in Nat /\ g[a] \in Nat /\ assetValueFromAmount(a, n) \in Nat
    BY <1>2, ValueAtType
<1>10. SumTo(f, NumAssets) <= SumTo(g, NumAssets) + assetValueFromAmount(a, n) + 1
    BY <1>4, <1>7, <1>8, <1>9
<1> QED BY <1>4, <1>10 DEF Worth, f, g, c

LEMMA ProfitsLeavePrincipal ==
    ASSUME Assumptions, IInv, NEW v \in AmoVaults, NEW to \in Accounts, NEW a \in Assets,
           NEW n \in Amounts, withdrawProfits(v, to, a, n)
    PROVE  availableVaultProfitsInBase(v)' >= -1
<1> DEFINE b == collateralOf[v]
           c == collateralOf'[v]
           d == DebitAsset(collateralOf, v, a, n)
           w == assetValueFromAmount(a, n)
           rest == dstableAmountToBaseValue(dstableOf[v]) - dstableAmountToBaseValue(allocation[v])
<1>1. /\ v \in Accounts /\ n \in Nat /\ VaultTypeOK
      /\ collateralOf \in [Accounts -> [Assets -> Nat]] /\ b \in [Assets -> Nat]
      /\ dstableOf[v] \in Nat /\ allocation[v] \in Nat
    BY DEF Assumptions, AmoAssumption, VaultAssumption, IInv, TypeOK, VaultTypeOK,
           TokenTypeOK, AmoTypeOK
<1>2. /\ n <= b[a] /\ collateralOf' = CreditAsset(d, to, a, n)
      /\ UNCHANGED <<price, dstableOf, allocation>>
    BY DEF withdrawProfits, CollateralChangesHands, tokenVars, amoVars
<1>3. d \in [Accounts -> [Assets -> Nat]] /\ d[v] = Debit(b, a, n)
    BY <1>1, <1>2, DebitAssetType DEF DebitAsset
<1> HIDE DEF d
<1>4. c = b \/ c = Debit(b, a, n)
  <2>1. CASE to = v
    <3>1. c = Credit(Debit(b, a, n), a, n)
        BY <1>1, <1>2, <1>3, <2>1 DEF CreditAsset
    <3>2. Credit(Debit(b, a, n), a, n) = b
        BY <1>1, <1>2, CreditUndoesDebit
    <3> QED BY <3>1, <3>2
  <2>2. CASE to # v
    <3>1. CreditAsset(d, to, a, n)[v] = d[v]
        BY <1>1, <1>3, <2>2 DEF CreditAsset
    <3> QED BY <1>2, <1>3, <3>1
  <2> QED BY <2>1, <2>2
<1>5. /\ rest \in Int /\ w \in Nat
    BY <1>1, ConversionTypes
<1>6. /\ availableVaultProfitsInBase(v) = Worth(b) + rest
      /\ availableVaultProfitsInBase(v)' = Worth(c) + rest
  <2>1. Worth(b) \in Nat /\ Worth(c) \in Nat
      BY <1>1, <1>2, <1>4, WorthOfDebit
  <2>2. /\ dstableAmountToBaseValue(dstableOf[v]) \in Nat
        /\ dstableAmountToBaseValue(allocation[v]) \in Nat
      BY <1>1, ConversionTypes
  <2>3. /\ availableVaultProfitsInBase(v)
             = (Worth(b) + dstableAmountToBaseValue(dstableOf[v]))
                 - dstableAmountToBaseValue(allocation[v])
        /\ availableVaultProfitsInBase(v)'
             = (Worth(c) + dstableAmountToBaseValue(dstableOf[v]))
                 - dstableAmountToBaseValue(allocation[v])
      BY <1>2 DEF availableVaultProfitsInBase, amoVaultTotalValue, Worth,
                  dstableAmountToBaseValue, assetValueFromAmount
  <2> QED BY <2>1, <2>2, <2>3
<1>7. w <= Worth(b) + rest
    BY <1>6 DEF withdrawProfits, ProfitCovers
<1>8. Worth(b) \in Nat /\ Worth(c) \in Nat /\ Worth(b) <= Worth(c) + w + 1
    BY <1>1, <1>2, <1>4, <1>5, WorthOfDebit
<1> HIDE DEF b, c, w, rest
<1> QED BY <1>5, <1>6, <1>7, <1>8

\* Taking profits leaves an AMO vault worth its allocation, or one base unit less.
THEOREM PrincipalIsKept == Spec => PrincipalStaysInVault
<1>0. Assumptions
    BY AccountAssumption, VaultAssumption, TokenAssumption, AmoAssumption,
       RedeemerAssumption DEF Assumptions
<1> DEFINE Step == \A v \in AmoVaults, to \in Accounts, a \in Assets, amount \in Amounts :
                      withdrawProfits(v, to, a, amount)
                         => availableVaultProfitsInBase(v)' >= -1
<1>1. IInv => [Step]_vars
    BY <1>0, ProfitsLeavePrincipal
<1> QED BY <1>1, InductiveInvariant, PTL DEF Spec, PrincipalStaysInVault


-----------------------------------------------------------------------------
(* With AmoManagerV2: where the debt tokens are *)

AssumptionsV2 == Assumptions /\ DebtAssumption /\ AmoV2Assumption

\* What the accounts hold of the debt token, in balances c.
HeldIn(c) == [acct \in Accounts |-> c[acct][Debt]]

\* The supply of the debt token is what vault and accounts hold of it.
DebtAddsUp == debtSupply = vaultBalance[Debt] + SumTo(HeldIn(collateralOf), NumAccounts)

IInvV2 == IInv /\ DebtTypeOK /\ AmoV2TypeOK /\ DebtAddsUp /\ DebtStaysInVault

HoldingsMove(c, d, n) ==
    /\ SumTo(HeldIn(c), NumAccounts) \in Nat /\ SumTo(HeldIn(d), NumAccounts) \in Nat
    /\ SumTo(HeldIn(d), NumAccounts) = SumTo(HeldIn(c), NumAccounts) + n

LEMMA OneHolding ==
    ASSUME Assumptions, Debt \in Assets, NEW acct \in Accounts, NEW n \in Int,
           NEW c \in [Accounts -> [Assets -> Nat]], NEW d \in [Accounts -> [Assets -> Nat]],
           \A i \in Accounts \ {acct} : d[i][Debt] = c[i][Debt],
           d[acct][Debt] = c[acct][Debt] + n
    PROVE  HoldingsMove(c, d, n)
<1> DEFINE f == HeldIn(c)
           h == HeldIn(d)
<1>1. f \in [Accounts -> Nat] /\ h \in [Accounts -> Nat]
    BY DEF HeldIn
<1>2. (\A i \in Accounts \ {acct} : h[i] = f[i]) /\ h[acct] = f[acct] + n
    BY DEF HeldIn
<1> HIDE DEF f, h
<1>3. SumTo(h, NumAccounts) = SumTo(f, NumAccounts) + h[acct] - f[acct]
    BY <1>1, <1>2, CounterFollows DEF Assumptions
<1>4. SumTo(f, NumAccounts) \in Nat /\ SumTo(h, NumAccounts) \in Nat
    BY <1>1, SumNat DEF Assumptions, AccountAssumption, Accounts
<1>5. f[acct] \in Nat /\ h[acct] \in Nat
    BY <1>1
<1> QED BY <1>2, <1>3, <1>4, <1>5 DEF HoldingsMove, f, h

DebtPart(a, n) == IF a = Debt THEN n ELSE 0

LEMMA HoldingOfCredit ==
    ASSUME Assumptions, Debt \in Assets, NEW acct \in Accounts, NEW a \in Assets, NEW n \in Nat,
           NEW c \in [Accounts -> [Assets -> Nat]]
    PROVE  /\ CreditAsset(c, acct, a, n) \in [Accounts -> [Assets -> Nat]]
           /\ HoldingsMove(c, CreditAsset(c, acct, a, n), DebtPart(a, n))
<1> DEFINE d == CreditAsset(c, acct, a, n)
<1>1. d \in [Accounts -> [Assets -> Nat]]
    BY CreditAssetType
<1>2. /\ \A i \in Accounts \ {acct} : d[i] = c[i]
      /\ d[acct] = Credit(c[acct], a, n) /\ c[acct] \in [Assets -> Nat]
    BY DEF CreditAsset
<1>3. d[acct][Debt] = c[acct][Debt] + DebtPart(a, n) /\ DebtPart(a, n) \in Int
    BY <1>2 DEF Credit, DebtPart
<1> HIDE DEF d
<1>4. HoldingsMove(c, d, DebtPart(a, n))
    BY <1>1, <1>2, <1>3, OneHolding
<1> QED BY <1>1, <1>4 DEF d

LEMMA HoldingOfDebit ==
    ASSUME Assumptions, Debt \in Assets, NEW acct \in Accounts, NEW a \in Assets, NEW n \in Nat,
           NEW c \in [Accounts -> [Assets -> Nat]], n <= c[acct][a]
    PROVE  /\ DebitAsset(c, acct, a, n) \in [Accounts -> [Assets -> Nat]]
           /\ HoldingsMove(c, DebitAsset(c, acct, a, n), 0 - DebtPart(a, n))
<1> DEFINE d == DebitAsset(c, acct, a, n)
           k == 0 - DebtPart(a, n)
<1>1. d \in [Accounts -> [Assets -> Nat]]
    BY DebitAssetType
<1>2. /\ \A i \in Accounts \ {acct} : d[i] = c[i]
      /\ d[acct] = Debit(c[acct], a, n) /\ c[acct] \in [Assets -> Nat]
    BY DEF DebitAsset
<1>3. d[acct][Debt] = c[acct][Debt] + k /\ k \in Int
    BY <1>2 DEF Debit, DebtPart
<1> HIDE DEF d, k
<1>4. HoldingsMove(c, d, k)
    BY <1>1, <1>2, <1>3, OneHolding
<1> QED BY <1>1, <1>4 DEF d, k

\* A step that moves collateral between vault and accounts moves it all.
DebtConserved ==
    /\ vaultBalance'[Debt] + SumTo(HeldIn(collateralOf'), NumAccounts)
          = vaultBalance[Debt] + SumTo(HeldIn(collateralOf), NumAccounts)

LEMMA ReceiptConserves ==
    ASSUME Assumptions, Debt \in Assets, BalancesOK,
           NEW acct \in Accounts, NEW a \in Assets, NEW n \in Nat, VaultReceives(acct, a, n)
    PROVE  DebtConserved /\ (a # Debt => vaultBalance'[Debt] = vaultBalance[Debt])
<1>1. /\ collateralOf' = DebitAsset(collateralOf, acct, a, n) /\ n <= collateralOf[acct][a]
      /\ vaultBalance' = Credit(vaultBalance, a, n)
    BY DEF VaultReceives
<1>2. HoldingsMove(collateralOf, collateralOf', 0 - DebtPart(a, n))
    BY <1>1, HoldingOfDebit DEF BalancesOK
<1>3. vaultBalance'[Debt] = vaultBalance[Debt] + DebtPart(a, n) /\ vaultBalance[Debt] \in Nat
    BY <1>1 DEF BalancesOK, Credit, DebtPart
<1>4. DebtPart(a, n) \in Nat /\ (a # Debt => DebtPart(a, n) = 0)
    BY DEF DebtPart
<1> QED BY <1>2, <1>3, <1>4 DEF DebtConserved, HoldingsMove

LEMMA PaymentConserves ==
    ASSUME Assumptions, Debt \in Assets, BalancesOK,
           NEW payee \in Accounts, NEW other \in Accounts, NEW a \in Assets,
           NEW n \in Nat, NEW k \in Nat, VaultPaysTwo(payee, n, other, k, a)
    PROVE  DebtConserved /\ (a # Debt => vaultBalance'[Debt] = vaultBalance[Debt])
<1> DEFINE mid == CreditAsset(collateralOf, payee, a, n)
<1>1. /\ collateralOf' = CreditAsset(mid, other, a, k) /\ n + k <= vaultBalance[a]
      /\ vaultBalance' = Debit(vaultBalance, a, n + k)
    BY DEF VaultPaysTwo
<1>2. /\ mid \in [Accounts -> [Assets -> Nat]]
      /\ HoldingsMove(collateralOf, mid, DebtPart(a, n))
    BY HoldingOfCredit DEF BalancesOK
<1> HIDE DEF mid
<1>3. HoldingsMove(mid, collateralOf', DebtPart(a, k))
    BY <1>1, <1>2, HoldingOfCredit
<1>4. vaultBalance'[Debt] = vaultBalance[Debt] - DebtPart(a, n + k) /\ vaultBalance[Debt] \in Nat
    BY <1>1 DEF BalancesOK, Debit, DebtPart
<1>5. /\ DebtPart(a, n) \in Nat /\ DebtPart(a, k) \in Nat
      /\ DebtPart(a, n + k) = DebtPart(a, n) + DebtPart(a, k)
      /\ (a # Debt => DebtPart(a, n + k) = 0)
    BY DEF DebtPart
<1> QED BY <1>2, <1>3, <1>4, <1>5 DEF DebtConserved, HoldingsMove

LEMMA ExchangeConserves ==
    ASSUME Assumptions, Debt \in Assets, BalancesOK, NEW acct \in Accounts,
           NEW from \in Assets, NEW to \in Assets, NEW n \in Nat, NEW k \in Nat,
           exchangeCollateral(acct, n, from, k, to)
    PROVE  /\ DebtConserved
           /\ from # Debt /\ to # Debt => vaultBalance'[Debt] = vaultBalance[Debt]
<1> DEFINE received == Credit(vaultBalance, from, n)
           given    == DebitAsset(collateralOf, acct, from, n)
<1>1. /\ n <= collateralOf[acct][from] /\ k <= received[to]
      /\ vaultBalance' = Debit(received, to, k)
      /\ collateralOf' = CreditAsset(given, acct, to, k)
    BY DEF exchangeCollateral
<1>2. /\ given \in [Accounts -> [Assets -> Nat]]
      /\ HoldingsMove(collateralOf, given, 0 - DebtPart(from, n))
    BY <1>1, HoldingOfDebit DEF BalancesOK
<1>3. /\ received \in [Assets -> Nat] /\ vaultBalance[Debt] \in Nat
      /\ received[Debt] = vaultBalance[Debt] + DebtPart(from, n)
    BY DEF BalancesOK, Credit, DebtPart
<1> HIDE DEF received, given
<1>4. HoldingsMove(given, collateralOf', DebtPart(to, k))
    BY <1>1, <1>2, HoldingOfCredit
<1>5. vaultBalance'[Debt] = received[Debt] - DebtPart(to, k)
    BY <1>1, <1>3 DEF Debit, DebtPart
<1>6. /\ DebtPart(from, n) \in Nat /\ DebtPart(to, k) \in Nat
      /\ (from # Debt => DebtPart(from, n) = 0) /\ (to # Debt => DebtPart(to, k) = 0)
    BY DEF DebtPart
<1> QED BY <1>2, <1>3, <1>4, <1>5, <1>6 DEF DebtConserved, HoldingsMove

-----------------------------------------------------------------------------
(* The steps of dSTABLE *)

\* Nobody but vault and manager may ever hold the debt token.
Closed == Allowlistable \subseteq {TheVault, TheManager}

LEMMA NoAccountAllowed ==
    ASSUME Assumptions, DebtTypeOK, Closed, NEW acct \in Accounts, NEW holders,
           acct \in holders, NEW a, Allowlisted(a, holders)
    PROVE  a # Debt
<1>1. NumAccounts \in Nat
    BY DEF Assumptions, AccountAssumption
<1>2. acct # TheVault /\ acct # TheManager
    BY <1>1 DEF Accounts, TheVault, TheManager
<1>3. acct \notin debtAllowlist
    BY <1>2 DEF Closed, DebtTypeOK
<1> QED BY <1>3 DEF Allowlisted

KeepsLedger == DebtConserved /\ (Closed => vaultBalance'[Debt] = vaultBalance[Debt])

LEMMA UsersKeepLedger ==
    ASSUME Assumptions, Debt \in Assets, IInv, DebtTypeOK, UsersV2
    PROVE  KeepsLedger /\ Users
<1>1. PICK acct \in Accounts \ {AmoMgr}, amount \in Amounts, a \in Assets :
         \/ \E min \in MinAmounts :
               \/ a # Debt /\ issue(acct, amount, a, min) /\ UNCHANGED redeemerVars
               \/ /\ redeem(acct, amount, a, min)
                  /\ Allowlisted(a, {TheVault} \cup PaidByRedeem(acct, a, amount))
               \/ /\ redeemAsProtocol(acct, amount, a, min)
                  /\ Allowlisted(a, {TheVault, acct})
         \/ /\ vaultDeposit(acct, a, amount)
            /\ Allowlisted(a, {TheVault, acct})
            /\ UNCHANGED <<tokenVars, offChain>>
    BY DEF UsersV2
<1>2. amount \in Nat /\ VaultTypeOK /\ BalancesOK /\ feeReceiver \in Accounts
    BY DEF Assumptions, VaultAssumption, IInv, TypeOK, VaultTypeOK, BalancesOK, RedeemerTypeOK
<1>3. HasPrice(a) => totalCollateralFor(a, amount) \in Nat
    BY <1>2, ConversionTypes DEF totalCollateralFor
<1>4. ASSUME NEW min \in MinAmounts, a # Debt, issue(acct, amount, a, min)
      PROVE  KeepsLedger
    BY <1>2, <1>4, ReceiptConserves DEF issue, KeepsLedger
<1>5. ASSUME NEW min \in MinAmounts, redeem(acct, amount, a, min),
             Allowlisted(a, {TheVault} \cup PaidByRedeem(acct, a, amount))
      PROVE  KeepsLedger
    <2> DEFINE total == totalCollateralFor(a, amount)
               fee   == feeCollateral(a, total)
    <2>1. VaultPaysTwo(acct, total - fee, feeReceiver, fee, a) /\ HasPrice(a)
        BY <1>5 DEF redeem
    <2>2. total \in Nat
        BY <1>3, <2>1
    <2>3. fee \in Nat /\ fee <= total
        BY <2>2, FeeWithinTotal
    <2> HIDE DEF total, fee
    <2>4. total - fee \in Nat
        BY <2>2, <2>3
    <2>5. DebtConserved /\ (a # Debt => vaultBalance'[Debt] = vaultBalance[Debt])
        BY <1>2, <2>1, <2>3, <2>4, PaymentConserves
    <2>6. Closed => a # Debt
        BY <1>5, NoAccountAllowed DEF PaidByRedeem
    <2> QED BY <2>5, <2>6 DEF KeepsLedger
<1>6. ASSUME NEW min \in MinAmounts, redeemAsProtocol(acct, amount, a, min),
             Allowlisted(a, {TheVault, acct})
      PROVE  KeepsLedger
    <2>1. VaultPays(acct, totalCollateralFor(a, amount), a) /\ HasPrice(a)
        BY <1>6 DEF redeemAsProtocol
    <2>2. DebtConserved /\ (a # Debt => vaultBalance'[Debt] = vaultBalance[Debt])
        BY <1>2, <1>3, <2>1, PaymentConserves DEF VaultPays
    <2>3. Closed => a # Debt
        BY <1>6, NoAccountAllowed
    <2> QED BY <2>2, <2>3 DEF KeepsLedger
<1>7. ASSUME vaultDeposit(acct, a, amount), Allowlisted(a, {TheVault, acct})
      PROVE  KeepsLedger
    <2>1. DebtConserved /\ (a # Debt => vaultBalance'[Debt] = vaultBalance[Debt])
        BY <1>2, <1>7, ReceiptConserves DEF vaultDeposit
    <2>2. Closed => a # Debt
        BY <1>7, NoAccountAllowed
    <2> QED BY <2>1, <2>2 DEF KeepsLedger
<1>8. KeepsLedger
    BY <1>1, <1>4, <1>5, <1>6, <1>7
<1>9. Users
    BY <1>1 DEF Users
<1> QED BY <1>8, <1>9

LEMMA ExchangesKeepLedger ==
    ASSUME Assumptions, Debt \in Assets, IInv, DebtTypeOK, ExchangesV2
    PROVE  KeepsLedger /\ Exchanges
<1>1. PICK acct \in Accounts, amount \in Amounts, from \in Assets, to \in Assets,
           min \in MinAmounts :
         /\ Allowlisted(from, {TheVault, acct}) /\ Allowlisted(to, {TheVault, acct})
         /\ exchangeMaxCollateral(acct, amount, from, to, min)
    BY DEF ExchangesV2
<1>2. amount \in Nat /\ VaultTypeOK /\ BalancesOK
    BY DEF Assumptions, VaultAssumption, IInv, TypeOK, VaultTypeOK, BalancesOK
<1>3. assetValueFromAmount(from, amount) \in Nat
    BY <1>2, ConversionTypes
<1>4. maxExchangeAmount(amount, from, to) \in Nat
    BY <1>1, <1>2, <1>3, ConversionTypes DEF maxExchangeAmount, exchangeMaxCollateral
<1>5. /\ DebtConserved
      /\ from # Debt /\ to # Debt => vaultBalance'[Debt] = vaultBalance[Debt]
    BY <1>1, <1>2, <1>4, ExchangeConserves DEF exchangeMaxCollateral
<1>6. Closed => from # Debt /\ to # Debt
    BY <1>1, NoAccountAllowed
<1>7. Exchanges
    BY <1>1 DEF ExchangesV2, Exchanges
<1> QED BY <1>5, <1>6, <1>7 DEF KeepsLedger

LEMMA LedgerKeepsInvariant ==
    ASSUME IInvV2, IInv', KeepsLedger, UNCHANGED v2Vars
    PROVE  IInvV2'
<1>1. UNCHANGED debtSupply /\ UNCHANGED debtAllowlist /\ UNCHANGED amoV2Vars
    BY DEF v2Vars, debtVars
<1>2. DebtTypeOK' /\ AmoV2TypeOK'
    BY <1>1 DEF IInvV2, DebtTypeOK, AmoV2TypeOK, amoV2Vars
<1>3. DebtAddsUp' /\ DebtStaysInVault'
    BY <1>1 DEF IInvV2, KeepsLedger, DebtConserved, DebtAddsUp, DebtStaysInVault, Closed
<1> QED BY <1>2, <1>3 DEF IInvV2

StepsOfDStable ==
    /\ UsersV2 \/ ExchangesV2 \/ IssuerSteps \/ FlashLoans
       \/ Listing \/ PriceMoves \/ Pauses \/ Fees
    /\ UNCHANGED v2Vars

LEMMA DStableStepsKeep ==
    ASSUME AssumptionsV2, IInvV2, StepsOfDStable
    PROVE  IInvV2'
<1>1. Assumptions /\ IInv /\ DebtTypeOK /\ Debt \in Assets
    BY DEF AssumptionsV2, DebtAssumption, IInvV2
<1>2. CASE UsersV2
    BY <1>1, <1>2, UsersKeepLedger, UsersKeep, LedgerKeepsInvariant DEF StepsOfDStable
<1>3. CASE ExchangesV2
    BY <1>1, <1>3, ExchangesKeepLedger, CollateralStepsKeep, LedgerKeepsInvariant
       DEF StepsOfDStable
<1>4. CASE IssuerSteps \/ FlashLoans \/ Listing \/ PriceMoves \/ Pauses \/ Fees
    <2>1. UNCHANGED <<vaultBalance, collateralOf>>
        BY <1>4 DEF IssuerSteps, issueUsingExcessCollateral, increaseAmoSupply, FlashLoans,
           Listing, allowCollateral, disallowCollateral, PriceMoves, OracleMoves,
           Pauses, setMintingPaused, setRedemptionPaused, setAssetMintingPause,
           setAssetRedemptionPause, Fees, setFeeReceiver, setDefaultRedemptionFee,
           setCollateralRedemptionFee, clearCollateralRedemptionFee, vaultVars
    <2>2. KeepsLedger
        BY <2>1 DEF KeepsLedger, DebtConserved
    <2>3. IInv'
        BY <1>1, <1>4, IssuerStepsKeep, FlashLoansKeep, CollateralStepsKeep, PausesKeep, FeesKeep
    <2> QED BY <2>2, <2>3, LedgerKeepsInvariant DEF StepsOfDStable
<1> QED BY <1>2, <1>3, <1>4 DEF StepsOfDStable
-----------------------------------------------------------------------------
(* The steps of AmoManagerV2 *)

LEMMA DebtUnitsType ==
    ASSUME AssumptionsV2, NEW v \in Nat
    PROVE  baseToDebtUnits(v) \in Nat
<1>1. assetUnit[Debt] \in Nat /\ baseCurrencyUnit \in Nat \ {0}
    BY DEF AssumptionsV2, Assumptions, VaultAssumption, DebtAssumption
<1> QED BY <1>1, MulDivBounds DEF baseToDebtUnits

\* n debt tokens more, or fewer, in the vault and in the supply.
LEMMA SupplyAndVaultMove ==
    ASSUME AssumptionsV2, IInvV2, IInv', UNCHANGED <<amoV2Vars, debtAllowlist>>, NEW n \in Int,
           debtSupply' = debtSupply + n, vaultBalance'[Debt] = vaultBalance[Debt] + n,
           HeldIn(collateralOf') = HeldIn(collateralOf)
    PROVE  IInvV2'
<1>1. NumAccounts \in Nat /\ Debt \in Assets
    BY DEF AssumptionsV2, Assumptions, AccountAssumption, DebtAssumption
<1>2. vaultBalance[Debt] \in Nat /\ vaultBalance'[Debt] \in Nat
    BY <1>1 DEF IInvV2, IInv, TypeOK, VaultTypeOK
<1>3. SumTo(HeldIn(collateralOf), NumAccounts) \in Nat
  <2>1. HeldIn(collateralOf) \in [1..NumAccounts -> Nat]
      BY <1>1 DEF HeldIn, IInvV2, IInv, TypeOK, VaultTypeOK, Accounts
  <2> QED BY <1>1, <2>1, SumNat
<1>4. DebtAddsUp'
    BY <1>2, <1>3 DEF IInvV2, DebtAddsUp
<1>5. debtSupply' \in Nat
    BY <1>2, <1>3, <1>4 DEF DebtAddsUp
<1>6. DebtTypeOK' /\ AmoV2TypeOK'
    BY <1>5 DEF IInvV2, DebtTypeOK, AmoV2TypeOK, amoV2Vars
<1>7. DebtStaysInVault'
    BY DEF IInvV2, DebtStaysInVault
<1> QED BY <1>4, <1>6, <1>7 DEF IInvV2

LEMMA SupplyStepsKeep ==
    ASSUME AssumptionsV2, IInvV2, SupplySteps
    PROVE  IInvV2'
<1>1. PICK wallet \in Accounts, amount \in Amounts :
         increaseAmoSupplyTo(wallet, amount) \/ decreaseAmoSupplyFrom(wallet, amount)
    BY DEF SupplySteps
<1> DEFINE d == baseToDebtUnits(dstableAmountToBaseValue(amount))
<1>2. /\ Assumptions /\ IInv /\ Debt \in Assets /\ amount \in Nat
      /\ VaultTypeOK /\ vaultBalance \in [Assets -> Nat]
    BY DEF AssumptionsV2, Assumptions, VaultAssumption, DebtAssumption, IInvV2, IInv, TypeOK,
       VaultTypeOK
<1>3. d \in Nat
    BY <1>2, ConversionTypes, DebtUnitsType
<1>4. /\ UNCHANGED <<price, supported, collateralOf>> /\ UNCHANGED <<tokenPaused, flash>>
      /\ UNCHANGED <<amoV2Vars, debtAllowlist>>
      /\ UNCHANGED amoVars /\ UNCHANGED issuerVars /\ UNCHANGED redeemerVars
    BY <1>1 DEF SupplySteps, increaseAmoSupplyTo, decreaseAmoSupplyFrom, offChain
<1>5. CASE increaseAmoSupplyTo(wallet, amount)
  <2>1. /\ Mint(wallet, amount) /\ vaultBalance' = Credit(vaultBalance, Debt, d)
        /\ debtSupply' = debtSupply + d
      BY <1>5 DEF increaseAmoSupplyTo, DebtMinted
  <2> HIDE DEF d
  <2>2. vaultBalance' \in [Assets -> Nat] /\ vaultBalance'[Debt] = vaultBalance[Debt] + d
      BY <1>2, <1>3, <2>1, CreditAt
  <2>3. VaultTypeOK' /\ TokenPart'
      BY <1>2, <1>4, <2>1, <2>2, TokenEffects DEF VaultTypeOK
  <2>4. IInv'
      BY <1>2, <1>4, <2>3, UntouchedParts, PartsMakeIInv
  <2> QED BY <1>3, <1>4, <2>1, <2>2, <2>4, SupplyAndVaultMove
<1>6. CASE decreaseAmoSupplyFrom(wallet, amount)
  <2>1. /\ Burn(wallet, amount) /\ vaultBalance' = Debit(vaultBalance, Debt, d)
        /\ d <= vaultBalance[Debt] /\ debtSupply' = debtSupply - d
      BY <1>6 DEF decreaseAmoSupplyFrom, DebtBurned
  <2> DEFINE k == 0 - d
  <2>2. debtSupply \in Nat
      BY DEF IInvV2, DebtTypeOK
  <2> HIDE DEF d
  <2>3. vaultBalance' \in [Assets -> Nat] /\ vaultBalance'[Debt] = vaultBalance[Debt] - d
      BY <1>2, <1>3, <2>1, DebitAt
  <2>4. VaultTypeOK' /\ TokenPart'
      BY <1>2, <1>4, <2>1, <2>3, TokenEffects DEF VaultTypeOK
  <2>5. IInv'
      BY <1>2, <1>4, <2>4, UntouchedParts, PartsMakeIInv
  <2>6. k \in Int /\ debtSupply' = debtSupply + k /\ vaultBalance'[Debt] = vaultBalance[Debt] + k
      BY <1>2, <1>3, <2>1, <2>2, <2>3
  <2> HIDE DEF k
  <2> QED BY <1>4, <2>5, <2>6, SupplyAndVaultMove
<1> QED BY <1>1, <1>5, <1>6

LEMMA LoanStepsKeep ==
    ASSUME AssumptionsV2, IInvV2, LoanSteps
    PROVE  IInvV2'
<1>1. PICK wallet \in Accounts, a \in Assets, amount \in Amounts, bound \in MinAmounts :
         \/ borrowTo(wallet, a, amount, bound)
         \/ RepayLoan(wallet, a, amount, MaxUint - bound)
    BY DEF LoanSteps, repayFrom
<1> DEFINE d == baseToDebtUnits(assetValueFromAmount(a, amount))
<1>2. /\ Assumptions /\ IInv /\ Debt \in Assets /\ amount \in Nat
      /\ VaultTypeOK /\ vaultBalance \in [Assets -> Nat]
      /\ collateralOf \in [Accounts -> [Assets -> Nat]] /\ debtSupply \in Nat
    BY DEF AssumptionsV2, Assumptions, VaultAssumption, DebtAssumption, IInvV2, IInv, TypeOK,
       VaultTypeOK, DebtTypeOK
<1>3. d \in Nat
    BY <1>2, ConversionTypes, DebtUnitsType
<1>4. /\ a # Debt /\ UNCHANGED <<price, supported>> /\ UNCHANGED tokenVars
      /\ UNCHANGED <<amoV2Vars, debtAllowlist>>
      /\ UNCHANGED amoVars /\ UNCHANGED issuerVars /\ UNCHANGED redeemerVars
    BY <1>1 DEF LoanSteps, borrowTo, RepayLoan, LoanOf, offChain
<1>5. ASSUME collateralOf' \in [Accounts -> [Assets -> Nat]], vaultBalance' \in [Assets -> Nat]
      PROVE  IInv'
  <2>1. VaultTypeOK'
      BY <1>2, <1>4, <1>5 DEF VaultTypeOK
  <2> QED BY <1>2, <1>4, <2>1, UntouchedParts, PartsMakeIInv
<1>6. CASE borrowTo(wallet, a, amount, bound)
  <2> DEFINE owed == Credit(vaultBalance, Debt, d)
  <2>1. /\ amount <= vaultBalance[a] /\ debtSupply' = debtSupply + d
        /\ vaultBalance' = Debit(owed, a, amount)
        /\ collateralOf' = CreditAsset(collateralOf, wallet, a, amount)
      BY <1>6 DEF borrowTo, DebtMinted
  <2> HIDE DEF d
  <2>2. /\ owed \in [Assets -> Nat] /\ owed[Debt] = vaultBalance[Debt] + d
        /\ owed[a] = vaultBalance[a]
      BY <1>2, <1>3, <1>4 DEF Credit
  <2> HIDE DEF owed
  <2>3. vaultBalance' \in [Assets -> Nat] /\ vaultBalance'[Debt] = vaultBalance[Debt] + d
      BY <1>2, <1>4, <2>1, <2>2, DebitAt
  <2>4. collateralOf' \in [Accounts -> [Assets -> Nat]]
      BY <1>2, <2>1, CreditAssetType
  <2>5. HeldIn(collateralOf') = HeldIn(collateralOf)
      BY <1>2, <1>4, <2>1 DEF HeldIn, CreditAsset, Credit
  <2>6. IInv'
      BY <1>5, <2>3, <2>4
  <2> QED BY <1>3, <1>4, <2>1, <2>3, <2>5, <2>6, SupplyAndVaultMove
<1>7. CASE RepayLoan(wallet, a, amount, MaxUint - bound)
  <2> DEFINE paid == Credit(vaultBalance, a, amount)
             k    == 0 - d
  <2>1. /\ amount <= collateralOf[wallet][a] /\ d <= vaultBalance[Debt]
        /\ debtSupply' = debtSupply - d
        /\ vaultBalance' = Debit(paid, Debt, d)
        /\ collateralOf' = DebitAsset(collateralOf, wallet, a, amount)
      BY <1>7 DEF RepayLoan, DebtBurned
  <2> HIDE DEF d
  <2>2. paid \in [Assets -> Nat] /\ paid[Debt] = vaultBalance[Debt]
      BY <1>2, <1>4 DEF Credit
  <2> HIDE DEF paid
  <2>3. vaultBalance' \in [Assets -> Nat] /\ vaultBalance'[Debt] = vaultBalance[Debt] - d
      BY <1>2, <1>3, <2>1, <2>2, DebitAt
  <2>4. collateralOf' \in [Accounts -> [Assets -> Nat]]
      BY <1>2, <2>1, DebitAssetType
  <2>5. HeldIn(collateralOf') = HeldIn(collateralOf)
      BY <1>2, <1>4, <2>1 DEF HeldIn, DebitAsset, Debit
  <2>6. IInv'
      BY <1>5, <2>3, <2>4
  <2>7. k \in Int /\ debtSupply' = debtSupply + k /\ vaultBalance'[Debt] = vaultBalance[Debt] + k
      BY <1>2, <1>3, <2>1, <2>3
  <2> HIDE DEF k
  <2> QED BY <1>4, <2>5, <2>6, <2>7, SupplyAndVaultMove
<1> QED BY <1>1, <1>6, <1>7

LEMMA SettingsV2Keep ==
    ASSUME AssumptionsV2, IInvV2, SettingsV2
    PROVE  IInvV2'
<1>1. UNCHANGED vaultVars /\ UNCHANGED tokenVars /\ UNCHANGED amoVars
      /\ UNCHANGED issuerVars /\ UNCHANGED redeemerVars /\ UNCHANGED <<vaultBalance, collateralOf>>
    BY DEF SettingsV2, vars, vaultVars
<1>2. IInv'
    BY <1>1, UntouchedParts, PartsMakeIInv DEF IInvV2
<1>3. Tolerances \subseteq Nat /\ Prices \subseteq Nat
    BY DEF AssumptionsV2, Assumptions, AmoV2Assumption, VaultAssumption
<1>4. UNCHANGED debtSupply
    BY DEF SettingsV2, debtVars, setAllowlisted
<1>5. DebtTypeOK'
    BY <1>4 DEF SettingsV2, debtVars, setAllowlisted, DebtTypeOK, IInvV2
<1>6. AmoV2TypeOK'
  <2>1. AmoV2TypeOK
      BY DEF IInvV2
  <2>2. CASE UNCHANGED amoV2Vars
      BY <2>1, <2>2 DEF amoV2Vars, AmoV2TypeOK
  <2>3. CASE \E wallet \in Accounts \ {AmoMgr}, allowed \in BOOLEAN :
                 setAmoWalletAllowed(wallet, allowed)
      BY <2>1, <2>3 DEF setAmoWalletAllowed, AmoV2TypeOK
  <2>4. CASE \E t \in Tolerances : setTolerance(t)
      BY <1>3, <2>1, <2>4 DEF setTolerance, AmoV2TypeOK
  <2>5. CASE \E bps \in 0..OneHundredPercentBps : setPegDeviationBps(bps)
      BY <2>1, <2>5 DEF setPegDeviationBps, AmoV2TypeOK
  <2>6. CASE \E p \in Prices : DStablePriceMoves(p)
      BY <1>3, <2>1, <2>6 DEF DStablePriceMoves, AmoV2TypeOK
  <2> QED BY <2>2, <2>3, <2>4, <2>5, <2>6 DEF SettingsV2
<1>7. DebtAddsUp' /\ DebtStaysInVault'
    BY <1>1, <1>4 DEF IInvV2, DebtAddsUp, DebtStaysInVault
<1> QED BY <1>2, <1>5, <1>6, <1>7 DEF IInvV2

LEMMA InitIInvV2 ==
    ASSUME AssumptionsV2, InitV2
    PROVE  IInvV2
<1>1. IInv
    BY InitIInv DEF AssumptionsV2, InitV2
<1>2. DebtTypeOK
    BY DEF InitV2, DebtInit, DebtTypeOK
<1>3. AmoV2TypeOK
    BY DEF InitV2, AmoV2Init, AmoV2TypeOK, AssumptionsV2, AmoV2Assumption, Assumptions,
       VaultAssumption
<1>4. vaultBalance[Debt] = 0 /\ debtSupply = 0
    BY DEF InitV2, Init, VaultInit, DebtInit, AssumptionsV2, DebtAssumption
<1>5. SumTo(HeldIn(collateralOf), NumAccounts) = 0
  <2>1. HeldIn(collateralOf) = [acct \in 1..NumAccounts |-> 0] /\ NumAccounts \in Nat
      BY DEF HeldIn, InitV2, Init, VaultInit, AssumptionsV2, DebtAssumption, Assumptions,
         AccountAssumption, Accounts
  <2> QED BY <2>1, SumOfZeros
<1>6. DebtAddsUp /\ DebtStaysInVault
    BY <1>4, <1>5 DEF DebtAddsUp, DebtStaysInVault
<1> QED BY <1>1, <1>2, <1>3, <1>6 DEF IInvV2

\* The invariant of dSTABLE with AmoManagerV2: what it adds to that of dSTABLE is that
\* the supply of the debt token is what vault and accounts hold of it, without which
\* a burn could take it below zero.
THEOREM InductiveInvariantV2 == SpecV2 => []IInvV2
<1>0. AssumptionsV2
    BY AccountAssumption, VaultAssumption, TokenAssumption, AmoAssumption, RedeemerAssumption,
       DebtAssumption, AmoV2Assumption DEF AssumptionsV2, Assumptions
<1>1. InitV2 => IInvV2
    BY <1>0, InitIInvV2
<1>2. IInvV2 /\ [NextV2]_varsV2 => IInvV2'
  <2>1. ASSUME IInvV2, UNCHANGED varsV2 PROVE IInvV2'
    <3>1. UNCHANGED vars /\ UNCHANGED v2Vars /\ UNCHANGED <<vaultBalance, collateralOf>>
        BY <2>1 DEF varsV2, vars, vaultVars
    <3>2. IInv'
        BY <1>0, <2>1, <3>1, StepIInv DEF IInvV2, AssumptionsV2
    <3>3. KeepsLedger
        BY <3>1 DEF KeepsLedger, DebtConserved
    <3> QED BY <2>1, <3>1, <3>2, <3>3, LedgerKeepsInvariant
  <2>2. ASSUME IInvV2, NextV2 PROVE IInvV2'
      BY <1>0, <2>2, DStableStepsKeep, SupplyStepsKeep, LoanStepsKeep, SettingsV2Keep
         DEF NextV2, StepsOfDStable
  <2> QED BY <2>1, <2>2
<1> QED BY <1>1, <1>2, PTL DEF SpecV2

\* Nothing AmoManagerV2 burns, lends or takes back leaves its range, whoever is on the
\* allowlist of the debt token.
THEOREM TypeCorrectV2 == SpecV2 => []TypeOKV2
<1>1. IInvV2 => TypeOKV2
    BY DEF IInvV2, IInv, TypeOKV2
<1> QED BY <1>1, InductiveInvariantV2, PTL

\* While nobody else can be allowlisted, all debt tokens lie in the vault.
THEOREM DebtIsInVault == SpecV2 => []DebtStaysInVault
<1>1. IInvV2 => DebtStaysInVault
    BY DEF IInvV2
<1> QED BY <1>1, InductiveInvariantV2, PTL
-----------------------------------------------------------------------------
(* What the supply operations may cost the backing *)

\* An off-peg price within the guard, on n dStable.
LEMMA PegBounds ==
    ASSUME NEW p \in Nat, NEW B \in Nat \ {0}, NEW S \in Nat, NEW dev \in Nat, NEW n \in Nat,
           mulDiv(Distance(p, B), S, B) <= dev
    PROVE  /\ ((B - p) * n) * S <= (dev + 1) * n * B
           /\ ((p - B) * n) * S <= (dev + 1) * n * B
<1> DEFINE e == Distance(p, B)
           q == mulDiv(e, S, B)
<1>1. e \in Nat /\ B - p <= e /\ p - B <= e
    BY DEF Distance
<1> HIDE DEF e
<1>2. q \in Nat /\ e * S < q * B + B
    BY <1>1, MulDivBounds
<1>3. q <= dev
    BY DEF e
<1> HIDE DEF q
<1>4. e * S <= (dev + 1) * B
  <2>1. (q + 1) * B <= (dev + 1) * B /\ (q + 1) * B = q * B + B
      BY <1>2, <1>3, Scaled
  <2>2. e * S \in Nat /\ q * B \in Nat /\ (dev + 1) * B \in Nat
      BY <1>1, <1>2, ProductNat
  <2> QED BY <1>2, <2>1, <2>2
<1>5. (e * S) * n <= ((dev + 1) * B) * n /\ ((dev + 1) * B) * n = (dev + 1) * n * B
    BY <1>1, <1>4, ProductNat, Scaled
<1>6. \A x \in Int : x <= e => (x * n) * S <= (e * S) * n
  <2> SUFFICES ASSUME NEW x \in Int, x <= e PROVE (x * n) * S <= (e * S) * n
      OBVIOUS
  <2> DEFINE m == n * S
  <2>1. m \in Nat /\ (x * n) * S = x * m /\ (e * S) * n = e * m
      BY <1>1, ProductNat
  <2> HIDE DEF m
  <2>2. x * m <= e * m
      BY <1>1, <2>1
  <2> QED BY <2>1, <2>2
<1>7. /\ B - p \in Int /\ p - B \in Int
      /\ ((B - p) * n) * S \in Int /\ ((p - B) * n) * S \in Int
      /\ (e * S) * n \in Int /\ (dev + 1) * n * B \in Int
    BY <1>1
<1> QED BY <1>1, <1>5, <1>6, <1>7

\* n dStable minted: v their base value, d the debt tokens, q what the vault gains.
LEMMA MintedLoss ==
    ASSUME NEW n \in Nat, NEW U \in Nat \ {0}, NEW B \in Nat \ {0}, NEW A \in Nat \ {0},
           NEW p \in Nat, NEW v \in Nat, NEW d \in Nat, NEW q \in Nat,
           n * B <= v * U + U, v * A <= d * B + B, p * d <= q * A + A
    PROVE  n * B - q * U - (U + 2 + (p * U) \div B + (p * U) \div A) <= (B - p) * n
<1> DEFINE X == (p * U) \div B
           Y == (p * U) \div A
           m == A * B
<1>1. p * U \in Nat
    BY ProductNat
<1>2. /\ X \in Nat /\ Y \in Nat /\ p * U <= X * B + B /\ p * U <= Y * A + A
  <2> DEFINE r == p * U
  <2> HIDE DEF r
  <2>1. r \in Nat
      BY <1>1 DEF r
  <2>2. r \div B \in Nat /\ r < (r \div B) * B + B /\ r \div A \in Nat /\ r < (r \div A) * A + A
      BY <2>1, Floor
  <2>3. (r \div B) * B \in Nat /\ (r \div A) * A \in Nat
      BY <2>2, ProductNat
  <2> QED BY <2>1, <2>2, <2>3 DEF r
<1> HIDE DEF X, Y
<1>3. (n * B) * (p * A) <= (v * U + U) * (p * A)
    BY ProductNat, Scaled
<1>4. (v * A) * (p * U) <= (d * B + B) * (p * U)
    BY ProductNat, Scaled
<1>5. (p * d) * (B * U) <= (q * A + A) * (B * U)
    BY ProductNat, Scaled
<1>6. (p * U) * A <= (X * B + B) * A /\ (p * U) * B <= (Y * A + A) * B
    BY <1>1, <1>2, ProductNat, Scaled
<1>7. /\ (n * B) * (p * A) = (p * n) * (A * B)
      /\ (v * U + U) * (p * A) = (v * A) * (p * U) + (p * U) * A
      /\ (d * B + B) * (p * U) = (p * d) * (B * U) + (p * U) * B
      /\ (q * A + A) * (B * U) = (q * U + U) * (A * B)
      /\ (X * B + B) * A = (X + 1) * (A * B)
      /\ (Y * A + A) * B = (Y + 1) * (A * B)
    BY <1>2
<1>8. /\ (v * A) * (p * U) \in Nat /\ (p * U) * A \in Nat /\ (p * U) * B \in Nat
      /\ (p * d) * (B * U) \in Nat /\ (p * n) * (A * B) \in Nat
      /\ (q * U + U) * (A * B) \in Nat /\ (X + 1) * (A * B) \in Nat /\ (Y + 1) * (A * B) \in Nat
    BY <1>2, ProductNat
<1>9. (p * n) * (A * B) <= (q * U + U) * (A * B) + (X + 1) * (A * B) + (Y + 1) * (A * B)
    BY <1>3, <1>4, <1>5, <1>6, <1>7, <1>8
<1>10. (q * U + U) * (A * B) + (X + 1) * (A * B) + (Y + 1) * (A * B)
          = (q * U + U + X + Y + 2) * (A * B)
    BY <1>2
<1> DEFINE l == p * n
           r == q * U + U + X + Y + 2
<1>11. l \in Nat /\ r \in Nat /\ m \in Nat \ {0} /\ l * m <= r * m
    BY <1>2, <1>9, <1>10, ProductNat
<1> HIDE DEF l, r, m
<1>12. l <= r
    BY <1>11
<1>13. p * n <= q * U + U + X + Y + 2
    BY <1>12 DEF l, r
<1>14. (B - p) * n = n * B - p * n /\ n * B \in Int /\ p * n \in Int /\ q * U \in Int
    OBVIOUS
<1>15. n * B - q * U - (U + 2 + X + Y) <= (B - p) * n
    BY <1>2, <1>13, <1>14
<1> QED BY <1>15 DEF X, Y

\* n dStable burnt: the vault loses one base unit more than q at most.
LEMMA BurntLoss ==
    ASSUME NEW n \in Nat, NEW U \in Nat \ {0}, NEW B \in Nat \ {0}, NEW A \in Nat \ {0},
           NEW p \in Nat, NEW v \in Nat, NEW d \in Nat, NEW q \in Nat,
           v * U <= n * B, d * B <= v * A, q * A <= p * d
    PROVE  (q + 1) * U - n * B - U <= (p - B) * n
<1>1. (q * A) * (U * B) <= (p * d) * (U * B)
    BY ProductNat, Scaled
<1>2. (d * B) * (p * U) <= (v * A) * (p * U)
    BY ProductNat, Scaled
<1>3. (v * U) * (p * A) <= (n * B) * (p * A)
    BY ProductNat, Scaled
<1>4. /\ (q * A) * (U * B) = (q * U) * (A * B)
      /\ (p * d) * (U * B) = (d * B) * (p * U)
      /\ (v * A) * (p * U) = (v * U) * (p * A)
      /\ (n * B) * (p * A) = (p * n) * (A * B)
    OBVIOUS
<1>5. /\ (q * U) * (A * B) \in Nat /\ (d * B) * (p * U) \in Nat
      /\ (v * U) * (p * A) \in Nat /\ (p * n) * (A * B) \in Nat
    BY ProductNat
<1> DEFINE l == q * U
           r == p * n
           m == A * B
<1>6. l \in Nat /\ r \in Nat /\ m \in Nat \ {0} /\ l * m <= r * m
    BY <1>1, <1>2, <1>3, <1>4, <1>5, ProductNat
<1> HIDE DEF l, r, m
<1>7. l <= r
    BY <1>6
<1>8. q * U <= p * n
    BY <1>7 DEF l, r
<1>9. (p - B) * n = p * n - n * B /\ (q + 1) * U = q * U + U
      /\ n * B \in Int /\ p * n \in Int /\ q * U \in Int
    OBVIOUS
<1> QED BY <1>8, <1>9

LEMMA GuardedPrices ==
    ASSUME AssumptionsV2, IInvV2, PegGuard, pegDeviationBps # 0, NEW n \in Nat
    PROVE  LET p == price[Debt]
               B == baseCurrencyUnit
           IN  /\ ((B - p) * n) * OneHundredPercentBps <= (pegDeviationBps + 1) * n * B
               /\ ((p - B) * n) * OneHundredPercentBps <= (pegDeviationBps + 1) * n * B
<1>1. /\ price[Debt] \in Nat /\ baseCurrencyUnit \in Nat \ {0}
      /\ OneHundredPercentBps \in Nat /\ pegDeviationBps \in Nat
    BY DEF AssumptionsV2, DebtAssumption, Assumptions, VaultAssumption, RedeemerAssumption,
       IInvV2, IInv, TypeOK, VaultTypeOK, AmoV2TypeOK
<1>2. mulDiv(Distance(price[Debt], baseCurrencyUnit), OneHundredPercentBps, baseCurrencyUnit)
         <= pegDeviationBps
    BY DEF PegGuard, WithinPeg
<1> QED BY <1>1, <1>2, PegBounds

\* x <= y as numbers, and so x shares of anything.
LEMMA LossWithin ==
    ASSUME NEW x \in Int, NEW y \in Int, NEW S \in Nat, NEW t \in Int, x <= y, y * S <= t
    PROVE  x * S <= t
<1>1. x * S <= y * S /\ x * S \in Int /\ y * S \in Int
    OBVIOUS
<1> QED BY <1>1

Tolerated(amount) == (pegDeviationBps + 1) * amount * baseCurrencyUnit
DustOfMint == dstableUnit + 2 + (price[Debt] * dstableUnit) \div baseCurrencyUnit
                              + (price[Debt] * dstableUnit) \div assetUnit[Debt]

LEMMA SupplyTypes ==
    ASSUME AssumptionsV2, IInvV2, NEW amount \in Nat
    PROVE  /\ Assumptions /\ IInv /\ Debt \in Assets
           /\ VaultTypeOK /\ vaultBalance \in [Assets -> Nat] /\ vaultBalance[Debt] \in Nat
           /\ price[Debt] \in Nat /\ assetUnit[Debt] \in Nat \ {0}
           /\ dstableUnit \in Nat \ {0} /\ baseCurrencyUnit \in Nat \ {0}
           /\ totalSupply \in Nat /\ totalValue \in Nat
           /\ OneHundredPercentBps \in Nat /\ pegDeviationBps \in Nat
           /\ dstableAmountToBaseValue(amount) \in Nat
           /\ baseToDebtUnits(dstableAmountToBaseValue(amount)) \in Nat
           /\ Tolerated(amount) \in Int
<1>1. /\ Assumptions /\ IInv /\ Debt \in Assets
      /\ VaultTypeOK /\ vaultBalance \in [Assets -> Nat] /\ price[Debt] \in Nat
      /\ totalSupply \in Nat /\ pegDeviationBps \in Nat /\ OneHundredPercentBps \in Nat
    BY DEF AssumptionsV2, DebtAssumption, Assumptions, RedeemerAssumption,
       IInvV2, IInv, TypeOK, VaultTypeOK, TokenTypeOK, AmoV2TypeOK
<1>2. totalValue \in Nat /\ dstableUnit \in Nat \ {0} /\ baseCurrencyUnit \in Nat \ {0}
    BY <1>1, TermTypes
<1>3. assetUnit[Debt] \in Nat \ {0} /\ vaultBalance[Debt] \in Nat
    BY <1>1 DEF Assumptions, VaultAssumption
<1>4. dstableAmountToBaseValue(amount) \in Nat
    BY <1>1, ConversionTypes
<1>5. baseToDebtUnits(dstableAmountToBaseValue(amount)) \in Nat
    BY <1>4, DebtUnitsType
<1> QED BY <1>1, <1>2, <1>3, <1>4, <1>5 DEF Tolerated

LEMMA MintWithinGuard ==
    ASSUME AssumptionsV2, IInvV2, NEW wallet \in Accounts, NEW amount \in Nat,
           Debt \in supported, pegDeviationBps # 0, increaseAmoSupplyTo(wallet, amount)
    PROVE  (Loss - DustOfMint) * OneHundredPercentBps <= Tolerated(amount)
<1> DEFINE v == dstableAmountToBaseValue(amount)
           d == baseToDebtUnits(v)
           q == assetValueFromAmount(Debt, d)
           p == price[Debt]
           A == assetUnit[Debt]
           B == baseCurrencyUnit
           U == dstableUnit
<1>1. /\ PegGuard /\ vaultBalance' = Credit(vaultBalance, Debt, d)
      /\ totalSupply' = totalSupply + amount /\ UNCHANGED <<price, supported>>
    BY DEF increaseAmoSupplyTo, Mint
<1>2. v \in Nat /\ d \in Nat
    BY SupplyTypes
<1>3. q \in Nat
    BY <1>2, SupplyTypes, ValueAtType
<1>4. amount * B <= v * U + U /\ v * U \in Nat /\ amount * B \in Nat
  <2>1. U \in Nat \ {0} /\ B \in Nat \ {0}
      BY SupplyTypes
  <2> HIDE DEF U, B
  <2>2. v = mulDiv(amount, B, U)
      BY DEF dstableAmountToBaseValue, U, B
  <2> HIDE DEF v
  <2>3. amount * B < v * U + U
      BY <2>1, <2>2, MulDivBounds
  <2>4. v * U \in Nat /\ amount * B \in Nat
      BY <1>2, <2>1, ProductNat
  <2> QED BY <2>1, <2>3, <2>4
<1> HIDE DEF v
<1>5. v * A <= d * B + B
  <2>1. v * A < d * B + B /\ d * B \in Nat /\ v * A \in Nat
      BY <1>2, SupplyTypes, MulDivBounds, ProductNat DEF baseToDebtUnits
  <2> QED BY <2>1, SupplyTypes
<1> HIDE DEF d
<1>6. p * d <= q * A + A
  <2>1. p * d < q * A + A /\ p * d \in Nat /\ q * A \in Nat
      BY <1>2, <1>3, SupplyTypes, MulDivBounds, ProductNat DEF assetValueFromAmount, ValueAt
  <2> QED BY <2>1, SupplyTypes
<1>7. totalValue' >= totalValue + q
  <2>1. SumTo(SupportedValues(Credit(vaultBalance, Debt, d)), NumAssets) >= totalValue + q
      BY <1>2, SupplyTypes, ValueOfCredit DEF totalValue
  <2> QED BY <1>1, <2>1, NextValue
<1>8. totalValue' \in Nat
  <2>1. Credit(vaultBalance, Debt, d) \in [Assets -> Nat]
      BY <1>2, SupplyTypes DEF Credit
  <2> QED BY <1>1, <2>1, NextValue, SupplyTypes, SupportedValuesType
<1> HIDE DEF q
<1>9. Loss <= amount * B - q * U /\ Loss \in Int
  <2> DEFINE x == totalValue' - totalValue
  <2>1. x \in Int /\ x >= q
      BY <1>3, <1>7, <1>8, SupplyTypes
  <2>2. totalSupply' - totalSupply = amount
      BY <1>1, SupplyTypes
  <2>3. Loss = amount * B - x * U
      BY <2>2 DEF Loss
  <2> HIDE DEF x
  <2>4. x * U >= q * U /\ x * U \in Int /\ q * U \in Int /\ amount * B \in Int
      BY <1>3, <2>1, SupplyTypes
  <2> QED BY <2>3, <2>4
<1>10. amount * B - q * U - DustOfMint <= (B - p) * amount
  <2> HIDE DEF p, A, B, U
  <2>1. p \in Nat /\ A \in Nat \ {0} /\ B \in Nat \ {0} /\ U \in Nat \ {0}
      BY SupplyTypes DEF p, A, B, U
  <2>2. amount * B - q * U - (U + 2 + (p * U) \div B + (p * U) \div A) <= (B - p) * amount
      BY <1>2, <1>3, <1>4, <1>5, <1>6, <2>1, MintedLoss
  <2> QED BY <2>2 DEF DustOfMint, p, A, B, U
<1>11. DustOfMint \in Int
  <2> DEFINE r == p * U
  <2>1. r \in Nat /\ U \in Nat \ {0} /\ A \in Nat \ {0} /\ B \in Nat \ {0}
      BY SupplyTypes, ProductNat
  <2> HIDE DEF r, U, A, B
  <2>2. r \div B \in Nat /\ r \div A \in Nat
      BY <2>1, Floor
  <2>3. U + 2 + r \div B + r \div A \in Int
      BY <2>1, <2>2
  <2> QED BY <2>3 DEF DustOfMint, r, U, A, B
<1>12. /\ Loss - DustOfMint <= (B - p) * amount
       /\ Loss - DustOfMint \in Int /\ (B - p) * amount \in Int
    BY <1>3, <1>9, <1>10, <1>11, SupplyTypes
<1>13. ((B - p) * amount) * OneHundredPercentBps <= Tolerated(amount)
    BY <1>1, GuardedPrices DEF Tolerated
<1> QED BY <1>12, <1>13, SupplyTypes, LossWithin

LEMMA BurnWithinGuard ==
    ASSUME AssumptionsV2, IInvV2, NEW wallet \in Accounts, NEW amount \in Nat,
           pegDeviationBps # 0, decreaseAmoSupplyFrom(wallet, amount)
    PROVE  (Loss - dstableUnit) * OneHundredPercentBps <= Tolerated(amount)
<1> DEFINE v == dstableAmountToBaseValue(amount)
           d == baseToDebtUnits(v)
           q == assetValueFromAmount(Debt, d)
           p == price[Debt]
           A == assetUnit[Debt]
           B == baseCurrencyUnit
           U == dstableUnit
<1>1. /\ PegGuard /\ vaultBalance' = Debit(vaultBalance, Debt, d) /\ d <= vaultBalance[Debt]
      /\ totalSupply' = totalSupply - amount /\ UNCHANGED <<price, supported>>
    BY DEF decreaseAmoSupplyFrom, Burn
<1>2. v \in Nat /\ d \in Nat
    BY SupplyTypes
<1>3. q \in Nat
    BY <1>2, SupplyTypes, ValueAtType
<1>4. v * U <= amount * B
    BY <1>2, SupplyTypes, MulDivBounds DEF dstableAmountToBaseValue
<1> HIDE DEF v
<1>5. d * B <= v * A
    BY <1>2, SupplyTypes, MulDivBounds DEF baseToDebtUnits
<1> HIDE DEF d
<1>6. q * A <= p * d /\ p * d < q * A + A
    BY <1>2, SupplyTypes, MulDivBounds DEF assetValueFromAmount, ValueAt
<1>7. totalValue <= totalValue' + (q + 1)
  <2>1. p * d <= (q + 1) * A
    <3>1. p \in Nat /\ A \in Nat
        BY SupplyTypes
    <3> HIDE DEF p, A, q
    <3>2. (q + 1) * A = q * A + A /\ p * d \in Nat /\ q * A \in Nat
        BY <1>2, <1>3, <3>1, ProductNat
    <3> QED BY <1>6, <3>1, <3>2
  <2> HIDE DEF q
  <2>2. totalValue <= SumTo(SupportedValues(Debit(vaultBalance, Debt, d)), NumAssets) + (q + 1)
      BY <1>1, <1>2, <1>3, <2>1, SupplyTypes, ValueOfDebit DEF totalValue
  <2> QED BY <1>1, <2>2, NextValue
<1>8. totalValue' \in Nat
  <2>1. Debit(vaultBalance, Debt, d) \in [Assets -> Nat]
      BY <1>1, <1>2, SupplyTypes DEF Debit
  <2> QED BY <1>1, <2>1, NextValue, SupplyTypes, SupportedValuesType
<1> HIDE DEF q
<1>9. Loss <= (q + 1) * U - amount * B /\ Loss \in Int
  <2> DEFINE x == totalValue' - totalValue
  <2>1. x \in Int /\ 0 - x <= q + 1
      BY <1>3, <1>7, <1>8, SupplyTypes
  <2>2. totalSupply' - totalSupply = 0 - amount
      BY <1>1, SupplyTypes
  <2>3. Loss = (0 - amount) * B - x * U
      BY <2>2 DEF Loss
  <2> HIDE DEF x
  <2>4. (0 - x) * U <= (q + 1) * U /\ (0 - x) * U = 0 - x * U /\ x * U \in Int
        /\ (q + 1) * U \in Int /\ (0 - amount) * B = 0 - amount * B /\ amount * B \in Int
      BY <1>3, <2>1, SupplyTypes
  <2> QED BY <2>3, <2>4
<1>10. (q + 1) * U - amount * B - U <= (p - B) * amount
  <2> HIDE DEF p, A, B, U
  <2>1. p \in Nat /\ A \in Nat \ {0} /\ B \in Nat \ {0} /\ U \in Nat \ {0}
      BY SupplyTypes DEF p, A, B, U
  <2> QED BY <1>2, <1>3, <1>4, <1>5, <1>6, <2>1, BurntLoss
<1>11. /\ Loss - U <= (p - B) * amount
       /\ Loss - U \in Int /\ (p - B) * amount \in Int
    BY <1>3, <1>9, <1>10, SupplyTypes
<1>12. ((p - B) * amount) * OneHundredPercentBps <= Tolerated(amount)
    BY <1>1, GuardedPrices DEF Tolerated
<1> QED BY <1>11, <1>12, SupplyTypes, LossWithin

\* Whatever the price of the debt token, dStable minted to a wallet or burnt from it
\* costs the backing no more than the guard tolerates and the dust of the conversions.
THEOREM PegGuardSuffices == SpecV2 => PegGuardBoundsLoss
<1> DEFINE Bounded ==
        \A wallet \in Accounts, amount \in Amounts :
           Debt \in supported /\ pegDeviationBps # 0 =>
              /\ increaseAmoSupplyTo(wallet, amount) =>
                    (Loss - DustOfMint) * OneHundredPercentBps <= Tolerated(amount)
              /\ decreaseAmoSupplyFrom(wallet, amount) =>
                    (Loss - dstableUnit) * OneHundredPercentBps <= Tolerated(amount)
<1>0. AssumptionsV2
    BY AccountAssumption, VaultAssumption, TokenAssumption, AmoAssumption, RedeemerAssumption,
       DebtAssumption, AmoV2Assumption DEF AssumptionsV2, Assumptions
<1>1. IInvV2 => Bounded
  <2>1. Amounts \subseteq Nat
      BY VaultAssumption DEF VaultAssumption
  <2> QED BY <1>0, <2>1, MintWithinGuard, BurnWithinGuard
<1>2. SpecV2 => [][Bounded]_varsV2
    BY <1>1, InductiveInvariantV2, PTL DEF SpecV2
<1> QED BY <1>2, PTL DEF PegGuardBoundsLoss, Tolerated, DustOfMint
=============================================================================
