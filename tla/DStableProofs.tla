---------------------------- MODULE DStableProofs ----------------------------
(***************************************************************************)
(* For any number of accounts and assets, any units, prices and fees: the  *)
(* dSTABLE contracts keep their types (no subtraction they make underflows)*)
(* and their counters are the sums they stand for.                         *)
(*                                                                         *)
(* TypeOK is not inductive alone: burning a holder's balance leaves the    *)
(* supply natural only because the supply is the sum of the balances.      *)
(***************************************************************************)
EXTENDS DStable, ArithmeticProofs

Assumptions ==
    /\ AccountAssumption
    /\ VaultAssumption
    /\ TokenAssumption
    /\ AmoAssumption
    /\ RedeemerAssumption

IInv == TypeOK /\ SupplyAddsUp /\ AllocationsAddUp

-----------------------------------------------------------------------------
(* Sums over accounts *)

\* One balance changed by d, the counter with it.
LEMMA CounterFollows ==
    ASSUME AccountAssumption,
           NEW f \in [Accounts -> Nat], NEW h \in [Accounts -> Nat],
           NEW j \in Accounts, \A i \in Accounts \ {j} : h[i] = f[i]
    PROVE  SumTo(h, NumAccounts) = SumTo(f, NumAccounts) + h[j] - f[j]
<1>1. /\ NumAccounts \in Nat /\ j \in 1..NumAccounts
      /\ f \in [1..NumAccounts -> Int] /\ h \in [1..NumAccounts -> Int]
      /\ \A i \in (1..NumAccounts) \ {j} : h[i] = f[i]
    BY DEF AccountAssumption, Accounts
<1> QED BY <1>1, SumUpdate

LEMMA NoneExceedsSum ==
    ASSUME AccountAssumption, NEW f \in [Accounts -> Nat]
    PROVE  \A j \in Accounts : f[j] <= SumTo(f, NumAccounts)
BY SumNat DEF AccountAssumption, Accounts

-----------------------------------------------------------------------------
(* Balances *)

LEMMA CreditAt ==
    ASSUME NEW S, NEW f \in [S -> Nat], NEW x \in S, NEW n \in Nat
    PROVE  /\ Credit(f, x, n) \in [S -> Nat]
           /\ Credit(f, x, n)[x] = f[x] + n
           /\ \A i \in S \ {x} : Credit(f, x, n)[i] = f[i]
BY DEF Credit

LEMMA DebitAt ==
    ASSUME NEW S, NEW f \in [S -> Nat], NEW x \in S, NEW n \in Nat, n <= f[x]
    PROVE  /\ Debit(f, x, n) \in [S -> Nat]
           /\ Debit(f, x, n)[x] = f[x] - n
           /\ \A i \in S \ {x} : Debit(f, x, n)[i] = f[i]
BY DEF Debit

LEMMA CreditAssetType ==
    ASSUME NEW c \in [Accounts -> [Assets -> Nat]],
           NEW acct \in Accounts, NEW a \in Assets, NEW n \in Nat
    PROVE  CreditAsset(c, acct, a, n) \in [Accounts -> [Assets -> Nat]]
<1>1. c[acct] \in [Assets -> Nat]
    OBVIOUS
<1>2. Credit(c[acct], a, n) \in [Assets -> Nat]
    BY <1>1, CreditAt
<1> QED BY <1>2 DEF CreditAsset

LEMMA DebitAssetType ==
    ASSUME NEW c \in [Accounts -> [Assets -> Nat]],
           NEW acct \in Accounts, NEW a \in Assets, NEW n \in Nat, n <= c[acct][a]
    PROVE  DebitAsset(c, acct, a, n) \in [Accounts -> [Assets -> Nat]]
<1>1. c[acct] \in [Assets -> Nat]
    OBVIOUS
<1>2. Debit(c[acct], a, n) \in [Assets -> Nat]
    BY <1>1, DebitAt
<1> QED BY <1>2 DEF DebitAsset

-----------------------------------------------------------------------------
(* Conversions are natural numbers *)

LEMMA ConversionTypes ==
    ASSUME Assumptions, VaultTypeOK, NEW a \in Assets, NEW n \in Nat
    PROVE  /\ assetValueFromAmount(a, n) \in Nat
           /\ HasPrice(a) => assetAmountFromValue(a, n) \in Nat
           /\ baseValueToDstableAmount(n) \in Nat
           /\ dstableAmountToBaseValue(n) \in Nat
<1>1. /\ price[a] \in Nat /\ assetUnit[a] \in Nat \ {0}
      /\ dstableUnit \in Nat \ {0} /\ baseCurrencyUnit \in Nat \ {0}
    BY DEF Assumptions, VaultAssumption, TokenAssumption, VaultTypeOK
<1>2. assetValueFromAmount(a, n) \in Nat
    BY <1>1, MulDivBounds DEF assetValueFromAmount, ValueAt
<1>3. HasPrice(a) => assetAmountFromValue(a, n) \in Nat
    BY <1>1, MulDivBounds DEF assetAmountFromValue, HasPrice
<1>4. baseValueToDstableAmount(n) \in Nat /\ dstableAmountToBaseValue(n) \in Nat
    BY <1>1, MulDivBounds DEF baseValueToDstableAmount, dstableAmountToBaseValue
<1> QED BY <1>2, <1>3, <1>4

LEMMA FeeWithinTotal ==
    ASSUME Assumptions, IInv, NEW a \in Assets, NEW total \in Nat
    PROVE  /\ feeCollateral(a, total) \in Nat
           /\ feeCollateral(a, total) <= total
           /\ feeCollateral(a, total) * OneHundredPercentBps <= total * MaxFeeBps
<1> DEFINE bps == currentFeeBps(a)
           H == OneHundredPercentBps
<1>1. /\ MaxFeeBps \in Nat /\ MaxFeeBps <= H /\ H \in Nat \ {0}
      /\ bps \in Nat /\ bps <= MaxFeeBps
    BY DEF Assumptions, RedeemerAssumption, IInv, TypeOK, RedeemerTypeOK, currentFeeBps
<1> HIDE DEF bps
<1>2. /\ feeCollateral(a, total) \in Nat
      /\ feeCollateral(a, total) * H <= total * bps
    BY <1>1, MulDivBounds DEF feeCollateral, bps
<1>3. total * bps <= total * MaxFeeBps /\ total * bps < (total + 1) * H
    BY <1>1, ProductNat
<1>4. feeCollateral(a, total) <= total
    BY <1>1, <1>3, MulDivAtMost DEF feeCollateral, bps
<1>5. total * bps \in Nat /\ total * MaxFeeBps \in Nat
    BY <1>1, ProductNat
<1>6. feeCollateral(a, total) * H \in Nat
    BY <1>1, <1>2, ProductNat
<1>7. feeCollateral(a, total) * H <= total * MaxFeeBps
    BY <1>2, <1>3, <1>5, <1>6
<1> QED BY <1>2, <1>4, <1>7

-----------------------------------------------------------------------------
(* Effects on the token *)

TokenSums ==
    /\ dstableOf \in [Accounts -> Nat]
    /\ totalSupply \in Nat
    /\ SupplyAddsUp

LEMMA MintKeepsSums ==
    ASSUME Assumptions, TokenSums, NEW to \in Accounts, NEW n \in Nat, Mint(to, n)
    PROVE  TokenSums'
<1> USE DEF TokenSums
<1>1. dstableOf' = Credit(dstableOf, to, n) /\ totalSupply' = totalSupply + n
    BY DEF Mint
<1>2. /\ dstableOf' \in [Accounts -> Nat] /\ dstableOf'[to] = dstableOf[to] + n
      /\ \A i \in Accounts \ {to} : dstableOf'[i] = dstableOf[i]
    BY <1>1, CreditAt
<1>3. SumTo(dstableOf', NumAccounts)
        = SumTo(dstableOf, NumAccounts) + dstableOf'[to] - dstableOf[to]
    BY <1>2, CounterFollows DEF Assumptions
<1>4. dstableOf[to] \in Nat /\ totalSupply = SumTo(dstableOf, NumAccounts)
    BY DEF SupplyAddsUp
<1>5. SupplyAddsUp'
    BY <1>1, <1>2, <1>3, <1>4 DEF SupplyAddsUp
<1> QED BY <1>1, <1>2, <1>5

LEMMA BurnKeepsSums ==
    ASSUME Assumptions, TokenSums, NEW from \in Accounts, NEW n \in Nat, Burn(from, n)
    PROVE  TokenSums'
<1> USE DEF TokenSums
<1>1. /\ dstableOf' = Debit(dstableOf, from, n) /\ n <= dstableOf[from]
      /\ totalSupply' = totalSupply - n /\ dstableOf[from] \in Nat
    BY DEF Burn
<1>2. /\ dstableOf' \in [Accounts -> Nat] /\ dstableOf'[from] = dstableOf[from] - n
      /\ \A i \in Accounts \ {from} : dstableOf'[i] = dstableOf[i]
    BY <1>1, DebitAt
<1>3. SumTo(dstableOf', NumAccounts)
        = SumTo(dstableOf, NumAccounts) + dstableOf'[from] - dstableOf[from]
    BY <1>2, CounterFollows DEF Assumptions
<1>4. totalSupply = SumTo(dstableOf, NumAccounts)
    BY DEF SupplyAddsUp
<1>5. dstableOf[from] <= totalSupply
    BY <1>4, NoneExceedsSum DEF Assumptions
<1>6. SupplyAddsUp'
    BY <1>1, <1>2, <1>3, <1>4 DEF SupplyAddsUp
<1> QED BY <1>1, <1>2, <1>5, <1>6

LEMMA MoveKeepsSums ==
    ASSUME Assumptions, TokenSums, NEW from \in Accounts, NEW to \in Accounts,
           NEW n \in Nat, Move(from, to, n)
    PROVE  TokenSums'
<1> USE DEF TokenSums
<1> DEFINE mid == Debit(dstableOf, from, n)
<1>1. /\ n <= dstableOf[from] /\ dstableOf' = Credit(mid, to, n)
      /\ totalSupply' = totalSupply /\ dstableOf[from] \in Nat
    BY DEF Move
<1>2. /\ mid \in [Accounts -> Nat] /\ mid[from] = dstableOf[from] - n
      /\ \A i \in Accounts \ {from} : mid[i] = dstableOf[i]
    BY <1>1, DebitAt
<1> HIDE DEF mid
<1>3. SumTo(mid, NumAccounts) = SumTo(dstableOf, NumAccounts) + mid[from] - dstableOf[from]
    BY <1>2, CounterFollows DEF Assumptions
<1>4. /\ Credit(mid, to, n) \in [Accounts -> Nat] /\ Credit(mid, to, n)[to] = mid[to] + n
      /\ \A i \in Accounts \ {to} : Credit(mid, to, n)[i] = mid[i]
    BY <1>2 DEF Credit
<1>5. /\ dstableOf' \in [Accounts -> Nat] /\ dstableOf'[to] = mid[to] + n
      /\ \A i \in Accounts \ {to} : dstableOf'[i] = mid[i]
    BY <1>1, <1>4
<1>6. SumTo(dstableOf', NumAccounts) = SumTo(mid, NumAccounts) + dstableOf'[to] - mid[to]
    BY <1>2, <1>5, CounterFollows DEF Assumptions
<1>7. totalSupply = SumTo(dstableOf, NumAccounts) /\ mid[to] \in Nat
    BY <1>2 DEF SupplyAddsUp
<1>8. SupplyAddsUp'
    BY <1>1, <1>2, <1>3, <1>5, <1>6, <1>7 DEF SupplyAddsUp
<1> QED BY <1>1, <1>5, <1>8

-----------------------------------------------------------------------------
(* Effects on allocations *)

AllocationSums ==
    /\ allocation \in [Accounts -> Nat]
    /\ totalAllocated \in Nat
    /\ AllocationsAddUp

LEMMA AllocateKeepsSums ==
    ASSUME Assumptions, AllocationSums, NEW v \in Accounts, NEW n \in Nat, Allocate(v, n)
    PROVE  AllocationSums'
<1> USE DEF AllocationSums
<1>1. allocation' = Credit(allocation, v, n) /\ totalAllocated' = totalAllocated + n
    BY DEF Allocate
<1>2. /\ allocation' \in [Accounts -> Nat] /\ allocation'[v] = allocation[v] + n
      /\ \A i \in Accounts \ {v} : allocation'[i] = allocation[i]
    BY <1>1, CreditAt
<1>3. SumTo(allocation', NumAccounts)
        = SumTo(allocation, NumAccounts) + allocation'[v] - allocation[v]
    BY <1>2, CounterFollows DEF Assumptions
<1>4. allocation[v] \in Nat /\ totalAllocated = SumTo(allocation, NumAccounts)
    BY DEF AllocationsAddUp
<1>5. AllocationsAddUp'
    BY <1>1, <1>2, <1>3, <1>4 DEF AllocationsAddUp
<1> QED BY <1>1, <1>2, <1>5

LEMMA DeallocateKeepsSums ==
    ASSUME Assumptions, AllocationSums, NEW v \in Accounts, NEW n \in Nat,
           n <= allocation[v], Deallocate(v, n)
    PROVE  AllocationSums'
<1> USE DEF AllocationSums
<1>1. /\ allocation' = Debit(allocation, v, n) /\ n <= totalAllocated
      /\ totalAllocated' = totalAllocated - n /\ allocation[v] \in Nat
    BY DEF Deallocate
<1>2. /\ allocation' \in [Accounts -> Nat] /\ allocation'[v] = allocation[v] - n
      /\ \A i \in Accounts \ {v} : allocation'[i] = allocation[i]
    BY <1>1, DebitAt
<1>3. SumTo(allocation', NumAccounts)
        = SumTo(allocation, NumAccounts) + allocation'[v] - allocation[v]
    BY <1>2, CounterFollows DEF Assumptions
<1>4. totalAllocated = SumTo(allocation, NumAccounts)
    BY DEF AllocationsAddUp
<1>5. AllocationsAddUp'
    BY <1>1, <1>2, <1>3, <1>4 DEF AllocationsAddUp
<1> QED BY <1>1, <1>2, <1>5

-----------------------------------------------------------------------------
(* Effects on the vault's balances *)

BalancesOK ==
    /\ vaultBalance \in [Assets -> Nat]
    /\ collateralOf \in [Accounts -> [Assets -> Nat]]

LEMMA VaultReceivesKeepsTypes ==
    ASSUME BalancesOK, NEW acct \in Accounts, NEW a \in Assets, NEW n \in Nat,
           VaultReceives(acct, a, n)
    PROVE  BalancesOK'
BY CreditAt, DebitAssetType DEF BalancesOK, VaultReceives

LEMMA VaultPaysTwoKeepsTypes ==
    ASSUME BalancesOK, NEW acct \in Accounts, NEW other \in Accounts,
           NEW a \in Assets, NEW n \in Nat, NEW k \in Nat,
           VaultPaysTwo(acct, n, other, k, a)
    PROVE  BalancesOK'
<1>1. n + k \in Nat /\ n + k <= vaultBalance[a]
    BY DEF VaultPaysTwo
<1>2. vaultBalance' \in [Assets -> Nat]
    BY <1>1, DebitAt DEF BalancesOK, VaultPaysTwo
<1>3. CreditAsset(collateralOf, acct, a, n) \in [Accounts -> [Assets -> Nat]]
    BY CreditAssetType DEF BalancesOK
<1>4. collateralOf' \in [Accounts -> [Assets -> Nat]]
    BY <1>3, CreditAssetType DEF VaultPaysTwo
<1> QED BY <1>2, <1>4 DEF BalancesOK

LEMMA ExchangeKeepsTypes ==
    ASSUME BalancesOK, NEW acct \in Accounts, NEW from \in Assets, NEW to \in Assets,
           NEW n \in Nat, NEW k \in Nat, exchangeCollateral(acct, n, from, k, to)
    PROVE  BalancesOK'
<1> DEFINE received == Credit(vaultBalance, from, n)
           given    == DebitAsset(collateralOf, acct, from, n)
<1>1. /\ n <= collateralOf[acct][from] /\ k <= received[to]
      /\ vaultBalance' = Debit(received, to, k)
      /\ collateralOf' = CreditAsset(given, acct, to, k)
    BY DEF exchangeCollateral
<1>2. received \in [Assets -> Nat] /\ given \in [Accounts -> [Assets -> Nat]]
    BY <1>1, CreditAt, DebitAssetType DEF BalancesOK
<1> HIDE DEF received, given
<1>3. vaultBalance' \in [Assets -> Nat]
    BY <1>1, <1>2, DebitAt
<1>4. collateralOf' \in [Accounts -> [Assets -> Nat]]
    BY <1>1, <1>2, CreditAssetType
<1> QED BY <1>3, <1>4 DEF BalancesOK

LEMMA TradeKeepsTypes ==
    ASSUME BalancesOK, NEW from \in Accounts, NEW to \in Accounts, NEW a \in Assets,
           NEW n \in Nat, CollateralChangesHands(from, to, a, n)
    PROVE  BalancesOK'
<1>1. DebitAsset(collateralOf, from, a, n) \in [Accounts -> [Assets -> Nat]]
    BY DebitAssetType DEF BalancesOK, CollateralChangesHands
<1> QED BY <1>1, CreditAssetType DEF BalancesOK, CollateralChangesHands

-----------------------------------------------------------------------------
(* The invariant, part by part *)

TokenPart == TokenTypeOK /\ SupplyAddsUp
AmoPart == AmoTypeOK /\ AllocationsAddUp

LEMMA UntouchedParts ==
    ASSUME IInv
    PROVE  /\ UNCHANGED vaultVars => VaultTypeOK'
           /\ UNCHANGED tokenVars => TokenPart'
           /\ UNCHANGED amoVars => AmoPart'
           /\ UNCHANGED issuerVars => IssuerTypeOK'
           /\ UNCHANGED redeemerVars => RedeemerTypeOK'
<1> USE DEF IInv, TypeOK
<1>1. UNCHANGED vaultVars => VaultTypeOK'
    BY DEF vaultVars, VaultTypeOK
<1>2. UNCHANGED tokenVars => TokenPart'
    BY DEF tokenVars, TokenTypeOK, TokenPart, SupplyAddsUp
<1>3. UNCHANGED amoVars => AmoPart'
    BY DEF amoVars, AmoTypeOK, AmoPart, AllocationsAddUp
<1>4. UNCHANGED issuerVars => IssuerTypeOK'
    BY DEF issuerVars, IssuerTypeOK
<1>5. UNCHANGED redeemerVars => RedeemerTypeOK'
    BY DEF redeemerVars, pauseVars, feeVars, RedeemerTypeOK
<1> QED BY <1>1, <1>2, <1>3, <1>4, <1>5

LEMMA PartsMakeIInv ==
    ASSUME VaultTypeOK', TokenPart', AmoPart', IssuerTypeOK', RedeemerTypeOK'
    PROVE  IInv'
BY DEF IInv, TypeOK, TokenPart, AmoPart

\* Effects carry over to the parts they touch.
LEMMA TokenEffects ==
    ASSUME Assumptions, IInv, NEW x \in Accounts, NEW y \in Accounts, NEW n \in Nat,
           UNCHANGED <<tokenPaused, flash>>
    PROVE  /\ Mint(x, n) => TokenPart'
           /\ Burn(x, n) => TokenPart'
           /\ Move(x, y, n) => TokenPart'
<1>1. TokenSums /\ tokenPaused' \in BOOLEAN
      /\ flash' \in {NoFlash} \cup [borrower : Accounts, amount : Nat]
    BY DEF IInv, TypeOK, TokenTypeOK, TokenSums
<1>2. TokenSums' => TokenPart'
    BY <1>1 DEF TokenSums, TokenPart, TokenTypeOK, NoFlash
<1> QED BY <1>1, <1>2, MintKeepsSums, BurnKeepsSums, MoveKeepsSums

LEMMA AllocationEffects ==
    ASSUME Assumptions, IInv, NEW v \in Accounts, NEW n \in Nat, UNCHANGED isAmoActive
    PROVE  /\ Allocate(v, n) => AmoPart'
           /\ n <= allocation[v] /\ Deallocate(v, n) => AmoPart'
<1>1. AllocationSums /\ isAmoActive' \in [Accounts -> BOOLEAN]
    BY DEF IInv, TypeOK, AmoTypeOK, AllocationSums
<1>2. AllocationSums' => AmoPart'
    BY <1>1 DEF AllocationSums, AmoPart, AmoTypeOK
<1> QED BY <1>1, <1>2, AllocateKeepsSums, DeallocateKeepsSums

LEMMA BalanceEffects ==
    ASSUME IInv, UNCHANGED <<price, supported>>,
           NEW x \in Accounts, NEW y \in Accounts, NEW a \in Assets, NEW b \in Assets,
           NEW n \in Nat, NEW k \in Nat
    PROVE  /\ VaultReceives(x, a, n) => VaultTypeOK'
           /\ VaultPaysTwo(x, n, y, k, a) => VaultTypeOK'
           /\ VaultPays(x, n, a) => VaultTypeOK'
           /\ exchangeCollateral(x, n, a, k, b) => VaultTypeOK'
           /\ CollateralChangesHands(x, y, a, n) => VaultTypeOK'
<1>1. BalancesOK /\ (BalancesOK' => VaultTypeOK')
    BY DEF IInv, TypeOK, VaultTypeOK, BalancesOK
<1>2. VaultReceives(x, a, n) => VaultTypeOK'
    BY <1>1, VaultReceivesKeepsTypes
<1>3. VaultPaysTwo(x, n, y, k, a) => VaultTypeOK'
    BY <1>1, VaultPaysTwoKeepsTypes
<1>4. VaultPays(x, n, a) => VaultTypeOK'
    BY <1>1, VaultPaysTwoKeepsTypes DEF VaultPays
<1>5. exchangeCollateral(x, n, a, k, b) => VaultTypeOK'
    BY <1>1, ExchangeKeepsTypes
<1>6. CollateralChangesHands(x, y, a, n) => VaultTypeOK'
    BY <1>1, TradeKeepsTypes
<1> QED BY <1>2, <1>3, <1>4, <1>5, <1>6

LEMMA InitIInv ==
    ASSUME Assumptions, Init
    PROVE  IInv
<1> USE DEF Init
<1>1. VaultTypeOK
    BY DEF VaultInit, VaultTypeOK, Assumptions, VaultAssumption
<1>2. TokenTypeOK
    BY DEF TokenInit, TokenTypeOK
<1>3. AmoTypeOK
    BY DEF AmoInit, AmoTypeOK
<1>4. IssuerTypeOK
    BY DEF IssuerInit, IssuerTypeOK
<1>9. /\ MaxFeeBps \in Nat /\ InitialFeeBps \in 0..MaxFeeBps
      /\ InitialFeeReceiver \in Accounts /\ 0 \in 0..MaxFeeBps
    BY DEF Assumptions, RedeemerAssumption
<1>5. RedeemerTypeOK
    BY <1>9 DEF RedeemerInit, RedeemerTypeOK
<1>6. NumAccounts \in Nat
    BY DEF Assumptions, AccountAssumption
<1>7. SupplyAddsUp
    BY <1>6, SumOfZeros DEF SupplyAddsUp, TokenInit, Accounts
<1>8. AllocationsAddUp
    BY <1>6, SumOfZeros DEF AllocationsAddUp, AmoInit, Accounts
<1> QED BY <1>1, <1>2, <1>3, <1>4, <1>5, <1>7, <1>8 DEF IInv, TypeOK

-----------------------------------------------------------------------------
(* Every group of steps keeps the invariant *)

LEMMA UsersKeep ==
    ASSUME Assumptions, IInv, Users
    PROVE  IInv'
<1>1. PICK acct \in Accounts, amount \in Amounts :
         \/ \E a \in Assets, min \in MinAmounts :
               \/ issue(acct, amount, a, min) /\ UNCHANGED redeemerVars
               \/ redeem(acct, amount, a, min)
               \/ redeemAsProtocol(acct, amount, a, min)
         \/ \E a \in Assets :
               /\ vaultDeposit(acct, a, amount)
               /\ UNCHANGED <<tokenVars, offChain>>
         \/ \E to \in Accounts :
               /\ tokenTransfer(acct, to, amount)
               /\ UNCHANGED <<vaultVars, offChain>>
         \/ tokenBurn(acct, amount) /\ UNCHANGED <<vaultVars, offChain>>
    BY DEF Users
<1>2. amount \in Nat /\ VaultTypeOK
    BY DEF Assumptions, VaultAssumption, IInv, TypeOK
<1>3. ASSUME NEW a \in Assets, NEW min \in MinAmounts,
             issue(acct, amount, a, min), UNCHANGED redeemerVars
      PROVE  IInv'
    <2> DEFINE d == baseValueToDstableAmount(assetValueFromAmount(a, amount))
    <2>1. /\ VaultReceives(acct, a, amount) /\ Mint(acct, d)
          /\ UNCHANGED <<price, supported>> /\ UNCHANGED <<tokenPaused, flash>>
          /\ UNCHANGED amoVars /\ UNCHANGED issuerVars
        BY <1>3 DEF issue
    <2>2. assetValueFromAmount(a, amount) \in Nat
        BY <1>2, ConversionTypes
    <2>3. d \in Nat
        BY <1>2, <2>2, ConversionTypes
    <2> HIDE DEF d
    <2>4. VaultTypeOK' /\ TokenPart'
        BY <1>2, <2>1, <2>3, BalanceEffects, TokenEffects
    <2> QED BY <1>3, <2>1, <2>4, UntouchedParts, PartsMakeIInv
<1>4. ASSUME NEW a \in Assets, NEW min \in MinAmounts, redeem(acct, amount, a, min)
      PROVE  IInv'
    <2> DEFINE total == totalCollateralFor(a, amount)
               fee   == feeCollateral(a, total)
    <2>1. /\ VaultPaysTwo(acct, total - fee, feeReceiver, fee, a) /\ Burn(acct, amount)
          /\ HasPrice(a)
          /\ UNCHANGED <<price, supported>> /\ UNCHANGED <<tokenPaused, flash>>
          /\ UNCHANGED amoVars /\ UNCHANGED issuerVars /\ UNCHANGED redeemerVars
        BY <1>4 DEF redeem
    <2>2. total \in Nat
        BY <1>2, <2>1, ConversionTypes DEF totalCollateralFor
    <2>3. fee \in Nat /\ fee <= total
        BY <2>2, FeeWithinTotal
    <2>4. feeReceiver \in Accounts
        BY DEF IInv, TypeOK, RedeemerTypeOK
    <2> HIDE DEF total, fee
    <2>5. total - fee \in Nat
        BY <2>2, <2>3
    <2>6. VaultTypeOK' /\ TokenPart'
        BY <1>2, <2>1, <2>3, <2>4, <2>5, BalanceEffects, TokenEffects
    <2> QED BY <2>1, <2>6, UntouchedParts, PartsMakeIInv
<1>5. ASSUME NEW a \in Assets, NEW min \in MinAmounts, redeemAsProtocol(acct, amount, a, min)
      PROVE  IInv'
    <2> DEFINE total == totalCollateralFor(a, amount)
    <2>1. /\ VaultPays(acct, total, a) /\ Burn(acct, amount) /\ HasPrice(a)
          /\ UNCHANGED <<price, supported>> /\ UNCHANGED <<tokenPaused, flash>>
          /\ UNCHANGED amoVars /\ UNCHANGED issuerVars /\ UNCHANGED redeemerVars
        BY <1>5 DEF redeemAsProtocol
    <2>2. total \in Nat
        BY <1>2, <2>1, ConversionTypes DEF totalCollateralFor
    <2> HIDE DEF total
    <2>3. VaultTypeOK' /\ TokenPart'
        BY <1>2, <2>1, <2>2, BalanceEffects, TokenEffects
    <2> QED BY <2>1, <2>3, UntouchedParts, PartsMakeIInv
<1>6. ASSUME NEW a \in Assets, vaultDeposit(acct, a, amount), UNCHANGED <<tokenVars, offChain>>
      PROVE  IInv'
    <2>1. VaultTypeOK'
        BY <1>2, <1>6, BalanceEffects DEF vaultDeposit
    <2> QED BY <1>6, <2>1, UntouchedParts, PartsMakeIInv DEF offChain
<1>7. ASSUME NEW to \in Accounts, tokenTransfer(acct, to, amount), UNCHANGED <<vaultVars, offChain>>
      PROVE  IInv'
    <2>1. TokenPart'
        BY <1>2, <1>7, TokenEffects DEF tokenTransfer
    <2> QED BY <1>7, <2>1, UntouchedParts, PartsMakeIInv DEF offChain
<1>8. ASSUME tokenBurn(acct, amount), UNCHANGED <<vaultVars, offChain>>
      PROVE  IInv'
    <2>1. TokenPart'
        BY <1>2, <1>8, TokenEffects DEF tokenBurn
    <2> QED BY <1>8, <2>1, UntouchedParts, PartsMakeIInv DEF offChain
<1> QED BY <1>1, <1>3, <1>4, <1>5, <1>6, <1>7, <1>8

LEMMA FlashLoansKeep ==
    ASSUME Assumptions, IInv, FlashLoans
    PROVE  IInv'
<1>1. UNCHANGED vaultVars /\ UNCHANGED offChain
    BY DEF FlashLoans
<1>2. TokenSums /\ tokenPaused \in BOOLEAN
      /\ flash \in {NoFlash} \cup [borrower : Accounts, amount : Nat]
    BY DEF IInv, TypeOK, TokenTypeOK, TokenSums
<1>3. ASSUME NEW acct \in Accounts, NEW amount \in FlashAmounts, flashLoan(acct, amount)
      PROVE  TokenPart'
    <2>1. amount \in Nat
        BY DEF Assumptions, TokenAssumption
    <2>2. TokenSums'
        BY <1>2, <1>3, <2>1, MintKeepsSums DEF flashLoan
    <2>3. /\ flash' \in [borrower : Accounts, amount : Nat]
          /\ tokenPaused' = tokenPaused
        BY <1>3, <2>1 DEF flashLoan
    <2> QED BY <1>2, <2>2, <2>3 DEF TokenPart, TokenTypeOK, TokenSums, NoFlash
<1>4. ASSUME flashRepay
      PROVE  TokenPart'
    <2>1. flash.borrower \in Accounts /\ flash.amount \in Nat
        BY <1>2, <1>4 DEF flashRepay
    <2>2. TokenSums'
        BY <1>2, <1>4, <2>1, BurnKeepsSums DEF flashRepay
    <2>3. flash' = NoFlash /\ tokenPaused' = tokenPaused
        BY <1>4 DEF flashRepay
    <2> QED BY <1>2, <2>2, <2>3 DEF TokenPart, TokenTypeOK, TokenSums, NoFlash
<1>5. TokenPart'
    BY <1>3, <1>4 DEF FlashLoans
<1> QED BY <1>1, <1>5, UntouchedParts, PartsMakeIInv DEF offChain

LEMMA AdjustmentWithinAllocation ==
    ASSUME Assumptions, IInv, NEW v \in Accounts, NEW a \in Assets, NEW n \in Nat
    PROVE  /\ AllocationAdjustment(v, a, n) \in Nat
           /\ AllocationAdjustment(v, a, n) <= allocation[v]
           /\ AllocationAdjustment(v, a, n)
                <= baseValueToDstableAmount(assetValueFromAmount(a, n))
<1>1. allocation[v] \in Nat /\ VaultTypeOK
    BY DEF IInv, TypeOK, AmoTypeOK
<1>2. assetValueFromAmount(a, n) \in Nat
    BY <1>1, ConversionTypes
<1>3. baseValueToDstableAmount(assetValueFromAmount(a, n)) \in Nat
    BY <1>1, <1>2, ConversionTypes
<1> QED BY <1>1, <1>3 DEF AllocationAdjustment

LEMMA AmoStepsKeep ==
    ASSUME Assumptions, IInv, AmoSteps
    PROVE  IInv'
<1>1. UNCHANGED issuerVars /\ UNCHANGED redeemerVars
    BY DEF AmoSteps
<1>2. /\ AmoMgr \in Accounts /\ AmoVaults \subseteq Accounts /\ Amounts \subseteq Nat
      /\ VaultTypeOK /\ AmoTypeOK
    BY DEF Assumptions, AmoAssumption, VaultAssumption, IInv, TypeOK
<1>3. ASSUME NEW v \in AmoVaults, enableAmoVault(v) \/ disableAmoVault(v)
      PROVE  IInv'
    <2>1. UNCHANGED vaultVars /\ UNCHANGED tokenVars
        BY <1>3 DEF enableAmoVault, disableAmoVault
    <2>2. AmoPart'
        BY <1>2, <1>3 DEF enableAmoVault, disableAmoVault, AmoPart, AmoTypeOK,
                          AllocationsAddUp, IInv
    <2> QED BY <1>1, <2>1, <2>2, UntouchedParts, PartsMakeIInv
<1>4. ASSUME NEW v \in AmoVaults, NEW n \in Amounts, allocateAmo(v, n)
      PROVE  IInv'
    <2>1. /\ Allocate(v, n) /\ Move(AmoMgr, v, n) /\ UNCHANGED isAmoActive
          /\ UNCHANGED <<tokenPaused, flash>> /\ UNCHANGED vaultVars
        BY <1>4 DEF allocateAmo
    <2>2. AmoPart' /\ TokenPart'
        BY <1>2, <2>1, AllocationEffects, TokenEffects
    <2> QED BY <1>1, <2>1, <2>2, UntouchedParts, PartsMakeIInv
<1>5. ASSUME NEW v \in AmoVaults, NEW n \in Amounts, deallocateAmo(v, n)
      PROVE  IInv'
    <2>1. /\ n <= allocation[v] /\ Deallocate(v, n) /\ Move(v, AmoMgr, n)
          /\ UNCHANGED isAmoActive /\ UNCHANGED <<tokenPaused, flash>> /\ UNCHANGED vaultVars
        BY <1>5 DEF deallocateAmo
    <2>2. AmoPart' /\ TokenPart'
        BY <1>2, <2>1, AllocationEffects, TokenEffects
    <2> QED BY <1>1, <2>1, <2>2, UntouchedParts, PartsMakeIInv
<1>6. ASSUME NEW n \in Amounts, decreaseAmoSupply(n)
      PROVE  IInv'
    <2>1. /\ Burn(AmoMgr, n) /\ UNCHANGED <<tokenPaused, flash>>
          /\ UNCHANGED amoVars /\ UNCHANGED vaultVars
        BY <1>6 DEF decreaseAmoSupply, tokenBurn
    <2>2. TokenPart'
        BY <1>2, <2>1, TokenEffects
    <2> QED BY <1>1, <2>1, <2>2, UntouchedParts, PartsMakeIInv
<1>7. ASSUME NEW v \in AmoVaults, NEW n \in Amounts, NEW a \in Assets,
             transferFromAmoVaultToHoldingVault(v, a, n)
      PROVE  IInv'
    <2> DEFINE d == AllocationAdjustment(v, a, n)
    <2>1. /\ Deallocate(v, d) /\ VaultReceives(v, a, n) /\ UNCHANGED isAmoActive
          /\ UNCHANGED <<price, supported>> /\ UNCHANGED tokenVars
        BY <1>7 DEF transferFromAmoVaultToHoldingVault
    <2>2. d \in Nat /\ d <= allocation[v]
        BY <1>2, AdjustmentWithinAllocation
    <2> HIDE DEF d
    <2>3. AmoPart' /\ VaultTypeOK'
        BY <1>2, <2>1, <2>2, AllocationEffects, BalanceEffects
    <2> QED BY <1>1, <2>1, <2>3, UntouchedParts, PartsMakeIInv
<1>8. ASSUME NEW v \in AmoVaults, NEW n \in Amounts, NEW a \in Assets,
             transferFromHoldingVaultToAmoVault(v, a, n)
      PROVE  IInv'
    <2> DEFINE d == baseValueToDstableAmount(assetValueFromAmount(a, n))
    <2>1. /\ Allocate(v, d) /\ VaultPays(v, n, a) /\ UNCHANGED isAmoActive
          /\ UNCHANGED <<price, supported>> /\ UNCHANGED tokenVars
        BY <1>8 DEF transferFromHoldingVaultToAmoVault
    <2>2. assetValueFromAmount(a, n) \in Nat
        BY <1>2, ConversionTypes
    <2>3. d \in Nat
        BY <2>2, <1>2, ConversionTypes
    <2> HIDE DEF d
    <2>4. AmoPart' /\ VaultTypeOK'
        BY <1>2, <2>1, <2>3, AllocationEffects, BalanceEffects
    <2> QED BY <1>1, <2>1, <2>4, UntouchedParts, PartsMakeIInv
<1>9. ASSUME NEW v \in AmoVaults, NEW n \in Amounts, NEW a \in Assets, NEW to \in Accounts,
             withdrawProfits(v, to, a, n)
      PROVE  IInv'
    <2>1. /\ CollateralChangesHands(v, to, a, n) /\ UNCHANGED tokenVars
          /\ UNCHANGED amoVars /\ UNCHANGED <<price, supported>>
        BY <1>9 DEF withdrawProfits, CollateralChangesHands
    <2>2. VaultTypeOK'
        BY <1>2, <2>1, BalanceEffects
    <2> QED BY <1>1, <2>1, <2>2, UntouchedParts, PartsMakeIInv
<1> QED BY <1>3, <1>4, <1>5, <1>6, <1>7, <1>8, <1>9 DEF AmoSteps

LEMMA IssuerStepsKeep ==
    ASSUME Assumptions, IInv, IssuerSteps
    PROVE  IInv'
<1>1. PICK n \in Amounts :
         \/ \E receiver \in Accounts : issueUsingExcessCollateral(receiver, n)
         \/ increaseAmoSupply(n)
    BY DEF IssuerSteps
<1>2. n \in Nat /\ AmoMgr \in Accounts
    BY DEF Assumptions, VaultAssumption, AmoAssumption
<1>3. /\ \E x \in Accounts : Mint(x, n)
      /\ UNCHANGED <<tokenPaused, flash>> /\ UNCHANGED vaultVars
      /\ UNCHANGED amoVars /\ UNCHANGED issuerVars /\ UNCHANGED redeemerVars
    BY <1>1, <1>2 DEF IssuerSteps, issueUsingExcessCollateral, increaseAmoSupply
<1>4. TokenPart'
    BY <1>2, <1>3, TokenEffects
<1> QED BY <1>3, <1>4, UntouchedParts, PartsMakeIInv

LEMMA CollateralStepsKeep ==
    ASSUME Assumptions, IInv, Exchanges \/ Trades \/ Listing \/ PriceMoves
    PROVE  IInv'
<1>1. /\ UNCHANGED tokenVars /\ UNCHANGED amoVars
      /\ UNCHANGED issuerVars /\ UNCHANGED redeemerVars
    BY DEF Exchanges, Trades, Listing, PriceMoves, offChain
<1>2. Amounts \subseteq Nat /\ Prices \subseteq Nat /\ VaultTypeOK
    BY DEF Assumptions, VaultAssumption, IInv, TypeOK
<1>3. ASSUME NEW acct \in Accounts, NEW n \in Amounts, NEW from \in Assets, NEW to \in Assets,
             NEW k \in Nat, exchangeCollateral(acct, n, from, k, to)
      PROVE  VaultTypeOK'
    BY <1>2, <1>3, BalanceEffects DEF exchangeCollateral
<1>4. ASSUME NEW acct \in Accounts, NEW n \in Amounts, NEW from \in Assets, NEW to \in Assets,
             NEW min \in MinAmounts, exchangeMaxCollateral(acct, n, from, to, min)
      PROVE  VaultTypeOK'
    <2>1. assetValueFromAmount(from, n) \in Nat
        BY <1>2, ConversionTypes
    <2>2. maxExchangeAmount(n, from, to) \in Nat
        BY <1>2, <1>4, <2>1, ConversionTypes DEF maxExchangeAmount, exchangeMaxCollateral
    <2> QED BY <1>3, <1>4, <2>2 DEF exchangeMaxCollateral
<1>5. Exchanges => VaultTypeOK'
    BY <1>2, <1>3, <1>4 DEF Exchanges
<1>6. Trades => VaultTypeOK'
    BY <1>2, BalanceEffects DEF Trades, CollateralChangesHands
<1>7. Listing => VaultTypeOK'
    BY <1>2 DEF Listing, allowCollateral, disallowCollateral, VaultTypeOK
<1>8. PriceMoves => VaultTypeOK'
    BY <1>2 DEF PriceMoves, OracleMoves, VaultTypeOK
<1> QED BY <1>1, <1>5, <1>6, <1>7, <1>8, UntouchedParts, PartsMakeIInv

LEMMA PausesKeep ==
    ASSUME IInv, Pauses
    PROVE  IInv'
<1>1. PICK paused \in BOOLEAN :
         \/ setTokenPaused(paused) /\ UNCHANGED <<vaultVars, offChain>>
         \/ setMintingPaused(paused) /\ UNCHANGED redeemerVars
         \/ setRedemptionPaused(paused)
         \/ \E a \in Assets :
               \/ setAssetMintingPause(a, paused) /\ UNCHANGED redeemerVars
               \/ setAssetRedemptionPause(a, paused)
    BY DEF Pauses
<1>2. TokenTypeOK /\ SupplyAddsUp /\ IssuerTypeOK /\ RedeemerTypeOK
    BY DEF IInv, TypeOK
<1>3. CASE setTokenPaused(paused) /\ UNCHANGED <<vaultVars, offChain>>
    <2>1. TokenPart'
        BY <1>2, <1>3 DEF setTokenPaused, TokenPart, TokenTypeOK, SupplyAddsUp
    <2> QED BY <1>3, <2>1, UntouchedParts, PartsMakeIInv DEF offChain
<1>4. CASE /\ setMintingPaused(paused) \/ \E a \in Assets : setAssetMintingPause(a, paused)
           /\ UNCHANGED redeemerVars
    <2>1. IssuerTypeOK' /\ UNCHANGED vaultVars /\ UNCHANGED tokenVars /\ UNCHANGED amoVars
        BY <1>2, <1>4 DEF setMintingPaused, setAssetMintingPause, IssuerTypeOK
    <2> QED BY <1>4, <2>1, UntouchedParts, PartsMakeIInv
<1>5. CASE setRedemptionPaused(paused) \/ \E a \in Assets : setAssetRedemptionPause(a, paused)
    <2>1. /\ RedeemerTypeOK' /\ UNCHANGED vaultVars /\ UNCHANGED tokenVars
          /\ UNCHANGED amoVars /\ UNCHANGED issuerVars
        BY <1>2, <1>5 DEF setRedemptionPaused, setAssetRedemptionPause, RedeemerTypeOK, feeVars
    <2> QED BY <2>1, UntouchedParts, PartsMakeIInv
<1> QED BY <1>1, <1>3, <1>4, <1>5

LEMMA FeesKeep ==
    ASSUME Assumptions, IInv, Fees
    PROVE  IInv'
<1>1. /\ RedeemerTypeOK /\ MaxFeeBps \in Nat /\ OneHundredPercentBps \in Nat
    BY DEF IInv, TypeOK, Assumptions, RedeemerAssumption
<1> USE DEF RedeemerTypeOK, pauseVars
<1>2. ASSUME NEW acct \in Accounts, setFeeReceiver(acct)
      PROVE  RedeemerTypeOK'
    BY <1>1, <1>2 DEF setFeeReceiver
<1>3. ASSUME NEW bps \in 0..OneHundredPercentBps, setDefaultRedemptionFee(bps)
      PROVE  RedeemerTypeOK'
    BY <1>1, <1>3 DEF setDefaultRedemptionFee, WithinMaxFee
<1>4. ASSUME NEW bps \in 0..OneHundredPercentBps, NEW a \in Assets,
             setCollateralRedemptionFee(a, bps)
      PROVE  RedeemerTypeOK'
    BY <1>1, <1>4 DEF setCollateralRedemptionFee, WithinMaxFee
<1>5. ASSUME NEW a \in Assets, clearCollateralRedemptionFee(a)
      PROVE  RedeemerTypeOK'
    BY <1>1, <1>5 DEF clearCollateralRedemptionFee
<1>6. RedeemerTypeOK'
    BY <1>2, <1>3, <1>4, <1>5 DEF Fees
<1>7. /\ UNCHANGED vaultVars /\ UNCHANGED tokenVars
      /\ UNCHANGED amoVars /\ UNCHANGED issuerVars
    BY DEF Fees, setFeeReceiver, setDefaultRedemptionFee,
           setCollateralRedemptionFee, clearCollateralRedemptionFee
<1> QED BY <1>6, <1>7, UntouchedParts, PartsMakeIInv

LEMMA StepIInv ==
    ASSUME Assumptions, IInv, [Next]_vars
    PROVE  IInv'
<1>1. CASE UNCHANGED vars
    BY <1>1, UntouchedParts, PartsMakeIInv DEF vars
<1>2. CASE Next
    BY <1>2, UsersKeep, FlashLoansKeep, AmoStepsKeep, IssuerStepsKeep,
       CollateralStepsKeep, PausesKeep, FeesKeep DEF Next
<1> QED BY <1>1, <1>2

-----------------------------------------------------------------------------
\* Types and sums hold in every reachable state of every instance.
THEOREM InductiveInvariant == Spec => []IInv
<1>0. Assumptions
    BY AccountAssumption, VaultAssumption, TokenAssumption, AmoAssumption,
       RedeemerAssumption DEF Assumptions
<1>1. Init => IInv
    BY <1>0, InitIInv
<1>2. IInv /\ [Next]_vars => IInv'
    BY <1>0, StepIInv
<1> QED BY <1>1, <1>2, PTL DEF Spec

\* No balance, allocation, supply or total ever leaves the naturals: the
\* checked subtractions that do not revert never underflow.
THEOREM TypeCorrect == Spec => []TypeOK
<1>1. IInv => TypeOK
    BY DEF IInv
<1> QED BY <1>1, InductiveInvariant, PTL

\* The supply is what holders hold.
THEOREM SupplyIsSum == Spec => []SupplyAddsUp
<1>1. IInv => SupplyAddsUp
    BY DEF IInv
<1> QED BY <1>1, InductiveInvariant, PTL

\* The allocated total is what the vaults were lent.
THEOREM AllocatedIsSum == Spec => []AllocationsAddUp
<1>1. IInv => AllocationsAddUp
    BY DEF IInv
<1> QED BY <1>1, InductiveInvariant, PTL
=============================================================================
