---------------------------- MODULE DStakeProofs ----------------------------
(***************************************************************************)
(* dSTAKE for any number of stakers, wrapped tokens, routers and adapters, *)
(* any rates, fees below the whole and tolerances. StakeTypeOK is          *)
(* inductive by itself; the other theorems are about one step, or one      *)
(* state, that satisfies it: inequalities through the roundings of shares, *)
(* fees and wrapped tokens, and what one step does to the sum of the       *)
(* counted tokens.                                                         *)
(***************************************************************************)
EXTENDS DStake, ArithmeticProofs

-----------------------------------------------------------------------------
(* What the assumptions say, in the form the arithmetic needs. *)

LEMMA Parameters ==
    ASSUME StakeTypeOK
    PROVE  /\ OneHundredPercentBps \in Nat \ {0}
           /\ withdrawalFeeBps_ \in 0..(OneHundredPercentBps - 1)
           /\ NumStakers \in Nat /\ NumVaultAssets \in Nat /\ RateUnit \in Nat \ {0}
           /\ \A a \in VaultAssets : rate[a] \in Nat \ {0}
<1>1. \A a \in VaultAssets : rate[a] \in Rates
    BY DEF StakeTypeOK
<1>2. \A x \in Rates : x \in Nat \ {0}
    BY DStakeAssumption
<1>3. OneHundredPercentBps \in Nat \ {0} /\ MAX_WITHDRAWAL_FEE_BPS \in Nat
      /\ MAX_WITHDRAWAL_FEE_BPS <= OneHundredPercentBps - 1
    BY DStakeAssumption, BpsAssumption
<1>4. withdrawalFeeBps_ \in 0..MAX_WITHDRAWAL_FEE_BPS
    BY DEF StakeTypeOK
<1>5. withdrawalFeeBps_ \in 0..(OneHundredPercentBps - 1)
    BY <1>3, <1>4
<1>6. \A a \in VaultAssets : rate[a] \in Nat \ {0}
    BY <1>1, <1>2
<1>7. NumStakers \in Nat /\ NumVaultAssets \in Nat /\ RateUnit \in Nat \ {0}
    BY DStakeAssumption
<1> QED BY <1>3, <1>5, <1>6, <1>7

\* Changing a table of naturals at one place.
LEMMA PlusType ==
    ASSUME NEW D, NEW f \in [D -> Nat], NEW x \in D, NEW n \in Int, f[x] + n \in Nat
    PROVE  /\ Plus(f, x, n) \in [D -> Nat]
           /\ Plus(f, x, n)[x] = f[x] + n
           /\ \A y \in D \ {x} : Plus(f, x, n)[y] = f[y]
BY DEF Plus

\* A sum follows the change of one summand.
LEMMA SumFollows ==
    ASSUME NEW N \in Nat, NEW f \in [1..N -> Nat], NEW h \in [1..N -> Nat], NEW j \in 1..N,
           \A i \in (1..N) \ {j} : h[i] = f[i]
    PROVE  SumTo(h, N) = SumTo(f, N) + h[j] - f[j]
<1>1. f \in [1..N -> Int] /\ h \in [1..N -> Int]
    OBVIOUS
<1> QED BY <1>1, SumUpdate

-----------------------------------------------------------------------------
(* The value the vault counts *)

Counted(holds) == [a \in VaultAssets |-> IF IsCounted(a) THEN worth(a, holds[a]) ELSE 0]
valueOf(holds) == SumTo(Counted(holds), NumVaultAssets)

LEMMA TotalIsValue == totalAssets = valueOf(vaultHolds)
BY DEF totalAssets, valueOf, Counted

LEMMA NextTotalIsValue ==
    ASSUME UNCHANGED <<registry, rate>>
    PROVE  totalAssets' = valueOf(vaultHolds')
<1>1. \A a : IsCounted(a)' <=> IsCounted(a)
    BY DEF registry, IsCounted, HasAdapter
<1>2. \A a, n : worth(a, n)' = worth(a, n)
    BY DEF worth
<1> QED BY <1>1, <1>2 DEF totalAssets, valueOf, Counted

LEMMA WorthNat ==
    ASSUME StakeTypeOK, NEW a \in VaultAssets, NEW n \in Nat
    PROVE  worth(a, n) \in Nat
BY Parameters, MulDivBounds DEF worth

LEMMA CountedType ==
    ASSUME StakeTypeOK, NEW holds \in [VaultAssets -> Nat]
    PROVE  /\ Counted(holds) \in [1..NumVaultAssets -> Nat]
           /\ valueOf(holds) \in Nat
<1>1. \A a \in VaultAssets : holds[a] \in Nat
    OBVIOUS
<1>2. \A a \in VaultAssets : worth(a, holds[a]) \in Nat
    BY <1>1, WorthNat
<1>3. Counted(holds) \in [1..NumVaultAssets -> Nat]
    BY <1>2 DEF Counted, VaultAssets
<1>4. valueOf(holds) \in Nat
    BY <1>3, SumNat, Parameters DEF valueOf
<1> QED BY <1>3, <1>4

\* One holding changes, and the value by what that does to its worth, if it counts.
LEMMA ValueChanges ==
    ASSUME StakeTypeOK,
           NEW holds \in [VaultAssets -> Nat], NEW a \in VaultAssets, NEW n \in Int,
           holds[a] + n \in Nat
    PROVE  /\ IsCounted(a) => valueOf(Plus(holds, a, n)) =
                  valueOf(holds) + worth(a, holds[a] + n) - worth(a, holds[a])
           /\ ~ IsCounted(a) => valueOf(Plus(holds, a, n)) = valueOf(holds)
<1> DEFINE h == Plus(holds, a, n)
           f == Counted(holds)
           g == Counted(h)
<1>1. h \in [VaultAssets -> Nat] /\ h[a] = holds[a] + n
      /\ \A b \in VaultAssets \ {a} : h[b] = holds[b]
    BY PlusType
<1> HIDE DEF h
<1>2. f \in [1..NumVaultAssets -> Nat] /\ g \in [1..NumVaultAssets -> Nat]
    BY <1>1, CountedType
<1>4. \A b \in 1..NumVaultAssets \ {a} : g[b] = f[b]
    BY <1>1 DEF Counted, VaultAssets
<1>5. /\ IsCounted(a) => g[a] = worth(a, holds[a] + n) /\ f[a] = worth(a, holds[a])
      /\ ~ IsCounted(a) => g[a] = 0 /\ f[a] = 0
    BY <1>1 DEF Counted
<1> HIDE DEF f, g
<1>6. SumTo(g, NumVaultAssets) = SumTo(f, NumVaultAssets) + g[a] - f[a]
  <2>1. NumVaultAssets \in Nat /\ a \in 1..NumVaultAssets
      BY Parameters DEF VaultAssets
  <2> QED BY <1>2, <1>4, <2>1, SumFollows
<1>7. SumTo(f, NumVaultAssets) \in Nat
    BY <1>2, SumNat, Parameters
<1> QED BY <1>5, <1>6, <1>7, WorthNat, Parameters DEF valueOf, f, g, h

\* What arrives raises the value by at least its own worth.
LEMMA ValueGrows ==
    ASSUME StakeTypeOK,
           NEW holds \in [VaultAssets -> Nat], NEW a \in VaultAssets, NEW n \in Nat
    PROVE  /\ Plus(holds, a, n) \in [VaultAssets -> Nat]
           /\ valueOf(Plus(holds, a, n)) >= valueOf(holds)
           /\ IsCounted(a) => valueOf(Plus(holds, a, n)) >= valueOf(holds) + worth(a, n)
<1> DEFINE v == valueOf(holds)
           w == valueOf(Plus(holds, a, n))
<1>1. holds[a] \in Nat /\ holds[a] + n \in Nat /\ n \in Int
    OBVIOUS
<1>2. Plus(holds, a, n) \in [VaultAssets -> Nat]
    BY <1>1, PlusType
<1>3. v \in Nat /\ w \in Nat
    BY <1>2, CountedType
<1>4. /\ IsCounted(a) => w = v + worth(a, holds[a] + n) - worth(a, holds[a])
      /\ ~ IsCounted(a) => w = v
    BY <1>1, ValueChanges
<1>5. worth(a, holds[a] + n) >= worth(a, holds[a]) + worth(a, n)
  <2>1. rate[a] \in Nat \ {0} /\ RateUnit \in Nat \ {0}
      BY Parameters
  <2>2. /\ mulDiv(rate[a], holds[a] + n, RateUnit) = mulDiv(holds[a] + n, rate[a], RateUnit)
        /\ mulDiv(rate[a], holds[a], RateUnit) = mulDiv(holds[a], rate[a], RateUnit)
        /\ mulDiv(rate[a], n, RateUnit) = mulDiv(n, rate[a], RateUnit)
      BY <1>1, <2>1, ProductsCommute
  <2>3. mulDiv(rate[a], holds[a] + n, RateUnit)
          >= mulDiv(rate[a], holds[a], RateUnit) + mulDiv(rate[a], n, RateUnit)
      BY <1>1, <2>1, MulDivSuperadditive
  <2> QED BY <2>2, <2>3 DEF worth
<1>6. worth(a, holds[a] + n) \in Nat /\ worth(a, holds[a]) \in Nat /\ worth(a, n) \in Nat
    BY <1>1, WorthNat
<1> HIDE DEF v, w
<1> QED BY <1>2, <1>3, <1>4, <1>5, <1>6 DEF v, w

\* What leaves lowers it by at most its own worth and one.
LEMMA ValueFalls ==
    ASSUME StakeTypeOK,
           NEW holds \in [VaultAssets -> Nat], NEW a \in VaultAssets, NEW n \in Nat,
           n <= holds[a]
    PROVE  /\ Plus(holds, a, - n) \in [VaultAssets -> Nat]
           /\ valueOf(Plus(holds, a, - n)) >= valueOf(holds) - worth(a, n) - 1
           /\ ~ IsCounted(a) => valueOf(Plus(holds, a, - n)) = valueOf(holds)
<1> DEFINE v == valueOf(holds)
           w == valueOf(Plus(holds, a, - n))
<1>1. holds[a] \in Nat /\ holds[a] + (- n) \in Nat /\ - n \in Int
      /\ holds[a] + (- n) = holds[a] - n
    OBVIOUS
<1>2. Plus(holds, a, - n) \in [VaultAssets -> Nat]
    BY <1>1, PlusType
<1>3. v \in Nat /\ w \in Nat
    BY <1>2, CountedType
<1>4. /\ IsCounted(a) => w = v + worth(a, holds[a] - n) - worth(a, holds[a])
      /\ ~ IsCounted(a) => w = v
    BY <1>1, ValueChanges
<1>5. worth(a, holds[a]) <= worth(a, holds[a] - n) + worth(a, n) + 1
  <2>1. rate[a] \in Nat \ {0} /\ RateUnit \in Nat \ {0} /\ holds[a] - n \in Nat
      BY <1>1, Parameters
  <2>2. /\ mulDiv(rate[a], holds[a] - n, RateUnit) = mulDiv(holds[a] - n, rate[a], RateUnit)
        /\ mulDiv(rate[a], holds[a], RateUnit) = mulDiv(holds[a], rate[a], RateUnit)
        /\ mulDiv(rate[a], n, RateUnit) = mulDiv(n, rate[a], RateUnit)
      BY <1>1, <2>1, ProductsCommute
  <2>3. mulDiv(rate[a], holds[a], RateUnit)
          <= mulDiv(rate[a], holds[a] - n, RateUnit) + mulDiv(rate[a], n, RateUnit) + 1
      BY <1>1, <2>1, MulDivTakingQuotient
  <2> QED BY <2>2, <2>3 DEF worth
<1>6. worth(a, holds[a] - n) \in Nat /\ worth(a, holds[a]) \in Nat /\ worth(a, n) \in Nat
    BY <1>1, WorthNat
<1> HIDE DEF v, w
<1> QED BY <1>2, <1>3, <1>4, <1>5, <1>6 DEF v, w

-----------------------------------------------------------------------------
(* Shares and fees *)

\* Whoever pays assets for shares, by either function, pays their price.
LEMMA SharesNat ==
    ASSUME StakeTypeOK, NEW n \in Nat
    PROVE  /\ totalAssets \in Nat /\ totalShares \in Nat
           /\ convertToShares(n) \in Nat /\ convertToAssets(n) \in Nat
           /\ convertToSharesUp(n) \in Nat /\ convertToAssetsUp(n) \in Nat
           /\ convertToShares(n) * (totalAssets + 1) <= n * (totalShares + 1)
           /\ n * (totalAssets + 1) <= convertToAssetsUp(n) * (totalShares + 1)
           /\ n * (totalShares + 1) <= convertToSharesUp(n) * (totalAssets + 1)
           /\ convertToAssets(n) * (totalShares + 1) <= n * (totalAssets + 1)
<1>1. vaultHolds \in [VaultAssets -> Nat]
    BY DEF StakeTypeOK
<1>2. totalAssets \in Nat
    BY <1>1, CountedType, TotalIsValue
<1>3. totalShares \in Nat
  <2>1. sharesOf \in [1..NumStakers -> Nat] /\ totalShares = SumTo(sharesOf, NumStakers)
      BY DEF StakeTypeOK, Stakers
  <2> QED BY <2>1, SumNat, Parameters
<1> DEFINE A == totalAssets + 1
           T == totalShares + 1
<1>4. A \in Nat \ {0} /\ T \in Nat \ {0}
    BY <1>2, <1>3
<1> HIDE DEF A, T
<1>5. /\ mulDiv(n, T, A) \in Nat /\ mulDiv(n, T, A) * A <= n * T
      /\ mulDiv(n, A, T) \in Nat /\ mulDiv(n, A, T) * T <= n * A
      /\ mulDivUp(n, T, A) \in Nat /\ n * T <= mulDivUp(n, T, A) * A
      /\ mulDivUp(n, A, T) \in Nat /\ n * A <= mulDivUp(n, A, T) * T
    BY <1>4, MulDivBounds, MulDivUpBounds
<1> QED BY <1>2, <1>3, <1>5
        DEF convertToShares, convertToAssets, convertToSharesUp, convertToAssetsUp, A, T

\* What the burnt shares pay: natural, and at most their worth less the fee.
LEMMA NetAssetsBound ==
    ASSUME StakeTypeOK, NEW shares \in Nat
    PROVE  /\ netAssets(shares) \in Nat
           /\ netAssets(shares) * OneHundredPercentBps
                <= convertToAssets(shares) * (OneHundredPercentBps - withdrawalFeeBps_)
                    + (OneHundredPercentBps - 1)
           /\ netAssets(shares) <= convertToAssets(shares)
<1>1. convertToAssets(shares) \in Nat
    BY SharesNat
<1>2. withdrawalFeeBps_ \in 0..OneHundredPercentBps /\ OneHundredPercentBps \in Nat \ {0}
    BY Parameters
<1>3. mulDiv(convertToAssets(shares), withdrawalFeeBps_, OneHundredPercentBps) \in Nat
    BY <1>1, <1>2, MulDivBounds
<1> DEFINE x == convertToAssets(shares)
           q == mulDiv(x, withdrawalFeeBps_, OneHundredPercentBps)
<1>4. netAssets(shares) = x - q
    BY DEF netAssets, supportedNet, supportedFee
<1>5. x - q \in Nat /\ (x - q) * OneHundredPercentBps
          <= x * (OneHundredPercentBps - withdrawalFeeBps_) + (OneHundredPercentBps - 1)
    BY <1>1, <1>2, NetNat
<1> HIDE DEF q, x
<1>6. x - q <= x
    BY <1>1, <1>3 DEF q, x
<1> QED BY <1>4, <1>5, <1>6 DEF x

LEMMA PreviewNat ==
    ASSUME StakeTypeOK, NEW assets \in Nat
    PROVE  /\ supportedGross(assets, withdrawalFeeBps_) \in Nat
           /\ previewWithdraw(assets) \in Nat
<1>1. OneHundredPercentBps \in Nat \ {0}
      /\ withdrawalFeeBps_ \in 0..(OneHundredPercentBps - 1)
    BY Parameters
<1>2. OneHundredPercentBps - withdrawalFeeBps_ \in Nat \ {0}
    BY <1>1
<1>3. supportedGross(assets, withdrawalFeeBps_) \in Nat
    BY <1>1, <1>2, MulDivBounds DEF supportedGross
<1> QED BY <1>3, SharesNat DEF previewWithdraw

-----------------------------------------------------------------------------
(* The wrapped tokens *)

LEMMA WrappedNat ==
    ASSUME StakeTypeOK, NEW a \in VaultAssets, NEW n \in Nat
    PROVE  /\ wrappedFor(a, n) \in Nat /\ wrappedToPay(a, n) \in Nat
           /\ n * RateUnit < (wrappedFor(a, n) + 1) * rate[a]
           /\ worth(a, wrappedFor(a, n)) <= n
           /\ n <= worth(a, wrappedFor(a, n)) + worth(a, 1) + 1
           /\ worth(a, wrappedToPay(a, n)) - n \in Nat
           /\ worth(a, wrappedToPay(a, n)) <= n + worth(a, 1)
           /\ (worth(a, wrappedToPay(a, n)) - n) * RateUnit < rate[a]
<1> DEFINE r == rate[a]
           w == wrappedFor(a, n)
<1>1. r \in Nat \ {0} /\ RateUnit \in Nat \ {0}
    BY Parameters
<1>2. w \in Nat /\ wrappedToPay(a, n) \in Nat /\ n * RateUnit < w * r + r
    BY <1>1, MulDivBounds, MulDivUpBounds DEF wrappedFor, wrappedToPay
<1>3. (w + 1) * r = w * r + r
    BY <1>1, <1>2
<1>4. worth(a, w) <= n /\ n <= worth(a, w) + worth(a, 1) + 1
    BY <1>1, RoundTripDown DEF worth, wrappedFor
<1>5. /\ worth(a, wrappedToPay(a, n)) \in Nat
      /\ n <= worth(a, wrappedToPay(a, n))
      /\ worth(a, wrappedToPay(a, n)) <= n + worth(a, 1)
      /\ (worth(a, wrappedToPay(a, n)) - n) * RateUnit < r
    BY <1>1, RoundTripUp DEF worth, wrappedToPay
<1> QED BY <1>2, <1>3, <1>4, <1>5

\* At an unchanged rate no surplus of a withdrawal buys a wrapped token: the deposit
\* that is to put it back mints nothing.
LEMMA SurplusBuysNothing ==
    ASSUME StakeTypeOK, NEW a \in VaultAssets, NEW n \in Nat
    PROVE  wrappedFor(a, worth(a, wrappedToPay(a, n)) - n) = 0
<1> DEFINE over == worth(a, wrappedToPay(a, n)) - n
<1>1. over \in Nat /\ over * RateUnit < rate[a]
    BY WrappedNat
<1> HIDE DEF over
<1>2. rate[a] \in Nat \ {0} /\ RateUnit \in Nat \ {0}
    BY Parameters
<1>3. wrappedFor(a, over) <= 0
    BY <1>1, <1>2, MulDivAtMost DEF wrappedFor
<1>4. wrappedFor(a, over) \in Nat
    BY <1>1, WrappedNat
<1> QED BY <1>3, <1>4 DEF over

-----------------------------------------------------------------------------
(* Type correctness, by the parts of the state the actions leave alone *)

SharesOK == sharesOf \in [Stakers -> Nat] /\ totalShares = SumTo(sharesOf, NumStakers)
RegistryOK ==
    /\ router \in Routers \cup {NoRouter} /\ vaultRouter \in Routers \cup {NoRouter}
    /\ supportedAssets \subseteq VaultAssets
    /\ vaultAssetToAdapter \in [Routers -> [VaultAssets -> Adapters \cup {NoAdapter}]]
    /\ \A r \in Routers, a \in VaultAssets :
          HasAdapter(r, a) => adapterAsset[vaultAssetToAdapter[r][a]] = a
    /\ defaultDepositVaultAsset \in [Routers -> VaultAssets \cup {NoAsset}]
MoneyOK ==
    /\ vaultHolds \in [VaultAssets -> Nat] /\ surplus \in [Routers -> Nat]
    /\ rewardsEarned \in Nat
SettingsOK ==
    /\ withdrawalFeeBps_ \in 0..MAX_WITHDRAWAL_FEE_BPS
    /\ dustTolerance \in [Routers -> Nat] /\ exchangeThreshold \in Nat \ {0}
RateOK == rate \in [VaultAssets -> Rates]

LEMMA Parts ==
    StakeTypeOK <=> SharesOK /\ RegistryOK /\ MoneyOK /\ SettingsOK /\ RateOK
BY DEF StakeTypeOK, SharesOK, RegistryOK, MoneyOK, SettingsOK, RateOK

LEMMA NextParts ==
    SharesOK' /\ RegistryOK' /\ MoneyOK' /\ SettingsOK' /\ RateOK' => StakeTypeOK'
BY DEF StakeTypeOK, SharesOK, RegistryOK, MoneyOK, SettingsOK, RateOK

LEMMA Untouched ==
    ASSUME StakeTypeOK
    PROVE  /\ UNCHANGED stakeVars => SharesOK'
           /\ UNCHANGED <<router, registry>> => RegistryOK'
           /\ UNCHANGED moneyVars => MoneyOK'
           /\ UNCHANGED stakeSettings => SettingsOK'
           /\ UNCHANGED rate => RateOK'
<1>1. SharesOK /\ RegistryOK /\ MoneyOK /\ SettingsOK /\ RateOK
    BY Parts
<1>2. UNCHANGED stakeVars => SharesOK'
    BY <1>1 DEF SharesOK, stakeVars
<1>3. UNCHANGED <<router, registry>> => RegistryOK'
    BY <1>1 DEF RegistryOK, registry, HasAdapter
<1>4. UNCHANGED moneyVars => MoneyOK'
    BY <1>1 DEF MoneyOK, moneyVars
<1>5. UNCHANGED stakeSettings => SettingsOK'
    BY <1>1 DEF SettingsOK, stakeSettings
<1>6. UNCHANGED rate => RateOK'
    BY <1>1 DEF RateOK
<1> QED BY <1>2, <1>3, <1>4, <1>5, <1>6

\* Minting and burning keep the sum.
LEMMA SharesMinted ==
    ASSUME StakeTypeOK, NEW s \in Stakers, NEW n \in Int,
           sharesOf[s] + n \in Nat,
           sharesOf' = Plus(sharesOf, s, n), totalShares' = totalShares + n
    PROVE  SharesOK'
<1>1. sharesOf \in [Stakers -> Nat] /\ totalShares = SumTo(sharesOf, NumStakers)
    BY DEF StakeTypeOK
<1>2. /\ sharesOf' \in [Stakers -> Nat] /\ sharesOf'[s] = sharesOf[s] + n
      /\ \A x \in Stakers \ {s} : sharesOf'[x] = sharesOf[x]
    BY <1>1, PlusType
<1>3. sharesOf \in [1..NumStakers -> Int] /\ sharesOf' \in [1..NumStakers -> Int]
    BY <1>1, <1>2 DEF Stakers
<1>4. SumTo(sharesOf', NumStakers) = SumTo(sharesOf, NumStakers) + sharesOf'[s] - sharesOf[s]
  <2>1. NumStakers \in Nat /\ s \in 1..NumStakers
        /\ sharesOf \in [1..NumStakers -> Nat] /\ sharesOf' \in [1..NumStakers -> Nat]
        /\ \A x \in (1..NumStakers) \ {s} : sharesOf'[x] = sharesOf[x]
      BY <1>1, <1>2, Parameters DEF Stakers
  <2> QED BY <2>1, SumFollows
<1>5. SumTo(sharesOf, NumStakers) \in Int /\ sharesOf[s] \in Int
    BY <1>1, <1>3, SumToType, Parameters
<1> QED BY <1>1, <1>2, <1>4, <1>5 DEF SharesOK

LEMMA SharesMoved ==
    ASSUME StakeTypeOK,
           NEW from \in Stakers, NEW to \in Stakers, NEW n \in Nat, transferStake(from, to, n)
    PROVE  SharesOK'
<1> DEFINE mid == Plus(sharesOf, from, - n)
<1>1. sharesOf \in [Stakers -> Nat] /\ totalShares = SumTo(sharesOf, NumStakers)
    BY DEF StakeTypeOK
<1>2. from # to /\ n <= sharesOf[from] /\ sharesOf' = Plus(mid, to, n)
      /\ totalShares' = totalShares
    BY DEF transferStake
<1>3. sharesOf[from] \in Nat /\ - n \in Int /\ sharesOf[from] + (- n) \in Nat
    BY <1>1, <1>2
<1>4. /\ mid \in [Stakers -> Nat] /\ mid[from] = sharesOf[from] + (- n)
      /\ \A x \in Stakers \ {from} : mid[x] = sharesOf[x]
    BY <1>1, <1>3, PlusType
<1> HIDE DEF mid
<1>5. mid[to] + n \in Nat /\ n \in Int
    BY <1>4
<1>6. /\ sharesOf' \in [Stakers -> Nat] /\ sharesOf'[to] = mid[to] + n
      /\ \A x \in Stakers \ {to} : sharesOf'[x] = mid[x]
    BY <1>2, <1>4, <1>5, PlusType
<1>7. /\ sharesOf \in [1..NumStakers -> Int] /\ mid \in [1..NumStakers -> Int]
      /\ sharesOf' \in [1..NumStakers -> Int]
    BY <1>1, <1>4, <1>6 DEF Stakers
<1>8. /\ NumStakers \in Nat /\ from \in 1..NumStakers /\ to \in 1..NumStakers
      /\ sharesOf \in [1..NumStakers -> Nat] /\ sharesOf' \in [1..NumStakers -> Nat]
      /\ mid \in [1..NumStakers -> Nat]
      /\ \A x \in (1..NumStakers) \ {from} : mid[x] = sharesOf[x]
      /\ \A x \in (1..NumStakers) \ {to} : sharesOf'[x] = mid[x]
    BY <1>1, <1>4, <1>6, Parameters DEF Stakers
<1>9. SumTo(mid, NumStakers) = SumTo(sharesOf, NumStakers) + mid[from] - sharesOf[from]
    BY <1>8, SumFollows
<1>10. SumTo(sharesOf', NumStakers) = SumTo(mid, NumStakers) + sharesOf'[to] - mid[to]
    BY <1>8, SumFollows
<1>11. SumTo(sharesOf, NumStakers) \in Int /\ mid[to] \in Int
    BY <1>4, <1>7, SumToType, Parameters
<1> QED BY <1>1, <1>2, <1>3, <1>4, <1>6, <1>9, <1>10, <1>11 DEF SharesOK

\* Wrapped tokens that the vault receives, or gives.
LEMMA HoldsType ==
    ASSUME StakeTypeOK, NEW a \in VaultAssets, NEW n \in Int, vaultHolds[a] + n \in Nat
    PROVE  Plus(vaultHolds, a, n) \in [VaultAssets -> Nat]
BY PlusType DEF StakeTypeOK

LEMMA SurplusType ==
    ASSUME StakeTypeOK, NEW r \in Routers, NEW n \in Int, surplus[r] + n \in Nat
    PROVE  Plus(surplus, r, n) \in [Routers -> Nat]
BY PlusType DEF StakeTypeOK

LEMMA Ranges ==
    ASSUME StakeTypeOK
    PROVE  /\ \A a \in VaultAssets : vaultHolds[a] \in Nat
           /\ \A r \in Routers : surplus[r] \in Nat /\ dustTolerance[r] \in Nat
           /\ \A s \in Stakers : sharesOf[s] \in Nat
           /\ router # NoRouter => router \in Routers
           /\ vaultRouter # NoRouter => vaultRouter \in Routers
           /\ rewardsEarned \in Nat /\ exchangeThreshold \in Nat \ {0}
           /\ dStakeRouter \in Routers /\ NoRouter \notin Routers
BY DStakeAssumption DEF StakeTypeOK

\* A deposit, by either function: what it does, in the terms of the lemmas.
LEMMA Deposited ==
    ASSUME StakeTypeOK,
           NEW s \in Stakers, NEW assets \in Nat, NEW shares \in Nat,
           TakeStake(s, assets, shares)
    PROVE  /\ depositAsset \in VaultAssets
           /\ vaultHolds' = Plus(vaultHolds, depositAsset, wrappedFor(depositAsset, assets))
           /\ wrappedFor(depositAsset, assets) \in Nat
           /\ sharesOf' = Plus(sharesOf, s, shares) /\ totalShares' = totalShares + shares
           /\ UNCHANGED <<router, registry, surplus, rewardsEarned, stakeSettings, rate>>
<1>1. depositAsset \in VaultAssets
    BY DEF TakeStake, HasAdapter, depositAsset
<1> QED BY <1>1, WrappedNat DEF TakeStake, VaultReceives, depositAsset

\* A withdrawal, by either function. What it recycles is nothing, whether the pool
\* refuses or not.
LEMMA Paid ==
    ASSUME StakeTypeOK,
           NEW s \in Stakers, NEW shares \in Nat, PayStake(s, shares),
           NEW net, net = netAssets(shares),
           NEW wrapped, wrapped = wrappedToPay(depositAsset, net)
    PROVE  /\ depositAsset \in VaultAssets /\ IsCounted(depositAsset)
           /\ router \in Routers
           /\ net \in Nat /\ wrapped \in Nat /\ wrapped # 0
           /\ wrapped <= vaultHolds[depositAsset]
           /\ vaultHolds' = Plus(vaultHolds, depositAsset, - wrapped)
           /\ worth(depositAsset, wrapped) - net \in Nat
           /\ surplus' = Plus(surplus, router, worth(depositAsset, wrapped) - net)
           /\ shares <= sharesOf[s]
           /\ sharesOf' = Plus(sharesOf, s, - shares) /\ totalShares' = totalShares - shares
           /\ UNCHANGED <<router, registry, rewardsEarned, stakeSettings, rate>>
<1> DEFINE a == depositAsset
           over == worth(a, wrapped) - net
<1>1. /\ router # NoRouter /\ shares <= sharesOf[s] /\ HasAdapter(router, a)
      /\ wrapped # 0 /\ CanSend(router, a, wrapped, vaultHolds)
      /\ \E recycled \in {0, wrappedFor(a, over)} :
             /\ vaultHolds' = Plus(vaultHolds, a, recycled - wrapped)
             /\ surplus' = Plus(surplus, router, IF recycled = 0 THEN over ELSE 0)
      /\ sharesOf' = Plus(sharesOf, s, - shares) /\ totalShares' = totalShares - shares
      /\ UNCHANGED <<router, registry, rewardsEarned, stakeSettings, rate>>
    BY DEF PayStake, depositAsset
<1>2. a \in VaultAssets /\ IsCounted(a) /\ wrapped <= vaultHolds[a]
    BY <1>1 DEF HasAdapter, CanSend, IsCounted
<1>3. net \in Nat
    BY NetAssetsBound
<1> HIDE DEF a
<1>4. wrapped \in Nat /\ over \in Nat /\ wrappedFor(a, over) = 0
    BY <1>2, <1>3, WrappedNat, SurplusBuysNothing DEF a
<1> HIDE DEF over
<1>5. 0 - wrapped = - wrapped
    BY <1>4
<1>6. vaultHolds' = Plus(vaultHolds, a, - wrapped) /\ surplus' = Plus(surplus, router, over)
    BY <1>1, <1>4, <1>5
<1>7. router \in Routers
    BY <1>1, Ranges
<1> QED BY <1>1, <1>2, <1>3, <1>4, <1>6, <1>7 DEF a, over

LEMMA DepositKeepsTypes ==
    ASSUME StakeTypeOK,
           NEW s \in Stakers, NEW assets \in Nat, NEW shares \in Nat,
           TakeStake(s, assets, shares)
    PROVE  StakeTypeOK'
<1>1. /\ depositAsset \in VaultAssets
      /\ vaultHolds' = Plus(vaultHolds, depositAsset, wrappedFor(depositAsset, assets))
      /\ wrappedFor(depositAsset, assets) \in Nat
      /\ sharesOf' = Plus(sharesOf, s, shares) /\ totalShares' = totalShares + shares
      /\ UNCHANGED <<router, registry, surplus, rewardsEarned, stakeSettings, rate>>
    BY Deposited
<1>2. SharesOK'
  <2>1. sharesOf[s] + shares \in Nat /\ shares \in Int
      BY Ranges
  <2> QED BY <1>1, <2>1, SharesMinted
<1>3. MoneyOK'
  <2>1. vaultHolds[depositAsset] + wrappedFor(depositAsset, assets) \in Nat
        /\ wrappedFor(depositAsset, assets) \in Int
      BY <1>1, Ranges
  <2>2. vaultHolds' \in [VaultAssets -> Nat]
      BY <1>1, <2>1, HoldsType
  <2> QED BY <1>1, <2>2 DEF MoneyOK, StakeTypeOK
<1> QED BY <1>1, <1>2, <1>3, Untouched, NextParts

LEMMA WithdrawalKeepsTypes ==
    ASSUME StakeTypeOK,
           NEW s \in Stakers, NEW shares \in Nat, PayStake(s, shares)
    PROVE  StakeTypeOK'
<1> DEFINE net == netAssets(shares)
           a == depositAsset
           wrapped == wrappedToPay(a, net)
<1>1. /\ a \in VaultAssets /\ router \in Routers
      /\ wrapped \in Nat /\ wrapped <= vaultHolds[a]
      /\ vaultHolds' = Plus(vaultHolds, a, - wrapped)
      /\ worth(a, wrapped) - net \in Nat
      /\ surplus' = Plus(surplus, router, worth(a, wrapped) - net)
      /\ shares <= sharesOf[s]
      /\ sharesOf' = Plus(sharesOf, s, - shares) /\ totalShares' = totalShares - shares
      /\ UNCHANGED <<router, registry, rewardsEarned, stakeSettings, rate>>
    BY Paid
<1> DEFINE over == worth(a, wrapped) - net
<1> HIDE DEF wrapped, a, net, over
<1>2. SharesOK'
  <2>1. sharesOf[s] \in Nat /\ totalShares \in Nat
      BY Ranges, SharesNat
  <2>2. sharesOf[s] + (- shares) \in Nat /\ - shares \in Int
        /\ totalShares - shares = totalShares + (- shares)
      BY <1>1, <2>1
  <2> QED BY <1>1, <2>2, SharesMinted
<1>3. MoneyOK'
  <2>1. vaultHolds[a] + (- wrapped) \in Nat /\ - wrapped \in Int
      BY <1>1, Ranges
  <2>2. vaultHolds' \in [VaultAssets -> Nat]
      BY <1>1, <2>1, HoldsType
  <2>3. surplus[router] + over \in Nat /\ over \in Int
      BY <1>1, Ranges DEF over
  <2>4. surplus' \in [Routers -> Nat]
      BY <1>1, <2>3, SurplusType DEF over
  <2> QED BY <1>1, <2>2, <2>4 DEF MoneyOK, StakeTypeOK
<1> QED BY <1>1, <1>2, <1>3, Untouched, NextParts

\* What the callers pass is natural.
LEMMA Inputs ==
    /\ \A x \in StakeAmounts : x \in Nat
    /\ \A x \in Tolerances : x \in Nat
    /\ \A x \in Thresholds : x \in Nat
    /\ \A x \in FeeChoices : x \in Nat
BY DStakeAssumption

\* What the vault receives keeps the types.
LEMMA ReceivedType ==
    ASSUME StakeTypeOK, NEW a \in VaultAssets, NEW n \in Nat,
           vaultHolds' = Plus(vaultHolds, a, n)
    PROVE  vaultHolds' \in [VaultAssets -> Nat]
<1>1. vaultHolds[a] + n \in Nat /\ n \in Int
    BY DEF StakeTypeOK
<1> QED BY <1>1, HoldsType

LEMMA StakersKeepTypes ==
    ASSUME StakeTypeOK, StakerSteps
    PROVE  StakeTypeOK'
<1>1. PICK s \in Stakers, amount \in StakeAmounts :
         \/ depositStake(s, amount)  \/ mintStake(s, amount)
         \/ withdrawStake(s, amount) \/ redeemStake(s, amount)
         \/ \E to \in Stakers : transferStake(s, to, amount)
    BY DEF StakerSteps
<1>2. amount \in Nat
    BY Inputs
<1>3. CASE depositStake(s, amount)
    BY <1>2, <1>3, SharesNat, DepositKeepsTypes DEF depositStake
<1>4. CASE mintStake(s, amount)
    BY <1>2, <1>4, SharesNat, DepositKeepsTypes DEF mintStake
<1>5. CASE withdrawStake(s, amount)
    BY <1>2, <1>5, PreviewNat, WithdrawalKeepsTypes DEF withdrawStake
<1>6. CASE redeemStake(s, amount)
    BY <1>2, <1>6, WithdrawalKeepsTypes DEF redeemStake
<1>7. ASSUME NEW to \in Stakers, transferStake(s, to, amount) PROVE StakeTypeOK'
  <2>1. SharesOK'
      BY <1>2, <1>7, SharesMoved
  <2>2. UNCHANGED <<router, registry, moneyVars, stakeSettings, rate>>
      BY <1>7 DEF transferStake
  <2> QED BY <2>1, <2>2, Untouched, NextParts
<1> QED BY <1>1, <1>3, <1>4, <1>5, <1>6, <1>7

\* An exchange, by adapters or with a solver: what it moves.
LEMMA Exchanged ==
    ASSUME StakeTypeOK, ExchangerSteps
    PROVE  /\ vaultHolds' \in [VaultAssets -> Nat]
           /\ UNCHANGED <<stakeVars, router, registry, surplus, rewardsEarned, stakeSettings, rate>>
<1>1. PICK r \in Routers, from \in VaultAssets, to \in VaultAssets, amount \in StakeAmounts,
           min \in MinAmounts :
         exchangeAssetsUsingAdapters(r, from, to, amount, min)
         \/ exchangeAssets(r, from, to, amount, min)
    BY DEF ExchangerSteps
<1>2. amount \in Nat /\ vaultHolds \in [VaultAssets -> Nat]
    BY Inputs DEF StakeTypeOK
<1>3. worth(from, amount) \in Nat
    BY <1>2, WorthNat
<1> DEFINE given == wrappedFor(to, worth(from, amount))
<1>4. given \in Nat
    BY <1>3, WrappedNat
<1> HIDE DEF given
<1>5. CASE exchangeAssetsUsingAdapters(r, from, to, amount, min)
  <2> DEFINE mid == Plus(vaultHolds, from, - amount)
  <2>1. /\ amount <= vaultHolds[from]
        /\ vaultHolds' = Plus(mid, to, given)
        /\ UNCHANGED <<stakeVars, router, registry, surplus, rewardsEarned, stakeSettings, rate>>
      BY <1>5 DEF exchangeAssetsUsingAdapters, CanSend, given
  <2>2. vaultHolds[from] + (- amount) \in Nat /\ - amount \in Int
      BY <1>2, <2>1
  <2>3. mid \in [VaultAssets -> Nat]
      BY <2>2, HoldsType
  <2> HIDE DEF mid
  <2>4. mid[to] + given \in Nat /\ given \in Int
      BY <1>4, <2>3
  <2>5. Plus(mid, to, given) \in [VaultAssets -> Nat]
      BY <2>3, <2>4, PlusType
  <2> QED BY <2>1, <2>5
<1>6. CASE exchangeAssets(r, from, to, amount, min)
  <2> DEFINE mid == Plus(vaultHolds, from, amount)
  <2>1. /\ given <= mid[to]
        /\ vaultHolds' = Plus(mid, to, - given)
        /\ UNCHANGED <<stakeVars, router, registry, surplus, rewardsEarned, stakeSettings, rate>>
      BY <1>6 DEF exchangeAssets, CanSend, given
  <2>2. vaultHolds[from] + amount \in Nat /\ amount \in Int
      BY <1>2
  <2>3. mid \in [VaultAssets -> Nat]
      BY <2>2, HoldsType
  <2> HIDE DEF mid
  <2>4. mid[to] + (- given) \in Nat /\ - given \in Int
      BY <1>4, <2>1, <2>3
  <2>5. Plus(mid, to, - given) \in [VaultAssets -> Nat]
      BY <2>3, <2>4, PlusType
  <2> QED BY <2>1, <2>5
<1> QED BY <1>1, <1>5, <1>6

LEMMA RegistryKeepsTypes ==
    ASSUME StakeTypeOK, RegistrySteps \/ RouterMoves
    PROVE  StakeTypeOK'
<1> USE Ranges
<1>1. RegistryOK
    BY Parts
<1>2. ASSUME NEW r \in Routers, NEW a \in VaultAssets, NEW adapter \in Adapters,
             addAdapter(r, a, adapter)
      PROVE  StakeTypeOK'
  <2>1. RegistryOK'
    <3>1. /\ adapterAsset[adapter] = a
          /\ vaultAssetToAdapter' = [vaultAssetToAdapter EXCEPT ![r][a] = adapter]
          /\ supportedAssets' \subseteq supportedAssets \cup {a}
          /\ UNCHANGED <<router, vaultRouter, defaultDepositVaultAsset>>
        BY <1>2 DEF addAdapter
    <3>2. /\ vaultAssetToAdapter' \in [Routers -> [VaultAssets -> Adapters \cup {NoAdapter}]]
          /\ vaultAssetToAdapter'[r][a] = adapter
          /\ \A q \in Routers, b \in VaultAssets :
                q # r \/ b # a => vaultAssetToAdapter'[q][b] = vaultAssetToAdapter[q][b]
        BY <1>1, <3>1 DEF RegistryOK
    <3> QED BY <1>1, <3>1, <3>2 DEF RegistryOK, HasAdapter
  <2>2. UNCHANGED <<stakeVars, moneyVars, stakeSettings, rate>>
      BY <1>2 DEF addAdapter
  <2> QED BY <2>1, <2>2, Untouched, NextParts
<1>3. ASSUME NEW r \in Routers, NEW a \in VaultAssets, removeAdapter(r, a)
      PROVE  StakeTypeOK'
  <2>1. RegistryOK'
    <3>1. /\ vaultAssetToAdapter' = [vaultAssetToAdapter EXCEPT ![r][a] = NoAdapter]
          /\ supportedAssets' \subseteq supportedAssets
          /\ UNCHANGED <<router, vaultRouter, defaultDepositVaultAsset>>
        BY <1>3 DEF removeAdapter
    <3>2. /\ vaultAssetToAdapter' \in [Routers -> [VaultAssets -> Adapters \cup {NoAdapter}]]
          /\ vaultAssetToAdapter'[r][a] = NoAdapter
          /\ \A q \in Routers, b \in VaultAssets :
                q # r \/ b # a => vaultAssetToAdapter'[q][b] = vaultAssetToAdapter[q][b]
        BY <1>1, <3>1 DEF RegistryOK
    <3> QED BY <1>1, <3>1, <3>2 DEF RegistryOK, HasAdapter
  <2>2. UNCHANGED <<stakeVars, moneyVars, stakeSettings, rate>>
      BY <1>3 DEF removeAdapter
  <2> QED BY <2>1, <2>2, Untouched, NextParts
<1>4. ASSUME NEW r \in Routers, NEW a \in VaultAssets, setDefaultDepositVaultAsset(r, a)
      PROVE  StakeTypeOK'
  <2>1. RegistryOK'
      BY <1>1, <1>4 DEF RegistryOK, HasAdapter, setDefaultDepositVaultAsset
  <2>2. UNCHANGED <<stakeVars, moneyVars, stakeSettings, rate>>
      BY <1>4 DEF setDefaultDepositVaultAsset
  <2> QED BY <2>1, <2>2, Untouched, NextParts
<1>5. ASSUME NEW a \in VaultAssets, NEW amount \in StakeAmounts, rescueToken(a, amount)
      PROVE  StakeTypeOK'
  <2>1. amount \in Nat /\ amount <= vaultHolds[a] /\ vaultHolds' = Plus(vaultHolds, a, - amount)
      BY <1>5, Inputs DEF rescueToken
  <2>2. vaultHolds[a] + (- amount) \in Nat /\ - amount \in Int
      BY <2>1
  <2>3. vaultHolds' \in [VaultAssets -> Nat]
      BY <2>1, <2>2, HoldsType
  <2>4. UNCHANGED <<stakeVars, router, registry, surplus, rewardsEarned, stakeSettings, rate>>
      BY <1>5 DEF rescueToken
  <2>5. MoneyOK'
      BY <2>3, <2>4 DEF MoneyOK, StakeTypeOK
  <2> QED BY <2>4, <2>5, Untouched, NextParts
<1>6. ASSUME NEW r \in Routers, setRouter(r) \/ setVaultRouter(r)
      PROVE  StakeTypeOK'
  <2>1. RegistryOK'
      BY <1>1, <1>6 DEF RegistryOK, HasAdapter, setRouter, setVaultRouter, registry
  <2>2. UNCHANGED <<stakeVars, moneyVars, stakeSettings, rate>>
      BY <1>6 DEF setRouter, setVaultRouter
  <2> QED BY <2>1, <2>2, Untouched, NextParts
<1> QED BY <1>2, <1>3, <1>4, <1>5, <1>6 DEF RegistrySteps, RouterMoves

LEMMA SettingsKeepTypes ==
    ASSUME StakeTypeOK, SettingSteps
    PROVE  StakeTypeOK'
<1>1. SettingsOK
    BY Parts
<1>2. SettingsOK'
  <2>1. ASSUME NEW r \in Routers, NEW tolerance \in Tolerances, setDustTolerance(r, tolerance)
        PROVE  SettingsOK'
      BY <1>1, <2>1, Inputs DEF SettingsOK, setDustTolerance
  <2>2. ASSUME NEW feeBps \in FeeChoices, setWithdrawalFee(feeBps) PROVE SettingsOK'
    <3>1. feeBps \in Nat /\ MAX_WITHDRAWAL_FEE_BPS \in Nat
        BY Inputs, DStakeAssumption, BpsAssumption
    <3> QED BY <1>1, <2>2, <3>1 DEF SettingsOK, setWithdrawalFee, FeeAllowed
  <2>3. ASSUME NEW threshold \in Thresholds, setExchangeThreshold(threshold) PROVE SettingsOK'
      BY <1>1, <2>3, Inputs DEF SettingsOK, setExchangeThreshold
  <2> QED BY <2>1, <2>2, <2>3 DEF SettingSteps
<1>3. UNCHANGED <<stakeVars, router, registry, moneyVars, rate>>
    BY DEF SettingSteps, setDustTolerance, setWithdrawalFee, setExchangeThreshold
<1> QED BY <1>2, <1>3, Untouched, NextParts

\* A sweep: part of the surplus becomes wrapped tokens of the vault.
LEMMA Swept ==
    ASSUME StakeTypeOK,
           NEW r \in Routers, NEW max \in Nat, sweepSurplus(r, max)
    PROVE  \E amount \in Nat :
              /\ defaultDepositVaultAsset[r] \in VaultAssets
              /\ amount <= surplus[r] /\ surplus' = Plus(surplus, r, - amount)
              /\ wrappedFor(defaultDepositVaultAsset[r], amount) \in Nat
              /\ vaultHolds' = Plus(vaultHolds, defaultDepositVaultAsset[r],
                                    wrappedFor(defaultDepositVaultAsset[r], amount))
              /\ UNCHANGED <<stakeVars, router, registry, rewardsEarned, stakeSettings, rate>>
<1> DEFINE amount == IF max = 0 \/ max > surplus[r] THEN surplus[r] ELSE max
           a == defaultDepositVaultAsset[r]
<1>1. amount \in Nat /\ amount <= surplus[r]
    BY Ranges
<1> HIDE DEF amount
<1>2. /\ a \in VaultAssets /\ surplus' = Plus(surplus, r, - amount)
      /\ vaultHolds' = Plus(vaultHolds, a, wrappedFor(a, amount))
      /\ UNCHANGED <<stakeVars, router, registry, rewardsEarned, stakeSettings, rate>>
    BY DEF sweepSurplus, HasAdapter, VaultReceives, amount
<1>3. wrappedFor(a, amount) \in Nat
    BY <1>1, <1>2, WrappedNat
<1> QED BY <1>1, <1>2, <1>3

\* A compounding.
LEMMA Compounded ==
    ASSUME StakeTypeOK,
           NEW amount \in Nat, compoundRewards(amount),
           NEW a, a = defaultDepositVaultAsset[dStakeRouter]
    PROVE  /\ amount >= exchangeThreshold
           /\ a \in VaultAssets /\ wrappedFor(a, amount) \in Nat
           /\ vaultHolds' = Plus(vaultHolds, a, wrappedFor(a, amount))
           /\ rewardsEarned' = 0
           /\ UNCHANGED <<stakeVars, router, registry, surplus, stakeSettings, rate>>
<1>1. a \in VaultAssets
    BY DEF compoundRewards, HasAdapter
<1>2. wrappedFor(a, amount) \in Nat
    BY <1>1, WrappedNat
<1> QED BY <1>1, <1>2 DEF compoundRewards, EnoughExchanged, VaultReceives

LEMMA RewardsKeepTypes ==
    ASSUME StakeTypeOK,
           SurplusSteps \/ RewardSteps \/ OutsideSteps
    PROVE  StakeTypeOK'
<1>1. ASSUME NEW r \in Routers, NEW max \in StakeAmounts \cup {0}, sweepSurplus(r, max)
      PROVE  StakeTypeOK'
  <2>1. max \in Nat
      BY Inputs
  <2>2. PICK amount \in Nat :
              /\ defaultDepositVaultAsset[r] \in VaultAssets
              /\ amount <= surplus[r] /\ surplus' = Plus(surplus, r, - amount)
              /\ wrappedFor(defaultDepositVaultAsset[r], amount) \in Nat
              /\ vaultHolds' = Plus(vaultHolds, defaultDepositVaultAsset[r],
                                    wrappedFor(defaultDepositVaultAsset[r], amount))
              /\ UNCHANGED <<stakeVars, router, registry, rewardsEarned, stakeSettings, rate>>
      BY <1>1, <2>1, Swept
  <2>3. vaultHolds' \in [VaultAssets -> Nat]
      BY <2>2, ReceivedType
  <2>4. surplus[r] + (- amount) \in Nat /\ - amount \in Int
      BY <2>2, Ranges
  <2>5. surplus' \in [Routers -> Nat]
      BY <2>2, <2>4, SurplusType
  <2>6. MoneyOK'
      BY <2>2, <2>3, <2>5 DEF MoneyOK, StakeTypeOK
  <2> QED BY <2>2, <2>6, Untouched, NextParts
<1>2. CASE RewardsAccrue
  <2>1. MoneyOK'
      BY <1>2, Parts DEF MoneyOK, RewardsAccrue
  <2> QED BY <1>2, <2>1, Untouched, NextParts DEF RewardsAccrue
<1>3. ASSUME NEW amount \in StakeAmounts, compoundRewards(amount) PROVE StakeTypeOK'
  <2> DEFINE a == defaultDepositVaultAsset[dStakeRouter]
  <2>1. amount \in Nat
      BY Inputs
  <2>2. /\ a \in VaultAssets /\ wrappedFor(a, amount) \in Nat
        /\ vaultHolds' = Plus(vaultHolds, a, wrappedFor(a, amount))
        /\ rewardsEarned' = 0
        /\ UNCHANGED <<stakeVars, router, registry, surplus, stakeSettings, rate>>
      BY <1>3, <2>1, Compounded
  <2>3. vaultHolds' \in [VaultAssets -> Nat]
      BY <2>2, ReceivedType
  <2>4. MoneyOK'
      BY <2>2, <2>3 DEF MoneyOK, StakeTypeOK
  <2> QED BY <2>2, <2>4, Untouched, NextParts
<1>4. ASSUME NEW a \in VaultAssets, NEW amount \in StakeAmounts, donateWrapped(a, amount)
      PROVE  StakeTypeOK'
  <2>1. amount \in Nat /\ vaultHolds' = Plus(vaultHolds, a, amount)
        /\ UNCHANGED <<stakeVars, router, registry, surplus, rewardsEarned, stakeSettings, rate>>
      BY <1>4, Inputs DEF donateWrapped, VaultReceives
  <2>2. vaultHolds' \in [VaultAssets -> Nat]
      BY <2>1, ReceivedType
  <2>3. MoneyOK'
      BY <2>1, <2>2 DEF MoneyOK, StakeTypeOK
  <2> QED BY <2>1, <2>3, Untouched, NextParts
<1>5. ASSUME NEW a \in VaultAssets, NEW newRate \in Rates, RateRises(a, newRate)
      PROVE  StakeTypeOK'
  <2>1. RateOK'
      BY <1>5, Parts DEF RateOK, RateRises
  <2> QED BY <1>5, <2>1, Untouched, NextParts DEF RateRises
<1> QED BY <1>1, <1>2, <1>3, <1>4, <1>5 DEF SurplusSteps, RewardSteps, OutsideSteps

LEMMA StakeTypesKept ==
    StakeTypeOK /\ [StakeNext]_dstakeVars => StakeTypeOK'
<1>1. SUFFICES ASSUME StakeTypeOK, [StakeNext]_dstakeVars
               PROVE  StakeTypeOK'
    OBVIOUS
<1>2. CASE StakerSteps
    BY <1>1, <1>2, StakersKeepTypes
<1>3. CASE ExchangerSteps
  <2>1. /\ vaultHolds' \in [VaultAssets -> Nat]
        /\ UNCHANGED <<stakeVars, router, registry, surplus, rewardsEarned, stakeSettings, rate>>
      BY <1>1, <1>3, Exchanged
  <2>2. MoneyOK'
      BY <1>1, <2>1 DEF MoneyOK, StakeTypeOK
  <2> QED BY <1>1, <2>1, <2>2, Untouched, NextParts
<1>4. CASE RegistrySteps \/ RouterMoves
    BY <1>1, <1>4, RegistryKeepsTypes
<1>5. CASE SettingSteps
    BY <1>1, <1>5, SettingsKeepTypes
<1>6. CASE SurplusSteps \/ RewardSteps \/ OutsideSteps
    BY <1>1, <1>6, RewardsKeepTypes
<1>7. CASE UNCHANGED dstakeVars
  <2>1. UNCHANGED <<stakeVars, router, registry, moneyVars, stakeSettings, rate>>
      BY <1>7 DEF dstakeVars
  <2> QED BY <1>1, <2>1, Untouched, NextParts
<1> QED BY <1>1, <1>2, <1>3, <1>4, <1>5, <1>6, <1>7 DEF StakeNext

LEMMA StakeTypesInitially ==
    StakeInit => StakeTypeOK
<1>1. SUFFICES ASSUME StakeInit PROVE StakeTypeOK
    OBVIOUS
<1>2. SharesOK
  <2>1. sharesOf = [s \in 1..NumStakers |-> 0] /\ totalShares = 0 /\ NumStakers \in Nat
      BY <1>1, DStakeAssumption DEF StakeInit, NothingStaked, Stakers
  <2> QED BY <2>1, SumOfZeros DEF SharesOK, Stakers
<1>3. RegistryOK
    BY <1>1 DEF StakeInit, NothingRegistered, RegistryOK, HasAdapter
<1>4. MoneyOK /\ RateOK
    BY <1>1 DEF StakeInit, NothingStaked, MoneyOK, RateOK
<1>5. SettingsOK
  <2>1. MAX_WITHDRAWAL_FEE_BPS \in Nat
      BY DStakeAssumption, BpsAssumption
  <2> QED BY <1>1, <2>1, Inputs DEF StakeInit, NothingStaked, SettingsOK
<1> QED BY <1>2, <1>3, <1>4, <1>5, Parts

\* Nothing leaves its range, and the shares add up: no path of deposits, payments,
\* exchanges, sweeps and migrations pays out more than there is.
THEOREM StakeTypeCorrect == StakeSpec => []StakeTypeOK
<1>1. StakeInit => StakeTypeOK
    BY StakeTypesInitially
<1>2. StakeTypeOK /\ [StakeNext]_dstakeVars => StakeTypeOK'
    BY StakeTypesKept
<1> QED BY <1>1, <1>2, PTL DEF StakeSpec

-----------------------------------------------------------------------------
(* Leaving *)

LEMMA PaysWhatIsAsked ==
    ASSUME StakeTypeOK, NEW assets \in Nat
    PROVE  netAssets(previewWithdraw(assets)) >= assets
<1> DEFINE f == withdrawalFeeBps_
           S == OneHundredPercentBps
           gross == supportedGross(assets, f)
           shares == previewWithdraw(assets)
           x == convertToAssets(shares)
           A == totalAssets + 1
           T == totalShares + 1
<1>1. S \in Nat \ {0} /\ f \in 0..(S - 1) /\ f \in 0..S
    BY Parameters
<1>2. gross \in Nat /\ gross - mulDiv(gross, f, S) = assets
    BY <1>1, GrossLeavesNet DEF supportedGross
<1>3. shares \in Nat /\ x \in Nat /\ A \in Nat \ {0} /\ T \in Nat \ {0}
  <2>1. shares \in Nat
      BY PreviewNat
  <2>2. totalAssets \in Nat /\ totalShares \in Nat /\ x \in Nat
      BY <2>1, SharesNat
  <2> QED BY <2>1, <2>2
<1>4. gross * T <= shares * A
    BY <1>2, SharesNat DEF previewWithdraw
<1>5. gross <= x
  <2> HIDE DEF gross, shares, A, T
  <2>1. gross <= mulDiv(shares, A, T)
      BY <1>2, <1>3, <1>4, MulDivAtLeast
  <2> QED BY <2>1 DEF convertToAssets, A, T
<1> HIDE DEF gross, x, f, S
<1>6. gross - mulDiv(gross, f, S) <= x - mulDiv(x, f, S)
    BY <1>1, <1>2, <1>3, <1>5, NetGrows
<1>7. netAssets(shares) = x - mulDiv(x, f, S)
    BY DEF netAssets, supportedNet, supportedFee, x, f, S
<1> QED BY <1>2, <1>6, <1>7

\* Whatever a share is worth, and whatever the fee, withdraw pays at least what it is
\* asked for.
THEOREM WithdrawPays == StakeSpec => []WithdrawPaysWhatIsAsked
<1>1. StakeTypeOK => WithdrawPaysWhatIsAsked
    BY PaysWhatIsAsked, Inputs DEF WithdrawPaysWhatIsAsked
<1> QED BY <1>1, StakeTypeCorrect, PTL

\* With nothing counted elsewhere, the value is the worth of the one asset.
LEMMA ValueOfOne ==
    ASSUME StakeTypeOK, NEW a \in VaultAssets, IsCounted(a),
           \A b \in VaultAssets : b # a /\ IsCounted(b) => vaultHolds[b] = 0
    PROVE  totalAssets = worth(a, vaultHolds[a])
<1> DEFINE N == NumVaultAssets
           f == [i \in 1..N |-> 0]
           g == Counted(vaultHolds)
<1>1. vaultHolds \in [VaultAssets -> Nat] /\ N \in Nat /\ a \in 1..N
    BY Parameters DEF StakeTypeOK, VaultAssets
<1>2. g \in [1..N -> Nat] /\ f \in [1..N -> Nat]
    BY <1>1, CountedType
<1>3. \A b \in VaultAssets : worth(b, 0) = 0
  <2>1. ASSUME NEW b \in VaultAssets PROVE worth(b, 0) = 0
    <3>1. rate[b] \in Nat \ {0} /\ RateUnit \in Nat \ {0}
        BY Parameters
    <3>2. 0 * rate[b] = 0 /\ 0 \div RateUnit = 0
        BY <3>1
    <3> QED BY <3>2 DEF worth, mulDiv
  <2> QED BY <2>1
<1>4. \A b \in (1..N) \ {a} : g[b] = f[b]
    BY <1>3 DEF Counted, VaultAssets
<1>5. g[a] = worth(a, vaultHolds[a]) /\ f[a] = 0
    BY <1>1 DEF Counted
<1>6. SumTo(f, N) = 0
    BY <1>1, SumOfZeros
<1> HIDE DEF f, g, N
<1>7. SumTo(g, N) = SumTo(f, N) + g[a] - f[a]
    BY <1>1, <1>2, <1>4, SumFollows
<1>8. worth(a, vaultHolds[a]) \in Nat
    BY <1>1, WorthNat
<1> QED BY <1>5, <1>6, <1>7, <1>8, TotalIsValue DEF valueOf, g, N

LEMMA SharesWithinValue ==
    ASSUME StakeTypeOK, NEW s \in Stakers
    PROVE  convertToAssets(sharesOf[s]) <= totalAssets
<1> DEFINE A == totalAssets + 1
           T == totalShares + 1
           n == sharesOf[s]
<1>1. n \in Nat /\ totalShares \in Nat /\ totalAssets \in Nat
    BY Ranges, SharesNat
<1>2. n <= totalShares
  <2>1. sharesOf \in [1..NumStakers -> Nat] /\ totalShares = SumTo(sharesOf, NumStakers)
        /\ s \in 1..NumStakers
      BY DEF StakeTypeOK, Stakers
  <2> QED BY <2>1, SumNat, Parameters
<1>3. A \in Nat \ {0} /\ T \in Nat \ {0} /\ n < T /\ n * A < T * A /\ T * A = A * T
  <2>1. A \in Nat \ {0} /\ T \in Nat \ {0} /\ n < T
      BY <1>1, <1>2
  <2> HIDE DEF A, T, n
  <2> QED BY <1>1, <2>1
<1>4. mulDiv(n, A, T) <= totalAssets
  <2> HIDE DEF n, T
  <2> QED BY <1>1, <1>3, MulDivAtMost
<1> QED BY <1>4 DEF convertToAssets

\* Shares to assets, the fee, and assets to wrapped tokens: the last is rounded up, and
\* with all value in the asset that is paid out it still asks for no more than there is.
THEOREM LeavingIsPossible == StakeSpec => []EveryoneCanLeave
<1>1. ASSUME StakeTypeOK, AllInDefault, NEW s \in Stakers
      PROVE  wrappedToPay(depositAsset, netAssets(sharesOf[s])) <= vaultHolds[depositAsset]
  <2> DEFINE a == depositAsset
             h == vaultHolds[a]
             net == netAssets(sharesOf[s])
             wrapped == wrappedToPay(a, net)
             r == rate[a]
  <2>1. IsCounted(a) /\ \A b \in VaultAssets : b # a /\ IsCounted(b) => vaultHolds[b] = 0
      BY <1>1 DEF AllInDefault
  <2>2. a \in VaultAssets
      BY <2>1 DEF IsCounted, HasAdapter
  <2>3. totalAssets = worth(a, h)
      BY <1>1, <2>1, <2>2, ValueOfOne
  <2>4. h \in Nat /\ r \in Nat \ {0} /\ RateUnit \in Nat \ {0} /\ sharesOf[s] \in Nat
      BY <1>1, <2>2, Ranges, Parameters
  <2>5. net \in Nat /\ net <= convertToAssets(sharesOf[s])
      BY <1>1, <2>4, NetAssetsBound
  <2>6. convertToAssets(sharesOf[s]) <= totalAssets /\ totalAssets \in Nat
        /\ convertToAssets(sharesOf[s]) \in Nat
      BY <1>1, <2>4, SharesWithinValue, SharesNat
  <2>7. worth(a, h) * RateUnit <= h * r
      BY <2>4, MulDivBounds DEF worth
  <2>8. wrapped \in Nat /\ wrapped * r < net * RateUnit + r
      BY <2>4, <2>5, MulDivUpBounds DEF wrappedToPay
  <2> HIDE DEF net, wrapped, r, h, a
  <2>9. net <= worth(a, h) /\ worth(a, h) \in Nat
      BY <2>3, <2>5, <2>6
  <2>10. net * RateUnit <= worth(a, h) * RateUnit
      BY <2>4, <2>5, <2>9
  <2>11. wrapped * r < (h + 1) * r
    <3>1. (h + 1) * r = h * r + r /\ h * r \in Nat /\ net * RateUnit \in Nat
          /\ worth(a, h) * RateUnit \in Nat /\ wrapped * r \in Nat
        BY <2>4, <2>5, <2>8, <2>9, ProductNat
    <3> QED BY <2>4, <2>7, <2>8, <2>10, <3>1
  <2>12. wrapped < h + 1
      BY <2>4, <2>8, <2>11
  <2> QED BY <2>4, <2>8, <2>12 DEF wrapped, h, a, net
<1>2. StakeTypeOK => EveryoneCanLeave
    BY <1>1 DEF EveryoneCanLeave
<1> QED BY <1>2, StakeTypeCorrect, PTL

-----------------------------------------------------------------------------
(* What a step may do *)

\* A step of stakers is a deposit, a payment or a transfer.
LEMMA StakerStep ==
    ASSUME StakeTypeOK, StakerSteps
    PROVE  \/ \E s \in Stakers, assets, shares \in Nat :
                 /\ TakeStake(s, assets, shares)
                 /\ shares * (totalAssets + 1) <= assets * (totalShares + 1)
           \/ \E s \in Stakers, shares \in Nat : PayStake(s, shares)
           \/ UNCHANGED <<totalShares, router, registry, moneyVars, stakeSettings, rate>>
<1>1. PICK s \in Stakers, amount \in StakeAmounts :
         \/ depositStake(s, amount)  \/ mintStake(s, amount)
         \/ withdrawStake(s, amount) \/ redeemStake(s, amount)
         \/ \E to \in Stakers : transferStake(s, to, amount)
    BY DEF StakerSteps
<1>2. amount \in Nat
    BY Inputs
<1>3. /\ convertToShares(amount) \in Nat /\ convertToAssetsUp(amount) \in Nat
      /\ convertToShares(amount) * (totalAssets + 1) <= amount * (totalShares + 1)
      /\ amount * (totalAssets + 1) <= convertToAssetsUp(amount) * (totalShares + 1)
    BY <1>2, SharesNat
<1>4. CASE depositStake(s, amount)
    BY <1>2, <1>3, <1>4 DEF depositStake
<1>5. CASE mintStake(s, amount)
    BY <1>2, <1>3, <1>5 DEF mintStake
<1>6. CASE withdrawStake(s, amount)
    BY <1>2, <1>6, PreviewNat DEF withdrawStake
<1>7. CASE redeemStake(s, amount)
    BY <1>2, <1>7 DEF redeemStake
<1>8. CASE \E to \in Stakers : transferStake(s, to, amount)
    BY <1>8 DEF transferStake
<1> QED BY <1>1, <1>4, <1>5, <1>6, <1>7, <1>8

\* What the steps of the others leave alone.
LEMMA QuietRegistry ==
    ASSUME RegistrySteps \/ RouterMoves
    PROVE  UNCHANGED <<stakeVars, surplus, rewardsEarned, stakeSettings, rate>>
<1>1. ASSUME NEW r, NEW a, NEW adapter,
             addAdapter(r, a, adapter) \/ removeAdapter(r, a) \/ setDefaultDepositVaultAsset(r, a)
             \/ setRouter(r) \/ setVaultRouter(r)
      PROVE  UNCHANGED <<stakeVars, surplus, rewardsEarned, stakeSettings, rate>>
    BY <1>1 DEF addAdapter, removeAdapter, setDefaultDepositVaultAsset, setRouter,
                setVaultRouter, moneyVars
<1>2. ASSUME NEW a, NEW amount, rescueToken(a, amount)
      PROVE  UNCHANGED <<stakeVars, surplus, rewardsEarned, stakeSettings, rate>>
    BY <1>2 DEF rescueToken
<1> QED BY <1>1, <1>2 DEF RegistrySteps, RouterMoves

LEMMA QuietSettings ==
    ASSUME SettingSteps
    PROVE  UNCHANGED <<stakeVars, router, registry, moneyVars, rate>>
BY DEF SettingSteps, setDustTolerance, setWithdrawalFee, setExchangeThreshold

LEMMA QuietRewards ==
    ASSUME RewardSteps
    PROVE  UNCHANGED <<stakeVars, router, registry, surplus, stakeSettings, rate>>
BY DEF RewardSteps, RewardsAccrue, compoundRewards

LEMMA QuietOutside ==
    ASSUME OutsideSteps
    PROVE  UNCHANGED <<stakeVars, router, registry, surplus, rewardsEarned, stakeSettings>>
BY DEF OutsideSteps, donateWrapped, RateRises, moneyVars

LEMMA QuietSurplus ==
    ASSUME SurplusSteps
    PROVE  UNCHANGED <<stakeVars, router, registry, rewardsEarned, stakeSettings, rate>>
BY DEF SurplusSteps, sweepSurplus

\* The steps by what they may do to shares, surplus and rewards.
LEMMA OtherSteps ==
    ASSUME StakeTypeOK, [StakeNext]_dstakeVars
    PROVE  /\ StakerSteps \/ UNCHANGED stakeVars
           /\ StakerSteps \/ SurplusSteps \/ UNCHANGED surplus
           /\ RewardSteps \/ UNCHANGED rewardsEarned
<1>1. CASE StakerSteps
  <2>1. ASSUME NEW s \in Stakers, NEW assets \in Nat, NEW shares \in Nat,
               TakeStake(s, assets, shares)
        PROVE  UNCHANGED rewardsEarned
      BY <2>1 DEF TakeStake
  <2>2. ASSUME NEW s \in Stakers, NEW shares \in Nat, PayStake(s, shares)
        PROVE  UNCHANGED rewardsEarned
      BY <2>2 DEF PayStake
  <2>3. UNCHANGED moneyVars => UNCHANGED rewardsEarned
      BY DEF moneyVars
  <2> QED BY <1>1, <2>1, <2>2, <2>3, StakerStep
<1>2. CASE ExchangerSteps
    BY <1>2, Exchanged
<1>3. CASE RegistrySteps \/ RouterMoves
    BY <1>3, QuietRegistry
<1>4. CASE SettingSteps
    BY <1>4, QuietSettings DEF moneyVars
<1>5. CASE RewardSteps
    BY <1>5, QuietRewards
<1>6. CASE OutsideSteps
    BY <1>6, QuietOutside
<1>7. CASE SurplusSteps
    BY <1>7, QuietSurplus
<1>8. CASE UNCHANGED dstakeVars
    BY <1>8 DEF dstakeVars, moneyVars
<1> QED BY <1>1, <1>2, <1>3, <1>4, <1>5, <1>6, <1>7, <1>8 DEF StakeNext

\* SurplusComesBack, of one step, and of one router.
SurplusRule ==
    \A r \in Routers :
          /\ surplus'[r] > surplus[r] =>
                (surplus'[r] - surplus[r]) * RateUnit < rate[defaultDepositVaultAsset[r]]
          /\ surplus'[r] < surplus[r] =>
                \E a \in VaultAssets :
                   (vaultHolds'[a] - vaultHolds[a] + 1) * rate[a]
                       > (surplus[r] - surplus'[r]) * RateUnit
SurplusLeft(r) ==
    surplus'[r] > surplus[r] =>
        (surplus'[r] - surplus[r]) * RateUnit < rate[defaultDepositVaultAsset[r]]
SurplusSpent(r) ==
    surplus'[r] < surplus[r] =>
        \E a \in VaultAssets :
           (vaultHolds'[a] - vaultHolds[a] + 1) * rate[a] > (surplus[r] - surplus'[r]) * RateUnit

LEMMA SurplusStep ==
    ASSUME StakeTypeOK, [StakeNext]_dstakeVars, NEW r \in Routers
    PROVE  SurplusLeft(r) /\ SurplusSpent(r)
<1>1. surplus[r] \in Nat /\ surplus \in [Routers -> Nat] /\ vaultHolds \in [VaultAssets -> Nat]
    BY DEF StakeTypeOK
<1>2. CASE surplus'[r] = surplus[r]
    BY <1>1, <1>2 DEF SurplusLeft, SurplusSpent
<1>3. ASSUME NEW s \in Stakers, NEW shares \in Nat, PayStake(s, shares)
      PROVE  SurplusLeft(r) /\ SurplusSpent(r)
  <2> DEFINE net == netAssets(shares)
             a == depositAsset
             over == worth(a, wrappedToPay(a, net)) - net
  <2>1. router \in Routers /\ a \in VaultAssets /\ net \in Nat /\ over \in Nat
        /\ surplus' = Plus(surplus, router, over)
      BY <1>3, Paid
  <2>2. over * RateUnit < rate[a]
      BY <2>1, WrappedNat
  <2> HIDE DEF over, net
  <2>3. /\ r = router => surplus'[r] = surplus[r] + over
        /\ r # router => surplus'[r] = surplus[r]
      BY <1>1, <2>1 DEF Plus
  <2>4. CASE r = router
    <3>1. surplus'[r] - surplus[r] = over /\ ~ (surplus'[r] < surplus[r])
        BY <1>1, <2>1, <2>3, <2>4
    <3> QED BY <2>2, <2>4, <3>1 DEF SurplusLeft, SurplusSpent, depositAsset
  <2> QED BY <1>2, <2>3, <2>4
<1>4. ASSUME NEW q \in Routers, NEW max \in Nat, sweepSurplus(q, max)
      PROVE  SurplusLeft(r) /\ SurplusSpent(r)
  <2> DEFINE a == defaultDepositVaultAsset[q]
  <2>1. PICK amount \in Nat :
              /\ a \in VaultAssets
              /\ amount <= surplus[q] /\ surplus' = Plus(surplus, q, - amount)
              /\ wrappedFor(a, amount) \in Nat
              /\ vaultHolds' = Plus(vaultHolds, a, wrappedFor(a, amount))
      BY <1>4, Swept
  <2>2. CASE r # q
    <3>1. surplus'[r] = surplus[r]
        BY <1>1, <2>1, <2>2 DEF Plus
    <3> QED BY <1>2, <3>1
  <2>3. CASE r = q
    <3>1. surplus'[r] = surplus[r] - amount
        BY <1>1, <2>1, <2>3 DEF Plus
    <3>2. vaultHolds'[a] - vaultHolds[a] = wrappedFor(a, amount)
        BY <1>1, <2>1 DEF Plus
    <3>3. amount * RateUnit < (wrappedFor(a, amount) + 1) * rate[a]
        BY <2>1, WrappedNat
    <3>4. surplus[r] - surplus'[r] = amount /\ ~ (surplus'[r] > surplus[r])
        BY <1>1, <2>1, <3>1
    <3>5. (wrappedFor(a, amount) + 1) * rate[a] \in Int /\ amount * RateUnit \in Int
      <4>1. rate[a] \in Nat /\ RateUnit \in Nat
          BY <2>1, Parameters
      <4> QED BY <2>1, <4>1
    <3>6. (vaultHolds'[a] - vaultHolds[a] + 1) * rate[a] > (surplus[r] - surplus'[r]) * RateUnit
        BY <3>2, <3>3, <3>4, <3>5
    <3> QED BY <2>1, <3>4, <3>6 DEF SurplusLeft, SurplusSpent
  <2> QED BY <2>2, <2>3
<1>5. CASE StakerSteps
  <2>1. ASSUME NEW s \in Stakers, NEW assets \in Nat, NEW shares \in Nat,
               TakeStake(s, assets, shares)
        PROVE  surplus' = surplus
      BY <2>1 DEF TakeStake
  <2>2. UNCHANGED moneyVars => surplus' = surplus
      BY DEF moneyVars
  <2> QED BY <1>2, <1>3, <1>5, <2>1, <2>2, StakerStep
<1>6. CASE SurplusSteps
  <2>1. PICK q \in Routers, max \in StakeAmounts \cup {0} : sweepSurplus(q, max)
      BY <1>6 DEF SurplusSteps
  <2>2. max \in Nat
      BY Inputs
  <2> QED BY <1>4, <2>1, <2>2
<1> QED BY <1>2, <1>5, <1>6, OtherSteps

\* A withdrawal leaves less than one wrapped token with the router; a sweep turns what
\* it takes into wrapped tokens of the vault.
THEOREM SurplusIsKept == StakeSpec => SurplusComesBack
<1>1. StakeTypeOK /\ [StakeNext]_dstakeVars => [SurplusRule]_dstakeVars
    BY SurplusStep DEF SurplusRule, SurplusLeft, SurplusSpent
<1>2. StakeSpec => [][SurplusRule]_dstakeVars
    BY <1>1, StakeTypeCorrect, PTL DEF StakeSpec
<1> QED BY <1>2, PTL DEF SurplusComesBack, SurplusRule

\* RewardsArePaidFor, of one step.
RewardsRule ==
    rewardsEarned' < rewardsEarned =>
          LET a == defaultDepositVaultAsset[dStakeRouter]
          IN  /\ (vaultHolds'[a] - vaultHolds[a] + 1) * rate[a] > exchangeThreshold * RateUnit
              /\ IsCounted(a) =>
                    (totalAssets' - totalAssets + 1) * RateUnit + rate[a]
                        > exchangeThreshold * RateUnit

LEMMA CompoundingPays ==
    ASSUME StakeTypeOK, NEW amount \in Nat, compoundRewards(amount)
    PROVE  RewardsRule
<1> DEFINE a == defaultDepositVaultAsset[dStakeRouter]
           w == wrappedFor(a, amount)
           r == rate[a]
<1>1. /\ amount >= exchangeThreshold
      /\ a \in VaultAssets /\ w \in Nat /\ vaultHolds' = Plus(vaultHolds, a, w)
      /\ UNCHANGED <<registry, rate>>
    BY Compounded
<1>2. vaultHolds \in [VaultAssets -> Nat] /\ exchangeThreshold \in Nat
    BY DEF StakeTypeOK
<1>3. r \in Nat \ {0} /\ RateUnit \in Nat \ {0}
    BY <1>1, Parameters
<1>4. amount * RateUnit < (w + 1) * r
    BY <1>1, WrappedNat
<1>5. vaultHolds'[a] - vaultHolds[a] = w
    BY <1>1, <1>2 DEF Plus
<1>6. totalAssets = valueOf(vaultHolds) /\ totalAssets' = valueOf(vaultHolds')
    BY <1>1, TotalIsValue, NextTotalIsValue
<1>7. totalAssets \in Nat /\ totalAssets' \in Nat
    BY <1>1, <1>2, <1>6, CountedType, ValueGrows
<1>8. IsCounted(a) => totalAssets' >= totalAssets + worth(a, w)
    BY <1>1, <1>2, <1>6, ValueGrows
<1>9. worth(a, w) \in Nat /\ w * r < worth(a, w) * RateUnit + RateUnit
    BY <1>1, <1>3, MulDivBounds DEF worth
<1> DEFINE v == worth(a, w)
           gain == totalAssets' - totalAssets
<1> HIDE DEF a, w, r, v
<1>10. exchangeThreshold * RateUnit <= amount * RateUnit /\ amount * RateUnit \in Nat
       /\ exchangeThreshold * RateUnit \in Nat
    BY <1>1, <1>2, <1>3, ProductNat
<1>11. exchangeThreshold * RateUnit < (w + 1) * r
  <2>1. (w + 1) * r \in Nat
      BY <1>1, <1>3, ProductNat
  <2> QED BY <1>4, <1>10, <2>1
<1>12. ASSUME IsCounted(a) PROVE (gain + 1) * RateUnit + r > exchangeThreshold * RateUnit
  <2>1. gain \in Int /\ v <= gain /\ v \in Nat /\ w * r < v * RateUnit + RateUnit
      BY <1>7, <1>8, <1>9, <1>12 DEF v
  <2> HIDE DEF gain
  <2>2. (w + 1) * r = w * r + r /\ (gain + 1) * RateUnit = gain * RateUnit + RateUnit
      BY <1>1, <1>3, <2>1
  <2>3. v * RateUnit <= gain * RateUnit /\ v * RateUnit \in Nat /\ gain * RateUnit \in Int
        /\ w * r \in Nat
      BY <1>1, <1>3, <2>1, ProductNat
  <2> QED BY <1>3, <1>10, <1>11, <2>1, <2>2, <2>3
<1> QED BY <1>5, <1>11, <1>12 DEF RewardsRule, a, r

\* Whoever takes the rewards brings wrapped tokens worth the threshold, and the holders
\* gain that, if the vault counts them.
THEOREM RewardsArePaid == StakeSpec => RewardsArePaidFor
<1>1. ASSUME StakeTypeOK, [StakeNext]_dstakeVars PROVE RewardsRule
  <2>1. CASE UNCHANGED rewardsEarned
    <3>1. rewardsEarned \in Nat
        BY <1>1 DEF StakeTypeOK
    <3> QED BY <2>1, <3>1 DEF RewardsRule
  <2>2. CASE RewardsAccrue
    <3>1. rewardsEarned \in Nat /\ rewardsEarned' = rewardsEarned + 1
        BY <1>1, <2>2 DEF StakeTypeOK, RewardsAccrue
    <3> QED BY <3>1 DEF RewardsRule
  <2>3. ASSUME NEW amount \in StakeAmounts, compoundRewards(amount) PROVE RewardsRule
      BY <1>1, <2>3, Inputs, CompoundingPays
  <2> QED BY <1>1, <2>1, <2>2, <2>3, OtherSteps DEF RewardSteps
<1>2. StakeTypeOK /\ [StakeNext]_dstakeVars => [RewardsRule]_dstakeVars
    BY <1>1
<1>3. StakeSpec => [][RewardsRule]_dstakeVars
    BY <1>2, StakeTypeCorrect, PTL DEF StakeSpec
<1> QED BY <1>3, PTL DEF RewardsArePaidFor, RewardsRule

-----------------------------------------------------------------------------
(* The share of the others *)

SharesRule ==
       /\ totalShares' > totalShares /\ IsCounted(depositAsset) =>
             (totalShares' - totalShares) * (totalAssets + 1)
                <= (totalAssets' - totalAssets + OneWrapped) * (totalShares + 1)
       /\ totalShares' < totalShares =>
             ((totalAssets - totalAssets' - OneWrapped) * OneHundredPercentBps
                    - (OneHundredPercentBps - 1)) * (totalShares + 1)
                <= (totalShares - totalShares') * (totalAssets + 1)
                    * (OneHundredPercentBps - withdrawalFeeBps_)

LEMMA DepositBrings ==
    ASSUME StakeTypeOK, NEW s \in Stakers, NEW assets \in Nat, NEW shares \in Nat,
           TakeStake(s, assets, shares),
           shares * (totalAssets + 1) <= assets * (totalShares + 1)
    PROVE  SharesRule
<1> DEFINE a == depositAsset
           w == wrappedFor(a, assets)
           gain == totalAssets' - totalAssets
           T == totalShares + 1
<1>1. /\ a \in VaultAssets /\ w \in Nat /\ vaultHolds' = Plus(vaultHolds, a, w)
      /\ totalShares' = totalShares + shares /\ UNCHANGED <<registry, rate>>
    BY Deposited
<1>2. vaultHolds \in [VaultAssets -> Nat]
    BY DEF StakeTypeOK
<1>3. totalAssets \in Nat /\ totalShares \in Nat
    BY SharesNat
<1>4. totalAssets = valueOf(vaultHolds) /\ totalAssets' = valueOf(vaultHolds')
    BY <1>1, TotalIsValue, NextTotalIsValue
<1>5. totalAssets' \in Nat /\ (IsCounted(a) => totalAssets' >= totalAssets + worth(a, w))
    BY <1>1, <1>2, <1>4, CountedType, ValueGrows
<1>6. assets <= worth(a, w) + worth(a, 1) + 1 /\ worth(a, w) \in Nat /\ worth(a, 1) \in Nat
    BY <1>1, WrappedNat, WorthNat
<1>7. ASSUME IsCounted(a) PROVE shares * (totalAssets + 1) <= (gain + OneWrapped) * T
  <2>1. OneWrapped \in Nat /\ gain \in Int /\ T \in Nat
      BY <1>3, <1>5, <1>6 DEF OneWrapped
  <2>2. assets <= gain + OneWrapped
      BY <1>3, <1>5, <1>6, <1>7 DEF OneWrapped
  <2> HIDE DEF gain, T
  <2>3. assets * T <= (gain + OneWrapped) * T
      BY <2>1, <2>2
  <2>4. shares * (totalAssets + 1) <= assets * T
      BY DEF T
  <2>5. shares * (totalAssets + 1) \in Int /\ assets * T \in Int
        /\ (gain + OneWrapped) * T \in Int
      BY <1>3, <2>1
  <2> QED BY <2>3, <2>4, <2>5
<1>8. totalShares' - totalShares = shares /\ ~ (totalShares' < totalShares)
    BY <1>1, <1>3
<1> QED BY <1>7, <1>8 DEF SharesRule

\* A loss d of at most the net amount n, after a fee f of S, of what the shares pay.
LEMMA LossThroughFee ==
    ASSUME NEW d \in Int, NEW n \in Nat, NEW x \in Nat, NEW k \in Nat,
           NEW S \in Nat \ {0}, NEW f \in 0..(S - 1), NEW A \in Nat, NEW T \in Nat,
           d <= n, n * S <= x * (S - f) + (S - 1), x * T <= k * A
    PROVE  (d * S - (S - 1)) * T <= k * A * (S - f)
<1> DEFINE g == S - f
<1>1. g \in Nat
    OBVIOUS
<1>2. d * S <= n * S /\ d * S \in Int /\ n * S \in Int
    OBVIOUS
<1> HIDE DEF g
<1>3. n * S <= x * g + (S - 1) /\ x * g \in Nat /\ k * A \in Nat /\ x * T \in Nat
    BY <1>1, ProductNat DEF g
<1>4. d * S - (S - 1) <= x * g
    BY <1>2, <1>3
<1>5. (d * S - (S - 1)) * T <= (x * g) * T
  <2> DEFINE e == d * S - (S - 1)
             y == x * g
  <2>1. e \in Int /\ y \in Int /\ e <= y
      BY <1>2, <1>3, <1>4
  <2> HIDE DEF e, y
  <2>2. e * T <= y * T
      BY <2>1
  <2> QED BY <2>2 DEF e, y
<1>6. (x * g) * T = (x * T) * g
    BY <1>1
<1>7. (x * T) * g <= (k * A) * g
  <2> DEFINE y == x * T
             z == k * A
  <2>1. y \in Nat /\ z \in Nat /\ y <= z
      BY <1>3
  <2> HIDE DEF y, z
  <2>2. y * g <= z * g
      BY <1>1, <2>1
  <2> QED BY <2>2 DEF y, z
<1>8. (d * S - (S - 1)) * T \in Int /\ (x * T) * g \in Int /\ (k * A) * g \in Int
    BY <1>1, <1>2, <1>3
<1> QED BY <1>5, <1>6, <1>7, <1>8 DEF g

LEMMA WithdrawalTakes ==
    ASSUME StakeTypeOK, NEW s \in Stakers, NEW shares \in Nat, PayStake(s, shares)
    PROVE  SharesRule
<1> DEFINE a == depositAsset
           net == netAssets(shares)
           w == wrappedToPay(a, net)
           x == convertToAssets(shares)
           lost == totalAssets - totalAssets' - OneWrapped
<1>1. /\ a \in VaultAssets /\ net \in Nat /\ w \in Nat /\ w <= vaultHolds[a]
      /\ vaultHolds' = Plus(vaultHolds, a, - w)
      /\ totalShares' = totalShares - shares /\ UNCHANGED <<registry, rate>>
    BY Paid
<1>2. vaultHolds \in [VaultAssets -> Nat]
    BY DEF StakeTypeOK
<1>3. totalAssets \in Nat /\ totalShares \in Nat /\ x \in Nat
      /\ x * (totalShares + 1) <= shares * (totalAssets + 1)
    BY SharesNat
<1>4. totalAssets = valueOf(vaultHolds) /\ totalAssets' = valueOf(vaultHolds')
    BY <1>1, TotalIsValue, NextTotalIsValue
<1>5. totalAssets' \in Nat /\ totalAssets' >= totalAssets - worth(a, w) - 1
    BY <1>1, <1>2, <1>4, CountedType, ValueFalls
<1>6. worth(a, w) <= net + worth(a, 1) /\ worth(a, w) \in Nat /\ worth(a, 1) \in Nat
    BY <1>1, WrappedNat, WorthNat
<1>7. lost \in Int /\ lost <= net
  <2> HIDE DEF net, w
  <2> QED BY <1>1, <1>3, <1>5, <1>6 DEF OneWrapped
<1>8. net * OneHundredPercentBps
        <= x * (OneHundredPercentBps - withdrawalFeeBps_) + (OneHundredPercentBps - 1)
    BY NetAssetsBound
<1>9. /\ OneHundredPercentBps \in Nat \ {0}
      /\ withdrawalFeeBps_ \in 0..(OneHundredPercentBps - 1)
      /\ totalAssets + 1 \in Nat /\ totalShares + 1 \in Nat
    BY <1>3, Parameters
<1> HIDE DEF lost, net, x
<1>10. (lost * OneHundredPercentBps - (OneHundredPercentBps - 1)) * (totalShares + 1)
         <= shares * (totalAssets + 1) * (OneHundredPercentBps - withdrawalFeeBps_)
    BY <1>1, <1>3, <1>7, <1>8, <1>9, LossThroughFee
<1>11. totalShares - totalShares' = shares /\ ~ (totalShares' > totalShares)
    BY <1>1, <1>3
<1> QED BY <1>10, <1>11 DEF SharesRule, lost

\* What backs the shares of the others: deposits bring what their shares stand for, and
\* withdrawals take no more than theirs less the fee, but for one wrapped token.
THEOREM SharesAreBacked == StakeSpec => StakersKeepTheirShare
<1>1. ASSUME StakeTypeOK, [StakeNext]_dstakeVars PROVE SharesRule
  <2>1. ASSUME totalShares' = totalShares PROVE SharesRule
    <3>1. totalShares \in Nat
        BY <1>1, SharesNat
    <3> QED BY <2>1, <3>1 DEF SharesRule
  <2>2. CASE StakerSteps
      BY <1>1, <2>1, <2>2, StakerStep, DepositBrings, WithdrawalTakes
  <2>3. CASE UNCHANGED stakeVars
      BY <2>1, <2>3 DEF stakeVars
  <2> QED BY <1>1, <2>2, <2>3, OtherSteps
<1>2. StakeTypeOK /\ [StakeNext]_dstakeVars => [SharesRule]_dstakeVars
    BY <1>1
<1>3. StakeSpec => [][SharesRule]_dstakeVars
    BY <1>2, StakeTypeCorrect, PTL DEF StakeSpec
<1> QED BY <1>3, PTL DEF StakersKeepTheirShare, SharesRule

-----------------------------------------------------------------------------
(* The value behind them *)

DustRule ==
    Synchronized /\ vaultRouter # NoRouter /\ UNCHANGED <<totalShares, rate, registry>> =>
          totalAssets' >= totalAssets - Dust

\* Two holdings change in an exchange: what leaves lowers the value by its worth and one,
\* what arrives raises it by its own.
LEMMA ExchangeLosesDust ==
    ASSUME StakeTypeOK, Synchronized, vaultRouter # NoRouter, ExchangerSteps
    PROVE  totalAssets' >= totalAssets - Dust
<1>1. PICK r \in Routers, from \in VaultAssets, to \in VaultAssets, amount \in StakeAmounts,
           min \in MinAmounts :
         exchangeAssetsUsingAdapters(r, from, to, amount, min)
         \/ exchangeAssets(r, from, to, amount, min)
    BY DEF ExchangerSteps
<1> DEFINE valueIn == worth(from, amount)
           given == wrappedFor(to, valueIn)
           v == totalAssets
<1>2. amount \in Nat /\ vaultHolds \in [VaultAssets -> Nat]
    BY Inputs DEF StakeTypeOK
<1>3. valueIn \in Nat
    BY <1>2, WorthNat
<1>4. given \in Nat /\ worth(to, given) <= valueIn
    BY <1>3, WrappedNat
<1>5. worth(to, given) \in Nat
    BY <1>4, WorthNat
<1>6. v = valueOf(vaultHolds) /\ v \in Nat
    BY TotalIsValue, SharesNat
<1>7. totalAssets' = valueOf(vaultHolds')
    BY <1>1, NextTotalIsValue DEF exchangeAssetsUsingAdapters, exchangeAssets
<1>8. HasAdapter(r, from) /\ HasAdapter(r, to) /\ r = vaultRouter
    BY <1>1 DEF exchangeAssetsUsingAdapters, exchangeAssets, CanSend
<1>9. IsCounted(from) /\ IsCounted(to)
    BY <1>8 DEF Synchronized, IsCounted
<1>10. dustTolerance[r] \in Nat /\ Dust = dustTolerance[r] + 1
    BY <1>8, Ranges DEF Dust
<1>11. CASE exchangeAssetsUsingAdapters(r, from, to, amount, min)
  <2> DEFINE mid == Plus(vaultHolds, from, - amount)
  <2>1. /\ amount <= vaultHolds[from] /\ vaultHolds' = Plus(mid, to, given)
        /\ worth(to, given) >= valueIn - dustTolerance[r]
      BY <1>11 DEF exchangeAssetsUsingAdapters, CanSend, Parity
  <2>2. mid \in [VaultAssets -> Nat] /\ valueOf(mid) >= v - valueIn - 1
      BY <1>2, <1>6, <2>1, ValueFalls
  <2> HIDE DEF mid, given, valueIn, v
  <2>3. valueOf(mid) \in Nat
      BY <2>2, CountedType
  <2>4. valueOf(vaultHolds') >= valueOf(mid) + worth(to, given)
      BY <1>4, <1>9, <2>1, <2>2, ValueGrows
  <2>5. valueOf(vaultHolds') \in Nat
      BY <1>4, <2>1, <2>2, CountedType, ValueGrows
  <2> QED BY <1>3, <1>5, <1>6, <1>7, <1>10, <2>1, <2>2, <2>3, <2>4, <2>5 DEF v
<1>12. CASE exchangeAssets(r, from, to, amount, min)
  <2> DEFINE mid == Plus(vaultHolds, from, amount)
  <2>1. given <= mid[to] /\ vaultHolds' = Plus(mid, to, - given)
      BY <1>12 DEF exchangeAssets, CanSend
  <2>2. mid \in [VaultAssets -> Nat] /\ valueOf(mid) >= v + valueIn
      BY <1>2, <1>6, <1>9, ValueGrows
  <2> HIDE DEF mid, given, valueIn, v
  <2>3. valueOf(mid) \in Nat
      BY <2>2, CountedType
  <2>4. /\ valueOf(vaultHolds') >= valueOf(mid) - worth(to, given) - 1
        /\ vaultHolds' \in [VaultAssets -> Nat]
      BY <1>4, <2>1, <2>2, ValueFalls
  <2>5. valueOf(vaultHolds') \in Nat
      BY <2>4, CountedType
  <2> QED BY <1>3, <1>4, <1>5, <1>6, <1>7, <1>10, <2>2, <2>3, <2>4, <2>5 DEF v
<1> QED BY <1>1, <1>11, <1>12

\* A payment burns shares: for none nothing is paid.
LEMMA PaymentBurns ==
    ASSUME StakeTypeOK, NEW s \in Stakers, NEW shares \in Nat, PayStake(s, shares)
    PROVE  totalShares' # totalShares
<1> DEFINE x == convertToAssets(shares)
           net == netAssets(shares)
           w == wrappedToPay(depositAsset, net)
           T == totalShares + 1
           r == rate[depositAsset]
<1>1. w # 0 /\ w \in Nat /\ net \in Nat /\ depositAsset \in VaultAssets
      /\ totalShares' = totalShares - shares
    BY Paid
<1>2. totalShares \in Nat /\ totalAssets \in Nat /\ x \in Nat
      /\ x * T <= shares * (totalAssets + 1)
    BY SharesNat
<1>3. net <= x
    BY NetAssetsBound
<1>4. r \in Nat \ {0} /\ RateUnit \in Nat \ {0}
    BY <1>1, Parameters
<1>5. w * r < net * RateUnit + r
    BY <1>1, <1>4, MulDivUpBounds DEF wrappedToPay
<1>6. ASSUME shares = 0 PROVE FALSE
  <2> HIDE DEF x, net, w, r
  <2>1. shares * (totalAssets + 1) = 0
      BY <1>2, <1>6
  <2>2. x = 0
    <3>1. T \in Nat \ {0} /\ x * T <= 0
        BY <1>2, <2>1
    <3> HIDE DEF T
    <3>2. x # 0 => x * T >= T
        BY <1>2, <3>1
    <3> QED BY <1>2, <3>1, <3>2
  <2>3. net = 0
      BY <1>1, <1>2, <1>3, <2>2
  <2>4. net * RateUnit = 0
      BY <1>4, <2>3
  <2>5. w * r >= r
      BY <1>1, <1>4
  <2> QED BY <1>1, <1>4, <1>5, <2>4, <2>5
<1> QED BY <1>1, <1>2, <1>6

LEMMA DustStep ==
    ASSUME StakeTypeOK, [StakeNext]_dstakeVars,
           Synchronized, vaultRouter # NoRouter, UNCHANGED <<totalShares, rate, registry>>
    PROVE  totalAssets' >= totalAssets - Dust
<1>1. /\ totalAssets = valueOf(vaultHolds) /\ totalAssets' = valueOf(vaultHolds')
      /\ totalAssets \in Nat /\ vaultHolds \in [VaultAssets -> Nat]
    BY TotalIsValue, NextTotalIsValue, SharesNat DEF StakeTypeOK
<1>2. Dust \in Nat
    BY Ranges DEF Dust
<1>3. ASSUME vaultHolds' = vaultHolds PROVE totalAssets' >= totalAssets - Dust
    BY <1>1, <1>2, <1>3
<1>4. ASSUME NEW a \in VaultAssets, NEW n \in Nat, vaultHolds' = Plus(vaultHolds, a, n)
      PROVE  totalAssets' >= totalAssets - Dust
  <2>1. totalAssets' >= totalAssets /\ totalAssets' \in Nat
      BY <1>1, <1>4, ValueGrows, CountedType
  <2> QED BY <1>1, <1>2, <2>1
<1>5. CASE StakerSteps
  <2>1. ASSUME NEW s \in Stakers, NEW assets \in Nat, NEW shares \in Nat,
               TakeStake(s, assets, shares)
        PROVE  totalAssets' >= totalAssets - Dust
      BY <1>4, <2>1, Deposited
  <2>2. ASSUME NEW s \in Stakers, NEW shares \in Nat, PayStake(s, shares)
        PROVE  FALSE
      BY <2>2, PaymentBurns
  <2>3. UNCHANGED moneyVars => vaultHolds' = vaultHolds
      BY DEF moneyVars
  <2> QED BY <1>3, <1>5, <2>1, <2>2, <2>3, StakerStep
<1>6. CASE ExchangerSteps
    BY <1>6, ExchangeLosesDust
<1>7. CASE RegistrySteps
  <2>1. ASSUME NEW a \in VaultAssets, NEW amount \in StakeAmounts, rescueToken(a, amount)
        PROVE  totalAssets' >= totalAssets - Dust
    <3>1. amount \in Nat /\ amount <= vaultHolds[a] /\ ~ IsCounted(a)
          /\ vaultHolds' = Plus(vaultHolds, a, - amount)
        BY <2>1, Inputs DEF rescueToken, Rescuable, IsCounted
    <3>2. totalAssets' = totalAssets
        BY <1>1, <3>1, ValueFalls
    <3> QED BY <1>1, <1>2, <3>2
  <2>2. ASSUME NEW r, NEW a, NEW adapter,
               addAdapter(r, a, adapter) \/ removeAdapter(r, a) \/ setDefaultDepositVaultAsset(r, a)
        PROVE  vaultHolds' = vaultHolds
      BY <2>2 DEF addAdapter, removeAdapter, setDefaultDepositVaultAsset, moneyVars
  <2> QED BY <1>3, <1>7, <2>1, <2>2 DEF RegistrySteps
<1>8. CASE RouterMoves \/ SettingSteps \/ UNCHANGED dstakeVars
  <2>1. vaultHolds' = vaultHolds
      BY <1>8, QuietSettings DEF RouterMoves, setRouter, setVaultRouter, dstakeVars, moneyVars
  <2> QED BY <1>3, <2>1
<1>9. CASE SurplusSteps
  <2>1. PICK q \in Routers, max \in StakeAmounts \cup {0} : sweepSurplus(q, max)
      BY <1>9 DEF SurplusSteps
  <2>2. max \in Nat
      BY Inputs
  <2>3. \E a \in VaultAssets, n \in Nat : vaultHolds' = Plus(vaultHolds, a, n)
      BY <2>1, <2>2, Swept
  <2> QED BY <1>4, <2>3
<1>10. CASE RewardSteps
  <2>1. ASSUME NEW amount \in StakeAmounts, compoundRewards(amount)
        PROVE  totalAssets' >= totalAssets - Dust
      BY <1>4, <2>1, Inputs, Compounded
  <2>2. RewardsAccrue => vaultHolds' = vaultHolds
      BY DEF RewardsAccrue
  <2> QED BY <1>3, <1>10, <2>1, <2>2 DEF RewardSteps
<1>11. CASE OutsideSteps
  <2>1. ASSUME NEW a \in VaultAssets, NEW amount \in StakeAmounts, donateWrapped(a, amount)
        PROVE  totalAssets' >= totalAssets - Dust
      BY <1>4, <2>1, Inputs DEF donateWrapped, VaultReceives
  <2>2. ASSUME NEW a, NEW newRate, RateRises(a, newRate) PROVE vaultHolds' = vaultHolds
      BY <2>2 DEF RateRises, moneyVars
  <2> QED BY <1>3, <1>11, <2>1, <2>2 DEF OutsideSteps
<1> QED BY <1>5, <1>6, <1>7, <1>8, <1>9, <1>10, <1>11 DEF StakeNext

\* While shares, rates and registry stay and router and vault agree, the value behind the
\* shares falls by the tolerance of one exchange and one unit at most.
THEOREM ValueIsKept == StakeSpec => ValueFallsByDustOnly
<1>1. StakeTypeOK /\ [StakeNext]_dstakeVars => [DustRule]_dstakeVars
    BY DustStep DEF DustRule
<1>2. StakeSpec => [][DustRule]_dstakeVars
    BY <1>1, StakeTypeCorrect, PTL DEF StakeSpec
<1> QED BY <1>2, PTL DEF ValueFallsByDustOnly, DustRule
=============================================================================
