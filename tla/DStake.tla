------------------------------- MODULE DStake -------------------------------
(***************************************************************************)
(* contracts/vaults/dstake: the ERC-4626 token, the router it delegates    *)
(* to, the collateral vault that holds the wrapped lending tokens, their   *)
(* adapters, and the reward manager.                                       *)
(*                                                                         *)
(* Every value goes through three roundings: dStable into shares of the    *)
(* token, the fee, and dStable into wrapped tokens, whose rate only rises. *)
(* Each call is one transaction. The pool below the wrapped tokens may     *)
(* refuse any call: then the transaction reverts, but for the one place    *)
(* where the router catches the failure. Callers have the tokens they      *)
(* spend; where the reward tokens go is left out.                          *)
(***************************************************************************)
EXTENDS WithdrawalFees

CONSTANTS
    NumStakers,
    NumVaultAssets,
    Routers, NoRouter,             \* deployed routers; the zero address
    Adapters, NoAdapter,
    adapterAsset,                  \* the immutable vaultAsset of each adapter
    RateUnit, Rates,               \* one ray, and the rates of the wrapped tokens
    MAX_WITHDRAWAL_FEE_BPS,
    dStakeRouter,                  \* the immutable router of the reward manager
    StakeAmounts, MinAmounts, FeeChoices, Tolerances, Thresholds,   \* what callers pass
    MaxShares, MaxHeld, MaxSurplus, MaxEarned   \* bounds

Stakers == 1..NumStakers
VaultAssets == 1..NumVaultAssets
NoAsset == 0

ASSUME DStakeAssumption ==
    /\ NumStakers \in Nat \ {0} /\ NumVaultAssets \in Nat
    /\ NoRouter \notin Routers /\ dStakeRouter \in Routers
    /\ NoAdapter \notin Adapters /\ adapterAsset \in [Adapters -> VaultAssets]
    /\ RateUnit \in Nat \ {0} /\ Rates \subseteq Nat \ 0..(RateUnit - 1)
    /\ MAX_WITHDRAWAL_FEE_BPS \in 0..(OneHundredPercentBps - 1)
    /\ StakeAmounts \subseteq Nat /\ MinAmounts \subseteq Nat /\ FeeChoices \subseteq Nat
    /\ Tolerances \subseteq Nat /\ Thresholds \subseteq Nat
    /\ MaxShares \in Nat /\ MaxHeld \in Nat /\ MaxSurplus \in Nat /\ MaxEarned \in Nat

VARIABLES
    sharesOf, totalShares, withdrawalFeeBps_, router,              \* DStakeToken
    vaultRouter, supportedAssets, vaultHolds,                      \* DStakeCollateralVault
    vaultAssetToAdapter, defaultDepositVaultAsset, dustTolerance,  \* each router
    surplus,                                                       \* its dStable
    rate,                                                          \* StaticATokenLM
    exchangeThreshold, rewardsEarned                               \* reward manager

stakeVars == <<sharesOf, totalShares>>
registry == <<vaultRouter, supportedAssets, vaultAssetToAdapter, defaultDepositVaultAsset>>
moneyVars == <<vaultHolds, surplus, rewardsEarned>>
stakeSettings == <<withdrawalFeeBps_, dustTolerance, exchangeThreshold>>
dstakeVars == <<stakeVars, router, registry, moneyVars, stakeSettings, rate>>

-----------------------------------------------------------------------------
(* The wrapped tokens: previewRedeem, previewDeposit and previewWithdraw of *)
(* StaticATokenLM.                                                         *)

worth(a, wrapped) == mulDiv(wrapped, rate[a], RateUnit)
wrappedFor(a, assets) == mulDiv(assets, RateUnit, rate[a])
wrappedToPayPlusOne(a, assets) == wrappedFor(a, assets) + 1
wrappedToPay(a, assets) == mulDivUp(assets, RateUnit, rate[a])

(* The registry *)

HasAdapter(r, a) == a \in VaultAssets /\ vaultAssetToAdapter[r][a] # NoAdapter

\* What the vault counts: supported assets for which its router has an adapter.
\* Before it has a router it supports none.
IsCounted(a) ==
    vaultRouter # NoRouter /\ a \in supportedAssets /\ HasAdapter(vaultRouter, a)
totalAssets ==
    SumTo([a \in VaultAssets |-> IF IsCounted(a) THEN worth(a, vaultHolds[a]) ELSE 0],
          NumVaultAssets)

\* sendAsset of the vault: only its router, only supported assets.
CanSend(r, a, amount, holds) ==
    r = vaultRouter /\ a \in supportedAssets /\ amount <= holds[a]

\* ERC4626 with one virtual share and asset.
sharesOneToOne(assets) == assets
convertToShares(assets) == mulDiv(assets, totalShares + 1, totalAssets + 1)
convertToSharesUp(assets) == mulDivUp(assets, totalShares + 1, totalAssets + 1)
convertToAssets(shares) == mulDiv(shares, totalAssets + 1, totalShares + 1)
convertToAssetsUp(shares) == mulDivUp(shares, totalAssets + 1, totalShares + 1)

netAssets(shares) == supportedNet(convertToAssets(shares), withdrawalFeeBps_)
sharesIgnoringFee(assets) == convertToSharesUp(assets)
previewWithdraw(assets) == convertToSharesUp(supportedGross(assets, withdrawalFeeBps_))

Plus(f, x, n) == [f EXCEPT ![x] = @ + n]

\* The vault receives wrapped tokens, as far as the bound goes.
VaultReceives(a, wrapped) ==
    /\ wrapped # 0 /\ vaultHolds[a] + wrapped <= MaxHeld
    /\ vaultHolds' = Plus(vaultHolds, a, wrapped)

-----------------------------------------------------------------------------
\* After deployment nothing is registered, and nothing staked.
NothingRegistered ==
    /\ router = NoRouter /\ vaultRouter = NoRouter
    /\ supportedAssets = {}
    /\ vaultAssetToAdapter = [r \in Routers |-> [a \in VaultAssets |-> NoAdapter]]
    /\ defaultDepositVaultAsset = [r \in Routers |-> NoAsset]

NothingStaked ==
    /\ sharesOf = [s \in Stakers |-> 0] /\ totalShares = 0
    /\ withdrawalFeeBps_ = 0
    /\ vaultHolds = [a \in VaultAssets |-> 0]
    /\ dustTolerance = [r \in Routers |-> 1]
    /\ surplus = [r \in Routers |-> 0]
    /\ rate \in [VaultAssets -> Rates]
    /\ exchangeThreshold \in Thresholds \ {0}
    /\ rewardsEarned = 0

StakeInit == NothingRegistered /\ NothingStaked

(* DStakeToken *)

\* _deposit and router.deposit: the wrapped tokens are minted to the vault, its
\* router or not. The router checks that they are as many as previewed, and they
\* always are.
TakeStake(receiver, assets, shares) ==
    LET a == defaultDepositVaultAsset[router]
    IN  /\ router # NoRouter
        /\ shares # 0 /\ totalShares + shares <= MaxShares
        /\ HasAdapter(router, a)
        /\ VaultReceives(a, wrappedFor(a, assets))
        /\ sharesOf' = Plus(sharesOf, receiver, shares)
        /\ totalShares' = totalShares + shares
        /\ UNCHANGED <<router, registry, surplus, rewardsEarned, stakeSettings, rate>>

depositStake(receiver, assets) == TakeStake(receiver, assets, convertToShares(assets))
mintStake(receiver, shares) == TakeStake(receiver, convertToAssetsUp(shares), shares)

\* _withdraw and router.withdraw. What the wrapped tokens bring beyond the net
\* amount goes back into wrapped tokens; when that fails, because the pool
\* refuses or it is less than one, it stays with the router.
PayStake(owner, shares) ==
    LET net == netAssets(shares)
        a == defaultDepositVaultAsset[router]
        wrapped == wrappedToPay(a, net)
        over == worth(a, wrapped) - net
    IN  /\ router # NoRouter
        /\ shares <= sharesOf[owner]
        /\ HasAdapter(router, a)
        /\ wrapped # 0
        /\ CanSend(router, a, wrapped, vaultHolds)
        /\ \E recycled \in {0, wrappedFor(a, over)} :
             /\ vaultHolds' = Plus(vaultHolds, a, recycled - wrapped)
             /\ surplus' = Plus(surplus, router, IF recycled = 0 THEN over ELSE 0)
        /\ surplus'[router] <= MaxSurplus
        /\ sharesOf' = Plus(sharesOf, owner, - shares)
        /\ totalShares' = totalShares - shares
        /\ UNCHANGED <<router, registry, rewardsEarned, stakeSettings, rate>>

withdrawStake(owner, assets) == PayStake(owner, previewWithdraw(assets))
redeemStake(owner, shares) == PayStake(owner, shares)

transferStake(from, to, shares) ==
    /\ from # to /\ shares <= sharesOf[from]
    /\ sharesOf' = Plus(Plus(sharesOf, from, - shares), to, shares)
    /\ UNCHANGED <<totalShares, router, registry, moneyVars, stakeSettings, rate>>

FeeUnchecked(feeBps) == TRUE
FeeAllowed(feeBps) == feeBps <= MAX_WITHDRAWAL_FEE_BPS

setWithdrawalFee(feeBps) ==
    /\ FeeAllowed(feeBps)
    /\ withdrawalFeeBps_' = feeBps
    /\ UNCHANGED <<stakeVars, router, registry, moneyVars, dustTolerance, exchangeThreshold, rate>>

setRouter(r) ==
    /\ router' = r
    /\ UNCHANGED <<stakeVars, registry, moneyVars, stakeSettings, rate>>

(* DStakeCollateralVault *)

setVaultRouter(r) ==
    /\ vaultRouter' = r
    /\ UNCHANGED <<stakeVars, router, supportedAssets, vaultAssetToAdapter,
                   defaultDepositVaultAsset, moneyVars, stakeSettings, rate>>

RescuableUnlessDefault(a) == \A r \in Routers : a # defaultDepositVaultAsset[r]
Rescuable(a) == a \notin supportedAssets

rescueToken(a, amount) ==
    /\ Rescuable(a)
    /\ amount <= vaultHolds[a]
    /\ vaultHolds' = Plus(vaultHolds, a, - amount)
    /\ UNCHANGED <<stakeVars, router, registry, surplus, rewardsEarned, stakeSettings, rate>>

\* Anybody may send wrapped tokens to the vault.
donateWrapped(a, amount) ==
    /\ VaultReceives(a, amount)
    /\ UNCHANGED <<stakeVars, router, registry, surplus, rewardsEarned, stakeSettings, rate>>

(* DStakeRouterDLend: rebalancing by the holder of COLLATERAL_EXCHANGER_ROLE *)

Parity(r, valueIn, valueOut) ==
    dustTolerance[r] <= valueIn /\ valueOut >= valueIn - dustTolerance[r]

exchangeAssetsUsingAdapters(r, from, to, amount, minTo) ==
    LET valueIn == worth(from, amount)
        minted == wrappedFor(to, valueIn)
    IN  /\ HasAdapter(r, from) /\ HasAdapter(r, to)
        /\ CanSend(r, from, amount, vaultHolds)
        /\ valueIn # 0 /\ minted # 0
        /\ minted >= minTo
        /\ Parity(r, valueIn, worth(to, minted))
        /\ vaultHolds[to] + minted <= MaxHeld
        /\ vaultHolds' = Plus(Plus(vaultHolds, from, - amount), to, minted)
        /\ UNCHANGED <<stakeVars, router, registry, surplus, rewardsEarned, stakeSettings, rate>>

\* A solver brings wrapped tokens of one asset for those of another.
exchangeAssets(r, from, to, amount, minTo) ==
    LET valueIn == worth(from, amount)
        given == wrappedFor(to, valueIn)
        holds == Plus(vaultHolds, from, amount)
    IN  /\ amount # 0
        /\ HasAdapter(r, from) /\ HasAdapter(r, to)
        /\ valueIn # 0
        /\ given >= minTo
        /\ CanSend(r, to, given, holds)
        /\ vaultHolds[from] + amount <= MaxHeld
        /\ vaultHolds' = Plus(holds, to, - given)
        /\ UNCHANGED <<stakeVars, router, registry, surplus, rewardsEarned, stakeSettings, rate>>

(* and by its admin *)

\* The vault learns of the asset if this router is the vault's; a refusal of the
\* vault is caught.
addAdapter(r, a, adapter) ==
    /\ adapterAsset[adapter] = a
    /\ vaultAssetToAdapter[r][a] \in {NoAdapter, adapter}
    /\ vaultAssetToAdapter' = [vaultAssetToAdapter EXCEPT ![r][a] = adapter]
    /\ supportedAssets' = IF r = vaultRouter THEN supportedAssets \cup {a} ELSE supportedAssets
    /\ UNCHANGED <<stakeVars, router, vaultRouter, defaultDepositVaultAsset, moneyVars,
                   stakeSettings, rate>>

removeAdapter(r, a) ==
    /\ HasAdapter(r, a)
    /\ r = vaultRouter /\ a \in supportedAssets
    /\ vaultAssetToAdapter' = [vaultAssetToAdapter EXCEPT ![r][a] = NoAdapter]
    /\ supportedAssets' = supportedAssets \ {a}
    /\ UNCHANGED <<stakeVars, router, vaultRouter, defaultDepositVaultAsset, moneyVars,
                   stakeSettings, rate>>

setDefaultDepositVaultAsset(r, a) ==
    /\ HasAdapter(r, a)
    /\ defaultDepositVaultAsset' = [defaultDepositVaultAsset EXCEPT ![r] = a]
    /\ UNCHANGED <<stakeVars, router, vaultRouter, supportedAssets, vaultAssetToAdapter,
                   moneyVars, stakeSettings, rate>>

setDustTolerance(r, tolerance) ==
    /\ dustTolerance' = [dustTolerance EXCEPT ![r] = tolerance]
    /\ UNCHANGED <<stakeVars, router, registry, moneyVars, withdrawalFeeBps_,
                   exchangeThreshold, rate>>

sweepSurplus(r, maxAmount) ==
    LET amount == IF maxAmount = 0 \/ maxAmount > surplus[r] THEN surplus[r] ELSE maxAmount
        a == defaultDepositVaultAsset[r]
    IN  /\ surplus[r] # 0
        /\ HasAdapter(r, a)
        /\ VaultReceives(a, wrappedFor(a, amount))
        /\ surplus' = Plus(surplus, r, - amount)
        /\ UNCHANGED <<stakeVars, router, registry, rewardsEarned, stakeSettings, rate>>

(* DStakeRewardManagerDLend *)

AnyExchange(amount) == TRUE
EnoughExchanged(amount) == amount >= exchangeThreshold

\* The caller's dStable is deposited first, through the router the manager was
\* deployed with; then all rewards are claimed, less the fee for the caller.
compoundRewards(amount) ==
    LET a == defaultDepositVaultAsset[dStakeRouter]
    IN  /\ EnoughExchanged(amount)
        /\ HasAdapter(dStakeRouter, a)
        /\ VaultReceives(a, wrappedFor(a, amount))
        /\ rewardsEarned' = 0
        /\ UNCHANGED <<stakeVars, router, registry, surplus, stakeSettings, rate>>

setExchangeThreshold(newExchangeThreshold) ==
    /\ newExchangeThreshold # 0
    /\ exchangeThreshold' = newExchangeThreshold
    /\ UNCHANGED <<stakeVars, router, registry, moneyVars, withdrawalFeeBps_, dustTolerance, rate>>

(* The lending pool: rates rise and rewards accrue. *)

RateRises(a, newRate) ==
    /\ newRate > rate[a]
    /\ rate' = [rate EXCEPT ![a] = newRate]
    /\ UNCHANGED <<stakeVars, router, registry, moneyVars, stakeSettings>>

RewardsAccrue ==
    /\ rewardsEarned < MaxEarned
    /\ rewardsEarned' = rewardsEarned + 1
    /\ UNCHANGED <<stakeVars, router, registry, vaultHolds, surplus, stakeSettings, rate>>
-----------------------------------------------------------------------------
StakerSteps ==
    \E s \in Stakers, amount \in StakeAmounts :
       \/ depositStake(s, amount)  \/ mintStake(s, amount)
       \/ withdrawStake(s, amount) \/ redeemStake(s, amount)
       \/ \E to \in Stakers : transferStake(s, to, amount)

ExchangerSteps ==
    \E r \in Routers, from, to \in VaultAssets, amount \in StakeAmounts, min \in MinAmounts :
       exchangeAssetsUsingAdapters(r, from, to, amount, min)
       \/ exchangeAssets(r, from, to, amount, min)

RegistrySteps ==
    \/ \E r \in Routers, a \in VaultAssets :
          \/ \E adapter \in Adapters : addAdapter(r, a, adapter)
          \/ removeAdapter(r, a)
          \/ setDefaultDepositVaultAsset(r, a)
    \/ \E a \in VaultAssets, amount \in StakeAmounts : rescueToken(a, amount)

RouterMoves == \E r \in Routers : setRouter(r) \/ setVaultRouter(r)

SettingSteps ==
    \/ \E r \in Routers, tolerance \in Tolerances : setDustTolerance(r, tolerance)
    \/ \E feeBps \in FeeChoices : setWithdrawalFee(feeBps)
    \/ \E threshold \in Thresholds : setExchangeThreshold(threshold)

SurplusSteps == \E r \in Routers, amount \in StakeAmounts \cup {0} : sweepSurplus(r, amount)

RewardSteps == RewardsAccrue \/ \E amount \in StakeAmounts : compoundRewards(amount)

OutsideSteps ==
    \/ \E a \in VaultAssets, amount \in StakeAmounts : donateWrapped(a, amount)
    \/ \E a \in VaultAssets, newRate \in Rates : RateRises(a, newRate)

StakeNext ==
    \/ StakerSteps  \/ ExchangerSteps \/ RegistrySteps \/ RouterMoves
    \/ SettingSteps \/ SurplusSteps   \/ RewardSteps   \/ OutsideSteps

StakeSpec == StakeInit /\ [][StakeNext]_dstakeVars

-----------------------------------------------------------------------------
(* Properties *)

\* Nothing leaves its range, the shares add up, the fee stays below its maximum,
\* and no router has an adapter of another asset: no path pays out more wrapped
\* tokens or surplus than there are.
StakeTypeOK ==
    /\ sharesOf \in [Stakers -> Nat] /\ totalShares = SumTo(sharesOf, NumStakers)
    /\ withdrawalFeeBps_ \in 0..MAX_WITHDRAWAL_FEE_BPS
    /\ router \in Routers \cup {NoRouter} /\ vaultRouter \in Routers \cup {NoRouter}
    /\ supportedAssets \subseteq VaultAssets
    /\ vaultHolds \in [VaultAssets -> Nat]
    /\ vaultAssetToAdapter \in [Routers -> [VaultAssets -> Adapters \cup {NoAdapter}]]
    /\ \A r \in Routers, a \in VaultAssets :
          HasAdapter(r, a) => adapterAsset[vaultAssetToAdapter[r][a]] = a
    /\ defaultDepositVaultAsset \in [Routers -> VaultAssets \cup {NoAsset}]
    /\ dustTolerance \in [Routers -> Nat] /\ surplus \in [Routers -> Nat]
    /\ rate \in [VaultAssets -> Rates]
    /\ exchangeThreshold \in Nat \ {0} /\ rewardsEarned \in Nat

\* The asset the token's router deposits into, and what one wrapped token of it is
\* worth, rounded up: the vault pays no finer than that.
depositAsset == defaultDepositVaultAsset[router]
OneWrapped == worth(depositAsset, 1) + 1

\* What backs the shares of the others: who stakes brings at least what his new
\* shares stand for, provided the vault counts the asset it becomes; who leaves
\* takes at most what his shares stand for less the fee. Both but for one wrapped
\* token.
StakersKeepTheirShare ==
    [][/\ totalShares' > totalShares /\ IsCounted(depositAsset) =>
             (totalShares' - totalShares) * (totalAssets + 1)
                <= (totalAssets' - totalAssets + OneWrapped) * (totalShares + 1)
       /\ totalShares' < totalShares =>
             ((totalAssets - totalAssets' - OneWrapped) * OneHundredPercentBps
                    - (OneHundredPercentBps - 1)) * (totalShares + 1)
                <= (totalShares - totalShares') * (totalAssets + 1)
                    * (OneHundredPercentBps - withdrawalFeeBps_)]_dstakeVars

\* Every asset the vault's router has an adapter for is one the vault supports.
Synchronized ==
    vaultRouter # NoRouter =>
        \A a \in VaultAssets : HasAdapter(vaultRouter, a) => a \in supportedAssets

Dust == dustTolerance[vaultRouter] + 1

\* Router and vault agreeing, and as long as shares, rates and registry stay, the
\* value behind the shares falls by no more than the tolerance of an exchange and
\* one unit of rounding: not by a sweep, a compounding, a rescue or a setting.
ValueFallsByDustOnly ==
    [][Synchronized /\ vaultRouter # NoRouter /\ UNCHANGED <<totalShares, rate, registry>> =>
          totalAssets' >= totalAssets - Dust]_dstakeVars

\* dstake-design.md, invariant 5: exchanges maintain value parity within the dust
\* tolerance, whether or not router and vault agree on the assets.
ExchangesKeepValue ==
    [][ExchangerSteps => totalAssets' >= totalAssets - Dust]_dstakeVars

\* The deposit asset carries the whole value.
AllInDefault ==
    /\ router # NoRouter /\ router = vaultRouter
    /\ IsCounted(depositAsset)
    /\ \A a \in VaultAssets : a # depositAsset /\ IsCounted(a) => vaultHolds[a] = 0

\* Then every holder can leave with all his shares: three roundings, each against
\* the one before, never ask for more wrapped tokens than the vault has.
EveryoneCanLeave ==
    AllInDefault =>
        \A s \in Stakers :
           LET net == netAssets(sharesOf[s])
           IN  net # 0 => wrappedToPay(depositAsset, net) <= vaultHolds[depositAsset]

\* withdraw(assets) pays at least assets after the fee, whatever the price of a
\* share: the burnt shares are found from the gross amount by rounding up, and the
\* payment from the burnt shares by rounding down twice.
WithdrawPaysWhatIsAsked ==
    \A assets \in StakeAmounts : netAssets(previewWithdraw(assets)) >= assets

\* A withdrawal leaves less than one wrapped token's worth with the router, and
\* what leaves the router comes back to the vault.
SurplusComesBack ==
    [][\A r \in Routers :
          /\ surplus'[r] > surplus[r] =>
                (surplus'[r] - surplus[r]) * RateUnit < rate[defaultDepositVaultAsset[r]]
          /\ surplus'[r] < surplus[r] =>
                \E a \in VaultAssets :
                   (vaultHolds'[a] - vaultHolds[a] + 1) * rate[a]
                       > (surplus[r] - surplus'[r]) * RateUnit]_dstakeVars

\* Rewards leave only for wrapped tokens worth the threshold, and the holders gain
\* that, but for two roundings, if the vault still counts the asset of the router
\* the reward manager was deployed with.
RewardsArePaidFor ==
    [][rewardsEarned' < rewardsEarned =>
          LET a == defaultDepositVaultAsset[dStakeRouter]
          IN  /\ (vaultHolds'[a] - vaultHolds[a] + 1) * rate[a] > exchangeThreshold * RateUnit
              /\ IsCounted(a) =>
                    (totalAssets' - totalAssets + 1) * RateUnit + rate[a]
                        > exchangeThreshold * RateUnit]_dstakeVars
=============================================================================
