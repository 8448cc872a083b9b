# Verification of the dTRINITY contracts and their deployment

TLA+ models of the contracts in `src/contracts` and of the TypeScript that deploys,
migrates and hands them over (`src/deploy`, `src/typescript`,
`src/.shared/lib/roles`, `src/.shared/scripts/roles`), TLC configurations that
check them on small instances, and TLAPS proofs of what matters most for every
instance. The repository is a Hardhat monorepo: some fifty Solidity contracts of
its own, `contracts/dlend`, a vendored fork of Aave v3, and 97 deployment scripts.

The contracts run one transaction at a time, and a transaction that fails leaves
no trace. What makes them hard is not parallelism but

* **order**: any account may call any function at any time, between any two
  calls prices, listings, fees and switches may change, and several contracts
  keep counters about the same money;
* **rounding**: every conversion between a token and the base currency is
  rounded down, and calls chain several of them;
* **callbacks**: flash loans, ERC-721 receivers and swap routers run foreign
  code in the middle of a call;
* **partial knowledge**: a contract acts on a valuation, an allowance or a
  registry that was right a moment ago.

The scripts are the opposite: a process, a chain that lags behind it, a Safe whose
owners sign when they like, and an operator with other tools act side by side. Here
it is

* **unmined transactions**: a script that does not wait reads a state in which what
  it sent has not happened;
* **partial failure**: a call reverts, times out or loses its answer, an exception
  is caught or ends the run, the process is killed, and the script starts again
  from its first line;
* **order**: batches for the Safe are executed in any order, or never;
* **memory**: a script recorded as done is never run again, whatever it did.

The models keep all of this and drop what does not matter to it (events, names,
signatures, gas). In the contracts, one action is one external function with
everything it calls.
A `require` is a conjunct: a reverting call is a step that is not enabled. A
callback splits its function into two actions.

## 1. Inventory

### dSTABLE, the stablecoin (`contracts/dstable`)

| Part | State | Operations | Correct when |
|---|---|---|---|
| `CollateralVault`, `CollateralHolderVault`, `OracleAware` | supported collaterals, token balances, oracle | deposit, withdrawTo, exchangeCollateral, exchangeMaxCollateral, allow, disallow, setOracle | nothing leaves the vault but against equal value; its valuation never rounds up |
| `ERC20StablecoinUpgradeable` | balances, supply, pause | mint, burn, transfer, pause, flash mint | supply is the sum of balances, during flash loans too |
| `AmoManager`, `AmoVault` | allocation per vault, total, active flags | allocate, deallocate, collateral to and from venues, profits, enable, disable, setCollateralVault | the counters follow the flows; principal is never paid out as profit |
| `IssuerV2` | pause switches | issue, issueUsingExcessCollateral, increaseAmoSupply, pauses, migrations | no dStable is issued without backing |
| `RedeemerV2` | pause switches, fees and overrides | redeem, redeemAsProtocol, fee setters, pauses | no one takes out more than he burns; fees stay within the maximum |
| `AmoManagerV2`, `AmoDebtToken` | wallets allowlist, tolerance, peg guard; receipt token with allowlists | increase and decrease supply, borrowTo, repayFrom, repayWithPermit | debt tokens stay in the vault and match what venues hold |
| `Issuer`, `Redeemer`, `RedeemerWithFees` | as the V2 contracts without switches | | first versions, superseded |
| `NativeMintingGateway` | none between calls | depositAndMint, redeemToNative, rescue | pays exactly what its call produced |

They meet in one place: `circulatingDstable = totalSupply - totalAmoSupply` must
not outgrow the vault's `totalValue`. The token writes the first number, the AMO
manager the second, the vault, the oracle and the listing the third.

### Oracles (`contracts/oracle_aggregator`)

`OracleAggregator` (asset to wrapper), the wrappers (staleness, thresholds,
two-leg compositions, rate providers, hard peg) and the feed adapters
(composition, decimals). State: feed configuration; the environment is the feeds
with their ages. Correct when a price that is called alive is no older than the
limits of all its legs, and a threshold only ever caps. Hard: two clocks, two
limits, and an age that is passed up through adapters.

### dSTAKE, the staked stablecoin (`contracts/vaults/dstake`)

`DStakeToken` (ERC-4626 shares, withdrawal fee), `DStakeRouterDLend` (adapters,
conversions, exchanges, surplus), `DStakeCollateralVault` (the assets held),
`WrappedDLendConversionAdapter`, `DStakeRewardManagerDLend` on `RewardClaimable`.
Correct when no sequence of deposits, withdrawals and exchanges lowers the value
of a share beyond the tolerated dust. Hard: assets are counted through a registry
of adapters, the surplus of a conversion is handled in a `try`, rewards are
compounded by outsiders.

### dLOOP, leveraged vaults (`contracts/vaults/dloop`)

`DLoopCoreBase`, `DLoopCoreLogic`, `DLoopQuoter` (shares over a leveraged
position in a lending pool, with rebalancing open to everybody for a subsidy) and
the periphery (`Depositor`, `Redeemer`, `IncreaseLeverage`, `DecreaseLeverage`
bases: flash loan, swap, call of the core, repayment). Correct when deposits and
redemptions keep the leverage, rebalancing moves it towards the target and costs
holders no more than the subsidy, and the periphery keeps nothing and owes
nothing.

### dPOOL, LP vaults (`contracts/vaults/dpool`)

`DPoolVaultLP`, `DPoolVaultCurveLP` (ERC-4626 over LP tokens, withdrawal fee) and
`DPoolCurvePeriphery`. Correct when the fee stays with the remaining holders and
what a preview quotes is what a call does.

### Others

* `ERC20VestingNFT` (`contracts/vaults/vesting`): dSTAKE locked behind NFTs that
  vest. State: positions, total, caps, id counter. Correct when the contract
  always holds what it owes, a position is settled once, and a matured NFT no
  longer moves. Hard: `_safeMint` calls the receiver back half way through.
* `StaticATokenLM` (`contracts/vaults/atoken_wrapper`): a wrapper of lending
  tokens with reward indices per holder, forked from Aave.
* `WithdrawalFeeMath`, `SupportsWithdrawalFee`, `Compare`, `Rescuable`,
  `SwappableVault` (`contracts/common`): helpers of the vaults.
* `OdosSwapUtils`, `PendleSwapUtils`: stateless calls of external routers.
* `dlend`: vendored. `scripts`, `mocks`, `testing`, `test` and the rest of `.shared`:
  queries, test doubles and developer tools, read for what they say about the rest.

### Deployment and role tooling

| Part | State | Operations | Correct when |
|---|---|---|---|
| `deploy/01` to `14` | roles, owners, feeds, registries of the chain; `.migrations.json` | deploy, initialize, set feeds and oracles, list reserves, configure vaults | running the scripts again finishes what a failure left; what is recorded is done |
| `deploy/04`, `access_control.ts` | roles and owners | grant to governance, revoke, renounce, transfer | no contract is ever without an admin |
| `deploy/15` to `19`, `governance.ts` | the same, of a live system; batches for the Safe | try or queue a call, verify and flip oracles, replace redeemers, pause | assets stay priced and redeemable in between |
| `.shared/lib/roles`, `.shared/scripts/roles` | a manifest; a scan; a plan | grant-default-admin, transfer-ownership, revoke-roles | the deployer ends up with what the manifest exempts and nothing else |

hardhat-deploy (external) orders the scripts by path and by the tags they depend on,
calls each that is not recorded, and records one that returns `true` and has an id.
`GovernanceExecutor.tryOrQueue` makes a call and, when that fails and a Safe is
configured, queues it; the script then returns `false` and is run again after the
owners have executed the batch. The scripts talk to each other only through the
chain and the deployments folder, which is why their order and what they leave
unfinished matters.

`PROJECT.json` lists for every component whether it is modelled, and every hazard
at its line.

## 2. Modules

| Module | Models |
|---|---|
| `AccountNumbers` | accounts by number, `MaxUint`, crediting and debiting of balances |
| `Arithmetic` | `Math.mulDiv`, rounded down and up; sums over numbered tables, as a recursive function |
| `CollateralVault` | the holding vault, the oracle, and the collateral of everybody else |
| `DStableToken` | the token, with flash loans in two steps |
| `AmoManager` | the AMO manager and its venues |
| `IssuerV2`, `RedeemerV2` | the two user-facing contracts |
| `DStable` | all five together, `Next`, `Spec`, the properties, the refinement |
| `RedemptionFees` | beside it a history of what the admins said about fees |
| `BackedMoney` | the abstract specification of dSTABLE |
| `AmoDebtToken` | the receipt token of AMO wallets: supply and allowlist |
| `AmoManagerV2` | the second AMO manager: debt tokens against dStable and collateral |
| `DStableV2` | dSTABLE with `AmoManagerV2` in place of the venues |
| `MCDStable`, `MCDStableV2` | their instances for TLC |
| `BasisPointConstants`, `WithdrawalFees` | the scale of shares; the two fee libraries |
| `DLendPosition` | dLEND as one borrower meets it: his position, the pool's tests, what others do to it |
| `DLoopCoreLogic` | the arithmetic of leverage, subsidy and quotes |
| `DLoopCore` | the leveraged vault on such a position |
| `MCWithdrawalFees`, `MCDLoop` | the fee libraries on many inputs; the vault's instance, and beside it the quotes of `DLoopQuoter` |
| `ERC20VestingNFT` | vesting positions |
| `DStake` | the staked stablecoin: token, router, collateral vault, adapters, reward manager |
| `MCStaking` | the instance of the last two, in parts |
| `DeployScripts` | roles, owners and settings as facts; calls with their guards; the steps and blocks a script is made of |
| `HardhatDeploy` | the runner, the mempool, the Safe, faults: `Next`, `Spec` |
| `DeployEcosystems`, `DeployRoles`, `DeployDLend` | `deploy/01` to `04`, and the helpers of later scripts: queued calls, hand-over of one contract |
| `DeployLending`, `DeployVaults` | `deploy/05` to `14` and the Odos adapters |
| `DeployV2`, `DeployOracles` | `deploy/15` to `19` |
| `RolePlanner`, `RoleTooling` | the role manifest and its planner; the tools beside the runner, fairness |
| `Deployment`, `MCDeployment` | all of it, the properties; the scenes |
| `*Proofs` | theorems and their lemmas |

`CollateralVault`, `DStableToken`, `AmoManager`, `IssuerV2` and `RedeemerV2` extend
each other in the order in which the contracts call each other, and share their
variables, as the contracts share the ledgers. A definition that is an *effect*
inside another contract's transaction (`VaultPays`, `Mint`, `Allocate`) leaves the
rest of the state to the caller; an *action* names everything it leaves unchanged.

### dSTABLE

| Variable | In the code |
|---|---|
| `price`, `supported`, `vaultBalance` | `oracle.getAssetPrice`, `_supportedCollaterals`, balances of the vault |
| `collateralOf` | collateral balances of all other accounts |
| `dstableOf`, `totalSupply`, `tokenPaused`, `flash` | the token, and the one outstanding flash loan |
| `allocation`, `isAmoActive`, `totalAllocated` | `AmoManager` |
| `mintingPaused`, `assetMintingPaused` | `IssuerV2` |
| `redemptionPaused`, `assetRedemptionPaused`, `feeReceiver`, `defaultRedemptionFeeBps`, `collateralRedemptionFeeBps`, `isCollateralFeeOverridden` | `RedeemerV2` |

Roles are not state: an action under `onlyRole` is a step that whoever holds the
role may take at any time. That is the weakest assumption, and the properties hold
under it; where a role could break a promise by itself (a price, a listing), the
abstract specification says so. An AMO vault is an account of the model: its
contract is a base class here, so it may trade its collateral in any way
(`CollateralChangesHands`) and values itself as `MockAmoVault` does. A price of 0
disables the divisions that revert on it.

**Abstract specification.** `BackedMoney` has four variables: reserve, issued,
allocated and valuation, in exact multiples of one unit, and says in seven actions
how they may move: nothing of a user or a venue lets `reserve` fall behind
`issued - allocated`; only a change of the valuation can. `DStable` implements it
(`Backed`) under

    reserve   <- totalValue * dstableUnit
    issued    <- (totalSupply - flash.amount - dstableOf[AmoMgr]) * baseCurrencyUnit
    allocated <- totalAllocated * baseCurrencyUnit
    valuation <- <<price, supported>>

The mapping is exact, so the refinement is a statement about every rounding in the
system: issue, redeem and exchange round against the caller by just enough, for all
units and prices. The one constant of the abstraction is `Dust`, what a transfer to
a venue can lose (less than one base unit and one dStable unit together). Money
lent by a flash loan is not issued, which is why the mapping subtracts it, and why
the refinement would not hold if any function accepted the inflated supply as
backing.

`MintExcess` is the interesting action: `issueUsingExcessCollateral` may mint only
up to the backing as it is *after* the mint. `SettleVenueOffList` is there because
the code needs it: collateral that the vault does not support cancels allocation
(see findings).

**AmoManagerV2.** The debt token is one of the collaterals of the vault, asset
`Debt`: its balances are rows of the tables that are there already, and
`AmoDebtToken` adds its supply and its allowlist. Two holders are not accounts,
`TheVault` and `TheManager`. `_update`'s guard is a conjunct of every flow of
collateral that may carry the token (`Allowlisted` in `UsersV2` and
`ExchangesV2`). What AMO wallets do with their dStable and collateral is what any
account may do. `repayWithPermit` is defined, guards and all, and is no disjunct of
`NextV2`: it is never enabled (see findings), and TLC asks for that by itself.

### dLOOP

`DLoopCore` extends `DLendPosition` (the pool) and `DLoopCoreLogic` (the library),
as the contract calls the one and links the other.

| Variable | In the code |
|---|---|
| `collateral`, `debt` | `getCollateralValueInTokenAmount`, `getDebtValueInTokenAmount` of the vault |
| `collateralPrice`, `debtPrice` | `getAssetPriceFromOracle` |
| `sharesOf`, `totalShares` | the ERC-4626 shares |
| `lowerBoundTargetLeverageBps`, `upperBoundTargetLeverageBps`, `maxSubsidyBps`, `minDeviationBps`, `withdrawalFeeBps`, `paused` | the settings |

`deposit` and `mint` are one effect, `TakeDeposit`, with assets computed from shares
or shares from assets, and so are `withdraw` and `redeem` (`PayWithdrawal`). Each
view that reverts is a guard (`LeverageKnown`), and so is each test the pool makes:
a call of amount 0, a borrowing above the loan-to-value, a withdrawal below a health
factor of one. Base values are rounded down in the pool and in the vault, token
balances are whole tokens, and interest is a step that adds one. Others act on the
position whenever they like: they supply and repay for it, liquidate it, and move
prices. The vault's own checks of the balances before and after each pool call
compare what dLEND always delivers, and are left out.

### dSTAKE

`DStake` is the five contracts as one module: none of them does anything without
the next, and what can go wrong is between them.

| Variable | In the code |
|---|---|
| `sharesOf`, `totalShares`, `withdrawalFeeBps_`, `router` | `DStakeToken` |
| `vaultRouter`, `supportedAssets`, `vaultHolds` | `DStakeCollateralVault`, and its balances of the wrapped tokens |
| `vaultAssetToAdapter`, `defaultDepositVaultAsset`, `dustTolerance`, `surplus` | each router: its registry, its tolerance, its dStable |
| `rate` | what a wrapped token is worth (`StaticATokenLM.rate`), in `RateUnit` |
| `exchangeThreshold`, `rewardsEarned` | the reward manager, and what it could claim |

Every router is there from the start, as a contract that is deployed and may be given
to token and vault, in two calls and in any order (`setRouter`, `setVaultRouter`). An
adapter is its immutable asset. The wrapped token is three conversions, two rounded
down and one up. `totalAssets` counts what the vault counts: nothing before it has a
router, then the supported assets for which *its* router has an adapter; while the
token deposits and pays through *its* own router, and the reward manager through the
one it was deployed with. The `try` in which a withdrawal puts its surplus back is a
choice: it fails because the pool refuses, or because the surplus is less than one
wrapped token. Rewards are a counter that a compounding empties, whoever gets them.

### Vesting

`ERC20VestingNFT` splits `deposit` at `_safeMint`'s callback: `DepositMint` runs up
to it, `DepositRecord` from it. In between `entered` holds the frame, and everything
that is not `nonReentrant` may run. `Tick` is the clock. `vestingPeriod`, amounts,
caps and ids are constants or small sets.

### Deployment

A script is data: a sequence of blocks (plain code, the body of a `try` whose `catch`
goes on, the body of a `try ... finally`) of steps, and a step is one call with the
condition under which the code makes it. `HardhatDeploy` runs them: each action is
one step of the current script, or something that happens beside it.

| Variable | In the code |
|---|---|
| `chain` | facts `<<contract, key, value>>`: holders of roles, owners, feeds, listings; what the deployments folder knows |
| `mempool` | transactions sent without `wait()`, mined later in nonce order |
| `recorded` | ids in `.migrations.json` |
| `pc`, `complete`, `raised`, `batch` | the running script: its place, its flags (`allOperationsComplete` and the like), the exception a `finally` delays, `executor.transactions` |
| `proposals` | Safe batches in files, not yet executed |
| `faults` | failures so far |
| `tool` | the role tool that runs, and what it still has to do |

* A step that is sent and not waited for (`Send`, `Queue`, `Attempt`) fails where its
  gas estimate reverts on the *mined* state; sent, it may revert when it is mined.
  A step that is waited for (`SendWait`, `deploy`) is mined when it returns.
* `CallFault` makes any call fail, with the transaction lost or on its way. `Kill`
  ends the process at any step. Both cost a fault; so does a read that the scan of
  the tools misses. Where a call fails inside a helper that catches it, the helper
  goes on as it does: `tryOrQueue` queues, and `ensureDefaultAdminExistsAndRevokeFrom`
  leaves the revocation to governance when it cannot read who is admin (`Confirm`).
* A transaction that a node has accepted is mined. One that is evicted from the mempool
  is not modelled: a script that does not wait for it is recorded all the same, and
  `RecordedMeansDone` would fail for that alone.
* `SafeExecute` runs a batch as a whole, `SafeReject` drops one whose simulation
  reverts. The owners choose among the batches.
* Contracts are written down by the calls that the scripts make: who must hold which
  role, what must be set or unset, what is overwritten. Prices are left out but for
  the question whether there is a feed; so are addresses, amounts, log lines.
* Conditions of a script that no configuration of the repository makes true, and
  tags on which no script depends, are left out.

The tools scan, plan and act in three separate steps (`Scan`, then `CallDirectly` or
`PrepareBatch`), so the chain may change under a plan. `RolePlanner` is the decision
of the planner for one deployment as a set of heirs, empty or one.

## 3. Runs

| Run | Question | Instance | States |
|---|---|---|---|
| `staking` | Vesting: do the counters, the holdings and the soul-binding survive every interleaving of deposits, callbacks, transfers, exits and setters? Money: what can stakers, exchanges, sweeps, donations and compounding take from a share while rates rise and settings change? Migration: and while assets are listed and delisted, and token and vault move to another router? | two holders (symmetric), two ids, ticks 0..2, amounts 0..2; two stakers, two wrapped tokens of rates {2,3} of 2, fees 0 and 1 of 3; one staker, two routers | 214 002 |
| `staking_migration` | Do exchanges keep the value, whether or not router and vault agree on the assets? (violated) | the part "migration" alone | |
| `dstable_money` | At fixed prices, do users, issuer, AMO manager, venue, exchanges and trades keep the money backed, the counters right and the principal in the venue, while collaterals are delisted and relisted? | manager, venue, user; two collaterals; `MaxUint` 4 | 39 606 |
| `dstable_admins` | The same for users and issuer while prices move, listings change, everything is paused and unpaused, and flash loans are out; and, as a part of its own, does a redeemer pay what was said last after every history of fee settings? | manager, user; prices {2,3}; 100 % = 2 bps | 272 208 |
| `dstable_off_list` | Is freed allocation backed, as a comment says? (violated) | as `dstable_money` | |
| `dstable_v2` | Are debt tokens only ever in the vault, whatever AMO wallets, users and exchanges do while allowlists change? And, as a part of its own: what can a supply operation take from the backing while prices, peg guard and listing move? | one collateral, the debt token, one account in all roles; prices below, at and far above peg: 3, 4, 7 of 4 | 648 000 |
| `dstable_v2_permit` | Can `repayWithPermit` be called whenever `repayFrom` can? (violated) | as `dstable_v2`, without the peg | |
| `dloop` | What can depositors, redeemers and rebalancers take while prices move, interest accrues, others repay and liquidate, and the admin changes every setting? Beside it: does the vault accept the quoted way up, and does the gross amount of each fee library pay the net amount? | two holders, leverage 3 within 1.5 and 4.5, two collateral prices, two subsidies and fees; every debt up to 8000 of positions of 8000 to 8004; net amounts 0..700, fees 0..30 % | 367 406 |
| `dloop_quote_down` | Does it accept the quoted way down? (violated) | the quotes of `dloop` | |
| `deployment` | Do deployment, migrations and hand-over survive lag, failures, kills and any order of batches? | seventeen scenes, below | 171 513 |
| `deployment_race` | Is the deployer without roles once the migration of the issuers is recorded? (violated) | `15/1`, no Safe, four transactions of lag, no fault | |
| `deployment_blocked` | Does revoke-roles take every role from the deployer? (violated) | two contracts, the mainnet manifest, no fault | |

**Bounds.** `MaxUint` bounds what is minted and allocated: it is the width of
`uint256`, and an action that would exceed it reverts as checked arithmetic does.
Everything else is finite because tokens are conserved. Units and prices are the
point of the instances: units 2 and 3 and prices 2 and 3 are coprime in every
conversion, so that each leaves a remainder for some amount, amounts of 1 round to
zero, and two collaterals round apart. One step of the dust is then as large as the
money itself, and a rounding error of one unit would be seen at once. The groups of
steps are split into parts because all together have too many states; each part
composes the groups that share a counter, a behaviour stays in one part (variable
`part` of the MC modules), and between them they fire every action.
That the rest does not matter for the properties is what the proofs show.

The dSTAKE parts have few shares and few wrapped tokens (`MaxShares` 4, `MaxHeld` 3 of
each): a wrapped token is worth 2 or 3 halves of a unit, so that every deposit,
payment and exchange leaves a rest, a fee of one third is more than any rest, and an
exchange loses its tolerance at once. With more money the rests are the same and only
smaller beside it. `MaxSurplus` and `MaxEarned` bound counters that only grow with the
number of calls. In the part "migration" the rates stay: who counts an asset is a matter of
the registries.

The dLOOP run has a scale of 100 basis points and positions of a few tokens, where
a base unit is worth more than a token and a token more than a base unit in turn:
each rounding is as large as it can be. A fee of 30 of 100 is allowed there, so that
it does not round to nothing. The quotes are the opposite case: whether the vault
accepts them depends on a base unit being small beside a basis point of leverage, as
it is with the eight decimals of the oracle, so these positions are large and the
states are the positions themselves. Real numbers differ in size only: the same
operators at the configured target and subsidy (`config/networks/sonic_mainnet.ts`)
miss the target in the same way.

A deployment scene is some scripts, a chain as it was when they were written, a Safe
or none, a manifest and the bounds: `maxPending` transactions in the mempool,
`maxBatches` batches waiting, `maxFaults` failures. The scenes:

| Scene | Scripts | Starts from | Safe | Faults |
|---|---|---|---|---|
| whole | all of 01 to 14, 09 to 12 and their hand-over | feeds and the Curve pool | no | 0 |
| launch, dlend, later, stake, vault | 01 and 02; 03; 05 to 07, 13 and 14; 08; 09 to 12 | what comes before | no | 1 |
| hand over, wrappers | 04/01 to 03 and the tools; 04/04 | contracts of the deployer | yes, no | 1 |
| opted out | the tools alone | the exclusions of the mainnet manifest | yes | 1 |
| issuer, redeemer | 15/1; 15/2 and the gateways | governance administers all | yes | 1 |
| amo, priced amo | 18 AMO, the deployer without and with the oracle role | the same | yes | 1 |
| pause, rates, feeds, usd | 19 pause; 16 and 17; 18 oracle; 19 usd | the same | yes | 1 |

One fault reaches every step of every script, as a failed call, a lost answer or a
kill; a second adds only a second repetition of the same scripts. A lag of two shows
every pair of a sent transaction and a read or call that should have come after it;
four in the race. Two batches show every order of two scripts' batches. Scripts that
share no contract are in different scenes; `whole` has all that a new network needs
in one, to check that their dependencies order them rightly.

**Deadlock** is not checked: with everything paused and every amount too large for
`MaxUint` no step need be left in dSTABLE, a paused, empty dLOOP vault at its caps may
stop, a vesting contract after its last tick too, and a deployment ends.

**Fairness.** None is assumed of the contracts, and no liveness property stated of
them. Every step is a call that somebody may choose not to make: no keeper, queue or
retry exists there, and none of their promises is that something will happen. The
deployment is fair (`ToolFairness`): an operator starts it again as long as a script
is left (weak fairness of `Start`), a process that is not killed goes on (`Progress`),
a transaction that was sent is mined (`Mine`, nonces are in order and fees are paid),
a tool finishes what it planned, and each tool is run again and again (strong fairness
of `Scan`: the deployment and other tools exclude it for a while). The owners of the
Safe settle all batches now and then, in any order (`[]<>(proposals = {})`):
weaker than fairness of each execution, since a batch that reverts is dropped, and
what the scripts ask for when they exit with "can be re-run after governance
executes". Without it nothing that is queued need ever happen.

**Mutants.** Each property of each passing run has a mutant in the module it is
about: a definition such as `BurnUnchecked` or `BackedBeforeMint` next to the one
it stands for, with the bug a careless change would make. It plays no part in the
specification.

## 4. Properties

* `SupplyAddsUp`, `AllocationsAddUp`, `TotalIsSumOfPositions`: a counter is the sum
  of the table it summarises.
* `Backed`: the refinement above.
* `PrincipalStaysInVault`: after a withdrawal of profit the venue is worth its
  allocation, or one base unit less. The unit is real: profit is a difference of
  values that are rounded separately.
* `DebtStaysInVault`: unless the admin allowlists somebody else, the supply of debt
  tokens is the vault's balance of them.
* `PegGuardBoundsLoss`: `increaseAmoSupply` and `decreaseAmoSupply` compare supplies,
  never the vault's value. What they can take from the backing is bounded by the peg
  guard: `pegDeviationBps` (and one, as the deviation itself is rounded down) of the
  amount, and the rounding of three conversions. With the guard off nothing bounds it.
* `RedeemerGetsHisShare`: of what leaves the vault a redeemer loses nothing or the fee
  that was said last, within `MaxFeeBps`, and `redeem` costs exactly that. What was
  said is a history variable (`RedemptionFees`): a default, and for an asset a rate or
  none. The contract keeps a rate and a flag, so that an override of 0 could be taken
  for none, or a cleared one linger.
* `GrossPaysNet`, `GrossIsTight`: the two fee libraries, one of which rounds up and
  corrects itself and one of which rounds down, pay the same net amount.
* `CallerEarnsAtMostSubsidy`: over every history, no rebalancing call earns more than
  `maxSubsidyBps` of what it brings. The way down rounds up, for one base unit.
* `HoldersKeepTheirShare`: a deposit brings at least the collateral its shares stand
  for, a withdrawal takes at most that less the fee.
* `DebtFollowsCollateral`: and the debt? A deposit borrows no more than its part. A
  redeemer may repay less than his part, by what the measure of leverage loses: one
  basis point of the value withdrawn, a base unit and a unit of the debt token.
* `QuotedIncreaseStopsAtTarget`: rounding the deposit up makes the leverage higher,
  not lower as the comment there says; it is the measure of leverage that hides it, and
  only where target and subsidy multiply without a rest.
* `PricedFromAFeed`: at no moment does an aggregator point an asset to a wrapper
  without a feed for it. The scripts that flip an oracle verify the wrapper first,
  and what they verified may only be queued.
* `RedemptionNeverCutOff`: while redeemers are replaced, one of them may withdraw.
  It holds because all calls of the script share the fate of one batch.
* `NoLockout`: a contract that had an admin has one after every transaction,
  in whatever order the grants and the renouncement are mined.
* `AdapterHasItsAsset`: a router with an adapter has a vault that supports the asset.
  The contract swallows the refusal of the vault, and the script does not look again.
* `RecordedMeansDone`: when a script without early returns is recorded, the chain has
  all it was to do, or will have it once the mempool is mined.
* `EveryRunCompletes`: in the end every script is recorded, whatever failed. Excused
  are five scripts that a failure leaves stuck (`StuckAfterFailure`) and those after
  them, two that queue the same batch on every run (`LeavesBatches`), a half deployed
  dSTAKE instance (`Partial`), and two scripts that wait for a price set by hand
  (`MayFinish`). Each excuse is a behaviour of the code: without it TLC shows the
  script that does not finish.
* `HandedOver`: with the tools and a Safe the deployer ends up with nothing but what
  the manifest exempts, though scans miss answers and plans are stale.
* `OptedOutIsKept`: and what it exempts and no override enables by itself stays with the
  deployer at every step.
* `StakersKeepTheirShare`: a deposit brings what its shares stand for, provided the
  vault counts what it becomes; a withdrawal takes no more than its shares stand for
  less the fee. Both but for one wrapped token: the vault pays no finer.
* `ValueFallsByDustOnly`: no exchange, sweep, rescue, compounding or setting lowers
  `totalAssets` by more than the dust tolerance and one, while router and vault agree.
* `EveryoneCanLeave`: with all value in the asset that is paid out, nobody's shares ask
  for more wrapped tokens than the vault has, with a fee and without.
* `WithdrawPaysWhatIsAsked`: `withdraw(assets)` burns shares computed up from the gross
  amount and pays their worth, rounded down twice: it is never less than `assets`.
* `SurplusComesBack`: a withdrawal leaves less than one wrapped token with the router,
  and what leaves the router is in the vault. At an unchanged rate that surplus can never
  be put back by the withdrawal itself: it buys no wrapped token, the deposit reverts and
  is caught. `dstake-design.md` has it "immediately recycled"; it waits for `sweepSurplus`.
* `RewardsArePaidFor`: rewards leave only against wrapped tokens worth the threshold, and
  the holders gain that if the vault counts the asset of the manager's router.
* `Solvent`, `PositionMatchesNFT`, `PendingFitsCheckedCap`,
  `PayoutSettlesOnePosition`, `MaturedIsSoulBound`, `VestedNeverBurned` for vesting.

## 5. Proofs

All proofs are for any number of accounts and assets, any units, prices, amounts
and fees, from the named `ASSUME`s of the modules: units are positive, the
sets of prices and amounts are sets of natural numbers, the manager is an account
and not a venue, the maximal fee is at most 100 %, the highest withdrawal fee of a
vault is below 100 %, a wrapped token is worth at least the one unit it started with.
Two theorems say what else they need: `DebtFollows` and `GrossIsNearLeast`, below.
The theorems about the deployment are for any scripts, order, chain, manifest, lag and
number of faults that keep to the assumptions of `Deployment`; see "Deployment" below.

| Theorem | States |
|---|---|
| `DStableProofs!TypeCorrect` | every balance, supply, allocation and total stays a natural number and fees stay within their maximum |
| `DStableProofs!SupplyIsSum`, `AllocatedIsSum` | `SupplyAddsUp`, `AllocationsAddUp` |
| `DStableBackingProofs!Implementation` | `Spec => Backed` |
| `DStableBackingProofs!RedeemersAreServed`, `PrincipalIsKept` | `RedeemerGetsHisShare`, `PrincipalStaysInVault` |
| `DStableBackingProofs!TypeCorrectV2`, `DebtIsInVault`, `PegGuardSuffices` | with `AmoManagerV2`: `TypeOKV2`, `DebtStaysInVault`, `PegGuardBoundsLoss` |
| `DStakeProofs!StakeTypeCorrect` | nothing of dSTAKE leaves its range, and the shares add up |
| `DStakeProofs!SharesAreBacked`, `ValueIsKept` | `StakersKeepTheirShare`, `ValueFallsByDustOnly` |
| `DStakeProofs!WithdrawPays`, `LeavingIsPossible` | `WithdrawPaysWhatIsAsked`, `EveryoneCanLeave` |
| `DStakeProofs!SurplusIsKept`, `RewardsArePaid` | `SurplusComesBack`, `RewardsArePaidFor` |
| `WithdrawalFeesProofs!NetIsPaid`, `GrossIsNearLeast` | `GrossPaysNet`; up to a fee of one half, `GrossIsTight` |
| `DLoopCoreProofs!TypeCorrect`, `SubsidyIsBounded`, `SharesAreKept`, `DebtFollows` | `TypeOK`, `CallerEarnsAtMostSubsidy`, `HoldersKeepTheirShare`, `DebtFollowsCollateral` |
| `DLoopCoreProofs!QuoteIsAccepted` | `QuotedIncreaseStopsAtTarget` |
| `DeploymentProofs!RevokedHasHeir`, `OneHeir`, `ExcludedIsLeftAlone` | the decisions of planner and revoke-roles, for every manifest |
| `DeploymentProofs!DeploymentTypes` | type correctness of runner, chain, mempool, batches and tools |
| `DeploymentProofs!DeploymentNeverLocksOut`, `OptedOutStays`, `RedemptionStays` | `NoLockout`, `OptedOutIsKept`, `RedemptionNeverCutOff` |
| `DeploymentProofs!RecordedIsDone` | `RecordedMeansDone` |
| `DeploymentProofs!AssetsArePriced`, `AdaptersHaveAssets` | `PricedFromAFeed`, `AdapterHasItsAsset` |
| `ERC20VestingNFTProofs!TypeCorrect`, `TotalIsSum`, `Solvency`, `PositionsMatchNFTs`, `PendingFits` | the vesting invariants |
| `ERC20VestingNFTProofs!MaturedNeverMoves`, `VestedStays`, `PayoutsSettle` | `MaturedIsSoulBound`, `VestedNeverBurned`, `PayoutSettlesOnePosition` |

**Counters.** The inductive invariant of dSTABLE is
`IInv == TypeOK /\ SupplyAddsUp /\ AllocationsAddUp`. Type correctness is not
inductive alone: `Burn` checks the holder's balance but subtracts from the supply
too, and only the sum shows that the supply suffices; in the same way
`Deallocate` of one vault must not exceed the total. `ArithmeticProofs` shows how
a sum follows a change at one or two places, by natural induction on the
number of entries; `DStableProofs` turns that into one lemma per effect (`Mint`,
`Burn`, `Move`, `Allocate`, `Deallocate`, the vault's effects) and one per group of
steps. What depends on a disjoint part of the state is dealt with once, in
`UntouchedParts`.

**Backing.** `Implementation` needs one more invariant: the borrower of a flash
loan is never the AMO manager (`BorrowerIsUser`), or the loan would be subtracted
twice. The argument of each step is arithmetic over `ArithmeticProofs`: a rounded
quotient lies within one of the real one (`MulDivBounds`); what enters the vault
raises its value by at least the value it is given (`MulDivSuperadditive`); taking
out an amount worth at most `v` lowers it by at most `v` (`MulDivTaking`), and
by at most one more than its own quotient (`MulDivTakingQuotient`). Each group of
steps then maps to one abstract action or a stutter: `issue`, `redeem`,
`exchangeCollateral`, deposits, burns and transfers to `Settle`, the excess mint
to `MintExcess`, (de)allocation to `Lend`, venue transfers to `FundVenue` and
`SettleVenue`, listings and prices to `Revalue`.

`RedeemersAreServed` is about `HistorySpec`, which hides nothing of `Spec` but adds what
was said (`HistoryHidden`). Its invariant `SaidOK` says that rate and flag hold it;
`PaymentKeeps` follows the two payments, to the fee receiver himself too, and
`OnlyRedemptionsPay` shows that nobody else burns dStable and empties the vault.
`PrincipalIsKept` compares the worth of
a venue before and after a withdrawal: it falls by at most the value withdrawn and one,
and the guard keeps that value within the profit.

**AmoManagerV2.** `IInvV2` adds two sums to `IInv`: the supply of the debt token is what
vault *and* accounts hold (`DebtAddsUp`), whoever is on the allowlist, and it is the
vault's balance when nobody else can be (`DebtStaysInVault`). The first is what makes the
second step correct: `burn` subtracts from a supply that is nowhere compared with the
balance. `PegGuardSuffices` follows dStable into base value, base value into debt tokens
and those back into value (`MintedLoss`, `BurntLoss`): the price enters only in the
last step, so that what the distance from the peg costs (`PegBounds`) and what the three
conversions lose add up.

**Vesting.** The inductive invariant couples the positions, the NFT owners, the id
counter and the pending deposit. `TotalIsSum` holds *during* the callback because
position and total are written together after it; `Solvency` adds the pending
amount to what is owed. `PayoutsSettle` and `VestedStays` are the same invariant, one
step on.

**dLOOP.** `TypeOK` is inductive once every computed amount is known to be natural,
and that rests on `LeverageAtLeastOne`: a leverage below one would make the debt of a
deposit negative. The sum of the shares follows each change (`SharesMove`). The two
action properties are chains of inequalities through one `MulDivBounds` per rounding
(`ThroughThreeRoundings`, `ThroughARoundingUp`); for withdrawals, `NetBoundsGross` and
`GrossBoundsNet` say what the fee leaves of the gross amount, for any fee up to the
whole. `DebtFollows` goes through the leverage, which the code computes once and rounds
down: the true ratio of debt and collateral lies within one basis point of it
(`LeverageBrackets`). One side of that bounds what a deposit borrows, the other what a
withdrawal repays (`WithdrawalRepays`). A vault without equity has the
leverage `type(uint256).max`; the theorem asks that this be at least the square of the
scale, or the largest number would be a moderate leverage. Target, bounds, fees, prices, units and the pool's limits are arbitrary; it is
assumed that the target is at least one and lies within the initial bounds, as the
constructor checks.

`QuoteIsAccepted` follows a quote through five roundings, one of them upwards: what is
beyond the target afterwards is, in base units times the scale, less than the denominator
of the quote (`QuotedOvershoot`), and a position whose collateral times the scale exceeds
the target plus one times that denominator has too much equity for this to be a whole
basis point (`OvershootVanishes`). Both conditions are part of the property: such a
position (`MeasuredFinely`), and a target that multiplies with the subsidy without a rest,
as a target of whole multiples does; the quote drops the rest, and TLC finds positions
where the vault then reverts.

**Fees.** `NetIs` is the core of `NetIsPaid`: the net amount of `x` is the only `n`
with `(n - 1) * scale < x * (scale - fee) <= n * scale`. The rounded-down quotient lies
in that range, and so does the rounded-up one less one whenever there is a fee; the
correction by one always applies then (`CorrectionApplies`). `GrossIsNearLeast` needs a
fee of at most one half: above it one unit of gross amount is less than half a unit net,
and two units less may do. The vaults admit a few per cent.

**dSTAKE.** `StakeTypeOK` is inductive by itself: the shares are a sum, and a payment is
at most what the vault holds because its guard says so. The other theorems are about one
step, or one state, that satisfies it. A deposit goes through two roundings (wrapped
tokens, shares), a withdrawal through three (shares, fee, wrapped tokens, the last one
up), and each theorem is a chain of inequalities with one `MulDivBounds` for each. What a
step does to `totalAssets`, a sum of rounded values over the assets that count, is
`SumUpdate`: one summand changes, by at least or at most so much. `SurplusIsKept` rests
on `SurplusBuysNothing`: what a withdrawal converts beyond what is asked is less than
one wrapped token, at any rate.

**Roles.** The planner and revoke-roles decide by different code whether a deployment
is included. `RevokedHasHeir` says that the second never takes roles from a deployer
that the first leaves without successor, `OneHeir` that overrides and defaults name one
account, `ExcludedIsLeftAlone` that only an override that enables an action overcomes
an exclusion. They hold for every manifest, set of exclusions and deployment, and
need no assumption but that the manifest resolves.

**Deployment.** The scripts are data, so the theorems cannot hold of all of them: a
script may renounce first and grant later. What they must keep to is written down in
`Deployment` ("What the scripts keep to") as named assumptions, and TLC evaluates these
on the scripts, chains and manifests of every scene of every run:

* a call that makes somebody admin of a contract makes the deployer or governance so, and
  no call takes the role from governance (`KeepsAdmins`); only a deployment makes a
  contract or the deployer its admin (`MakesNothing`);
* a call in which the deployer gives up an admin role stands in its block behind a step
  that hands the role to governance, or waits until it has it, under no narrower condition
  (`HandsOverFirst`);
* beside a manifest no script takes what the manifest leaves alone (`Spares`);
* the right to pay out of a vault is taken from a redeemer only in a batch of governance,
  and a step before it in the same block gives it to one from which no script takes it
  (`ReplacesFirst`), and the deployer is not admin of such a vault (`LeavesPayouts`);
* what a script without early returns adds for good (`Promised`), no call made up to then
  takes back (`Firm`), and one of its steps `Establishes` it: that step reads it, or waits
  for the call that adds it, or sends a call that nothing on its way can make revert
  (`Sturdy`), and where the step passes itself over, what it asks for never comes without
  what it would have added (`Accompanied`);
* what a call relies on (`ReliesOn`: of one that points to a wrapper its feed, of one that
  adds an adapter the role that lets the vault take the asset) is there when the call is
  mined, in one of two ways. Where batches of the Safe are executed in any order, a step
  that only reads it stands in front in the same block, and no adapters are added
  (`ReadsBefore`). Where nothing is queued and no tool runs (`InOrder`), a step that
  `Provides` it stands in front of the call, in the block, in an earlier block that cannot
  be left before it, or in an earlier script; in front, too, of each call that takes from
  the deployer a right needed to provide it (`WaitsFor`);
* a feed is unset only by governance, which sets it again in the next step of the block
  (`FeedsNext`), and the deployer never gets that right (`KeepsFeeds`); no call takes the
  support of an asset back (`KeepsAssets`).

All scripts together, deployed from nothing by a deployer without a Safe, are `InOrder`
(19 such facts); the oracle migrations of a live system are `ReadsBefore`.

The properties then depend on neither the lag of the chain, nor failures, kills, reruns,
tools that read wrongly, nor the order of batches. They are not inductive: what gives a
right up is sent long before it is mined, after a check of a chain that lags behind. The
invariant is `IInv == TypeOK /\ QueueOK /\ HandoverOK /\ RedeemersOK`. `QueueOK`: a sent
call that gives up an admin role has a call before it in the mempool that hands it over,
which succeeds when it is mined because the deployer still has what it will give up, or
governance has it already. `HandoverOK` is what makes a new such call
keep `QueueOK`: behind a step that secures a contract, and up to the next deployment, the
role is handed over or about to be. `RedeemersOK`: every batch, proposed or being filled,
gives before it takes, and nobody but governance takes. Each is proved per group of steps:
the chain moves (`MinedCall`, `AwaitedCall`, `DirectCall`, `ChainSteps`), the queue
(`QueueSteps`), the place in the script (`HandedNext`, `Behind`, `HandoverKept`), batches
(`BatchKept`, `ProposalsKept`). The order of the scripts is a recursive function over pairs
of sets; that its values are sequences of scripts is an assumption too
(`OrdersAssumption`), as induction over data is beyond the provers.

`RecordedIsDone` has an invariant of its own, `PromisesOK`, beside `IInv`. It speaks of the
scripts that may run now or may have run (`Open`): every call on its way is one of the
scripts so far (`OnlyUpTo`), what makes a step superfluous has come with its companion
(`AccompaniedOK`), and what a step behind the run was to establish is there or `Coming`:
a call on its way adds it that will not revert, whatever is mined before it (`BehindOK`).
When the place is the end of the script, every step is behind it.

`AssetsArePriced` and `AdaptersHaveAssets` share a third, `PricesOK`. Of feeds it says that
every batch that unsets one sets another behind it, in the batch or, for one being filled,
in the step the run is at (`FeedsOK`); so a feed once there stays (`FeedStays`), over whole
batches only, as a batch runs as one transaction. Of calls under way it says, in scenes
that are `ReadsBefore`, that what they rely on is there already (`ReadsOK`), and in scenes
that are `InOrder`, that it is there or `Due`: a call in front adds it that has the rights
it needs, and no call before that one waits for it or takes those rights (`OrderOK`). Due
is also what steps, blocks and scripts behind the run were to provide. That a transaction
may be lost to a failed estimate does not break it, since the script then stops, and its
next run goes over the same steps; that the script is killed does not, since what it sent
stays in front of what it sends later. `CallsAreReady` draws the conclusion: a call that
takes effect has what it relies on, and `ReadyPrices` and `BatchPrices` what that means.

**Model-checked only**: `EveryRunCompletes` and `HandedOver`, the liveness of the deployment, which
rests on fairness; everything else the passing runs check is stated by a theorem.

## 6. Findings

* **Freed allocation is not always backed** (`dstable_off_list`).
  `AmoManager.transferFromAmoVaultToHoldingVault` cancels allocation by the value of
  the collateral it returns, without asking whether the holding vault supports that
  collateral. After a delisting, returned collateral does not count towards
  `totalValue`, but the dStable it frees counts as circulating; the comment in the
  function calls it "fully backed".
* **`repayWithPermit` always reverts** (`dstable_v2_permit`). It is `nonReentrant` and
  calls `repayFrom`, which is `nonReentrant` too. `Design.md` describes it as the
  variant of `repayFrom` that signs the allowance first; its only test accepts any
  error.
* **The quoted way down may revert** (`dloop_quote_down`). The comment in
  `DLoopCoreLogic` says that rounding the repayment down guarantees that the leverage
  does not end below the target. The quote is converted to debt tokens, rounded down
  again, and the vault takes back from that one base unit less, for which it withdraws
  less collateral than the position needs to stay above the target.

* **An exchange may lose all it moves** (`staking_migration`). `dstake-design.md` has it
  as an invariant that exchanges maintain value parity within the dust tolerance. The
  router compares the worth of the two amounts and never asks whether the vault counts
  the second: an adapter that was registered while the router was not yet the vault's,
  or whose asset the vault dropped, is good enough. After the exchange `totalAssets` is
  lower by everything that was moved, and shares can be bought at that price.
* **A migration is recorded before it is done** (`deployment_race`).
  `migrateIssuerRolesIdempotent` in `deploy/15_issue_redeem_v2/1_setup_issuerv2.ts`
  "returns true if all operations complete", and it is to grant first and revoke then.
  It sends the grants without waiting, reads that governance does not have the roles
  yet, skips the revocations and returns true. The script is recorded, and the deployer
  keeps three roles of the issuer. The same loop is in `15/2`, `16/01` and `18/03`.
* **One contract blocks all revocations** (`deployment_blocked`). `revoke-roles`, says
  `.shared/README.md`, "prepares a Safe batch that revokes every deployer-held role".
  It is one atomic batch, and it does not ask who administers a role. The dLOOP
  periphery makes `DLOOP_ADMIN_ROLE` its own admin and gives it to the deployer; the
  manifest of the main network exempts those contracts for `ownable` only.

Other behaviours that the scripts have and the model shows, without a run of their own:

* `16/01` and `19_usd/01` set a feed on every run unless they are recorded. When the
  role for it went to governance first, each run queues the feed again and returns
  false: re-run "after governance executes", they never end.
* `18/01a` notes that governance "will need to execute this step", queues nothing and
  is recorded; the batch of `18/02` reverts as a whole until a price is set by hand.
* `08/01` passes over an instance of which anything exists. A run that died between its
  contracts is never completed, and `08/02` to `05` stop there.
* `03_market/00` and the initializers of the treasury, the pool and its configurator
  are repeated after a failure and revert; `14/00` forgets an oracle it made.
* Without a Safe, `15/2` goes on after a grant that failed and revokes the old
  redeemer's role.

Within dSTAKE: `addAdapter` swallows the vault's refusal, and a second call for the same
adapter repairs it; a deposit before the vault has a router is taken and counts for
nothing; after a migration the reward manager goes on depositing through the router it
was deployed with, into an asset that the vault may no longer count; and
`withdraw(maxWithdraw(owner))` may ask for one share more than the owner has when there is a
fee, though the test's title says that full withdrawal is allowed.

Three smaller divergences are in the model and have no run: with a minimum of 0 the
issuer and the redeemer take an amount whose value rounds to zero for nothing, though
`Design.md` says that they revert; dStable that `AmoManagerV2` mints to a wallet counts
as circulating (neither `AmoManager` nor `IssuerV2` knows of it), though `Design.md`
says that it is left out; and the gross amount of `SupportsWithdrawalFee`, which its
test calls minimal, is often one more than needed.

## 7. Not modelled

Within dSTABLE: `AmoManagerV2.setCollateralVault`, `AmoDebtToken.burnFromVault` (nobody
calls it); replacing the oracle, the base currency unit, the vault or the AMO manager
(migrations to contracts with an arbitrary state); collateral sent to the vault by a
bare transfer (it only adds to the reserve); `recoverERC20` and the approvals of AMO
vaults; allowances and permits; flash loans within flash loans (in total they are one of
the amounts). Within vesting: token metadata. Within dLOOP: transfers of shares and
allowances; tokens lying in the vault and their rescue; what `compoundRewards` claims,
its threshold and its fee (the shares it burns are modelled); venues that move less than
they are asked. Within dSTAKE: `setCollateralVault` (a vault with an arbitrary state),
allowances, roles, pauses of the pool (any call may fail), dStable sent to a router,
`rescueETH`, the treasury's part of the rewards and their recipients. Within dLEND
everything but one borrower's view: indices and rates are the step `Interest`, e-mode,
isolation and siloed borrowing are not used by the vault. Within the deployment: a batch
that cannot be written (`flush` returns false); prices and their comparison; prompts,
dry runs and reports; a second network; the configuration, whose names are the constants
of the scenes.

Not modelled at all: the arithmetic of the oracle wrappers, the dLOOP periphery, dPOOL,
`StaticATokenLM` but for its conversions, the gateway and the first issuers and
redeemers. How they are deployed, wired and handed over is modelled. The operator's
scripts in `scripts/` and the developer tools in `.shared` keep no state that a later
step relies on.

## 8. Plan

1. *Done:* vesting; dSTABLE with its abstract specification, both proved.
2. *Done:* AmoManagerV2 and AmoDebtToken, proved.
3. *Done:* the dLOOP core, its arithmetic and its quotes; withdrawal fees.
4. *Done:* deployment, migrations and role tooling, with faults, a Safe and liveness;
   their safety is proved, and what remains to TLC is their liveness.
5. *Done:* dSTAKE with its rewards, proved.
6. Open, in this order: the oracle wrappers under a clock; the dLOOP periphery around
   its swaps; dPOOL; the indices of `StaticATokenLM`.
