------------------------------ MODULE MCStaking ------------------------------
(* dSTAKE, and the NFTs that lock its shares, side by side: a behaviour stays  *)
(* in one part, and the other contracts rest.                                  *)
EXTENDS ERC20VestingNFT, DStake, TLC

VARIABLE part

CONSTANTS alice, bob

\* The vesting contract: two holders, two token ids and a clock of three ticks.
MCUsers == {alice, bob}
UserSymmetry == Permutations(MCUsers)

\* dSTAKE: two wrapped tokens with an adapter each, and two routers.
MCadapterAsset == [adapter \in Adapters |-> adapter]

\* As the deployment leaves it: token and vault have the same router, and the
\* vault supports the asset of both its adapters.
Configured ==
    /\ router = dStakeRouter /\ vaultRouter = dStakeRouter
    /\ supportedAssets = VaultAssets
    /\ vaultAssetToAdapter = [r \in Routers |-> [a \in VaultAssets |->
                                IF r = dStakeRouter THEN a ELSE NoAdapter]]
    /\ defaultDepositVaultAsset = [r \in Routers |->
                                     IF r = dStakeRouter THEN 1 ELSE NoAsset]

\* Money: stakers around exchanges, fees, tolerances, surplus, rewards and rising
\* rates, with the registry as it is.
MoneyNext ==
    StakerSteps \/ ExchangerSteps \/ SettingSteps \/ SurplusSteps \/ RewardSteps \/ OutsideSteps

\* Migration: assets listed and delisted, and token and vault moved to another
\* router, in any order around one staker and exchanges. What matters here is who
\* counts and supports what, so that a wrapped token is worth one unit.
OneStaker == \E amount \in StakeAmounts : depositStake(1, amount) \/ redeemStake(1, amount)
MigrationNext == OneStaker \/ ExchangerSteps \/ RegistrySteps \/ RouterMoves
NothingEarned ==
    /\ NothingStaked /\ exchangeThreshold = 1
    /\ \A a \in VaultAssets : rate[a] = RateUnit

VestingRests == Init /\ maxTotalSupply = 1 /\ minDepositAmount = 0
StakingRests == Configured /\ NothingEarned

StakingInit ==
    \/ part = "vesting" /\ Init /\ StakingRests
    \/ part = "money" /\ VestingRests /\ Configured /\ NothingStaked
    \/ part = "migration" /\ VestingRests /\ NothingRegistered /\ NothingEarned

StakingNext ==
    /\ \/ part = "vesting" /\ Next /\ UNCHANGED dstakeVars
       \/ part = "money" /\ MoneyNext /\ UNCHANGED vars
       \/ part = "migration" /\ MigrationNext /\ UNCHANGED vars
    /\ UNCHANGED part

StakingSpec == StakingInit /\ [][StakingNext]_<<dstakeVars, vars, part>>

MigrationSpec ==
    /\ part = "migration" /\ VestingRests /\ NothingRegistered /\ NothingEarned
    /\ [][MigrationNext /\ UNCHANGED <<vars, part>>]_<<dstakeVars, vars, part>>
=============================================================================
