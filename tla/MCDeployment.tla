---------------------------- MODULE MCDeployment ----------------------------
(***************************************************************************)
(* The deployment scripts and the role tools, run in scenes: some scripts  *)
(* on a chain as it was when they were written.  The scenes share no       *)
(* steps; a behaviour stays in the one it starts in.                       *)
(***************************************************************************)
EXTENDS Deployment, TLC

MCRoleNames ==
  {Admin, OracleManager, Withdrawer, Minter, PoolAdmin, Emergency, FeeManager, RewardsManager}
  \cup TokenRoles \cup VaultRoles \cup AmoManagerRoles \cup IssuerRoles \cup RedeemerRoles
  \cup DLoopRoles
-----------------------------------------------------------------------------
(* Manifests.  AutoManifest is manifests/sonic-testnet-roles.json,         *)
(* MainnetManifest the mainnet one: three of its exclusions.               *)
NoManifest ==
  [exclusions |-> {}, overrides |-> {}, autoInclude |-> {}, safe |-> FALSE,
   defaults |-> [k \in Kinds |-> Gov]]
AutoManifest == [NoManifest EXCEPT !.autoInclude = Kinds, !.safe = TRUE]

Excluding(name, kept) == [names |-> {name}, kept |-> kept]
MainnetManifest ==
  [AutoManifest EXCEPT !.exclusions =
     { Excluding(DLoopVault, {}), Excluding("DLoopDepositorOdos", {"defaultAdmin"}),
       Excluding("OdosLiquiditySwapAdapter", {"defaultAdmin"}) }]

(* Roles and prices as a finished deployment leaves them with who.         *)
HeldBy(who, c, roles) == {<<c, r, who>> : r \in roles \cup {Admin}} \cup {Deployed(c)}
OwnedBy(who, c)       == {<<c, Owner, who>>, Deployed(c)}
DStableBy(who, d) ==
  HeldBy(who, d, TokenRoles) \cup HeldBy(who, d \o "_Issuer", IssuerRoles)
  \cup HeldBy(who, d \o "_Redeemer", RedeemerRoles)
  \cup HeldBy(who, d \o "_AmoManager", AmoManagerRoles) \cup HeldBy(who, Vault(d), VaultRoles)
  \cup {<<Vault(d), Withdrawer, d \o "_Redeemer">>, <<d, Minter, d \o "_Issuer">>,
        Deployed(HardPeg(d)), <<HardPeg(d), d, "feed">>}
OraclesBy(who, agg, tables) ==
  HeldBy(who, agg, {OracleManager})
  \cup UNION {HeldBy(who, tables[n].wrapper, {OracleManager})
              \cup {<<tables[n].wrapper, tables[n].asset, "feed">>,
                    <<agg, tables[n].asset, tables[n].wrapper>>} : n \in DOMAIN tables}
USDOraclesBy(who) == OraclesBy(who, USDAggregator, USDRedstone)
LendingBy(who) ==
  OwnedBy(who, Provider) \cup OwnedBy(who, Helper) \cup OwnedBy(who, Emission)
  \cup HeldBy(who, Acl, {PoolAdmin, Emergency}) \cup {<<Provider, "aclAdmin", who>>}
  \cup {Proxied(p) : p \in {"POOL", "POOL_CONFIGURATOR", "INCENTIVES_CONTROLLER"}}
  \cup {Deployed(c) : c \in {"POOLProxy", "PoolDataProvider", "TreasuryProxy", "ReserveStrategy",
                             "IncentivesProxy"} \cup ToSet(TokenImplementations)}
  \cup {Pointed} \cup {Listed(s) : s \in ToSet(FirstReserves)}
  \cup {Configured(s) : s \in ToSet(FirstReserves)}
-----------------------------------------------------------------------------
(* Scenes                                                                  *)
Scene(scripts, facts, safe, n) ==
  [scripts |-> scripts, chain |-> facts, useSafe |-> safe, manifest |-> NoManifest, tools |-> {},
   maxPending |-> 2, maxBatches |-> 2, maxFaults |-> n]
WithManifest(m, s) == [s EXCEPT !.manifest = m, !.tools = Tools]
Lagging(pending, batches, s) == [s EXCEPT !.maxPending = pending, !.maxBatches = batches]

HandOverScripts == << TransferDStableRoles, TransferOracleRoles, TransferDLendRoles >>
Decimals == {<<f, "decimals", "18">> :
               f \in {"wstkscUSD feed", "wstkscETH feed", "OS_to_S feed", "wOS_to_OS feed"}}

\* Every script of the repository that a new network needs, without failures.
Whole == DSEcosystem \o DUSDEcosystem \o DLend \o HandOverScripts
         \o <<TransferOracleWrapperRoles>> \o LaterLending \o DStake
         \o <<DeployRedeemerWithFees>> \o DPool \o DLoop
WholeScene  == Scene(Whole, Decimals \cup {Deployed(CurvePool)}, FALSE, 0)
\* Its parts, each with a failure.
LaunchScene == Scene(DSEcosystem \o DUSDEcosystem, {}, FALSE, 1)
DLendScene  == Scene(DLend, {Deployed(USDAggregator)}, FALSE, 1)
LaterFacts  == LendingBy(Deployer) \cup USDOraclesBy(Deployer) \cup Decimals
LaterScene  == Scene(LaterLending, LaterFacts, FALSE, 1)
StakeFacts  == LendingBy(Gov) \cup {Deployed(ATokenWrapper("dUSD")), Deployed("dUSD")}
StakeScene  == Scene(DStake, StakeFacts, FALSE, 1)
VaultFacts  == LendingBy(Gov) \cup {Deployed(ATokenWrapper("dUSD")), Deployed(CurvePool)}
               \cup DStableBy(Gov, "dUSD") \cup DStableBy(Gov, "dS")
               \cup {Deployed(USDAggregator), Deployed(SAggregator)}
VaultScene  == Scene(<<DeployRedeemerWithFees>> \o DPool \o DLoop, VaultFacts, FALSE, 1)

\* The hand-over to governance, by scripts and by tools.
HandFacts  == HeldBy(Deployer, "dUSD", TokenRoles) \cup HeldBy(Deployer, USDAggregator, {OracleManager})
              \cup OwnedBy(Deployer, Emission)
HandScene  == WithManifest(AutoManifest, Scene(HandOverScripts, HandFacts, TRUE, 1))
WrapperFacts == OwnedBy(Deployer, SAggregator)
                \cup UNION {HeldBy(Deployer, w, {OracleManager}) : w \in ToSet(OracleWrappers)}
WrapperScene == Scene(<<TransferOracleWrapperRoles>>, WrapperFacts, FALSE, 1)
OptedFacts == HeldBy(Deployer, "dS_RedeemerWithFees", RedeemerRoles) \cup OwnedBy(Deployer, "OdosRepayAdapterV2")
              \cup {<<DLoopVault, r, Deployer>> : r \in DLoopRoles} \cup {Deployed(DLoopVault)}
              \cup OwnedBy(Deployer, "OdosLiquiditySwapAdapter")
OptedScene == WithManifest(MainnetManifest, Scene(<<>>, OptedFacts, TRUE, 1))

\* Changes of a system that governance administers, with a Safe.
V2Facts == DStableBy(Gov, "dUSD") \cup DStableBy(Gov, "dS")
           \cup USDOraclesBy(Gov) \cup OraclesBy(Gov, SAggregator, SRedstone)
IssuerScene   == Scene(<<SetupIssuerV2>>, V2Facts, TRUE, 1)
RedeemerScene == Scene(<<SetupRedeemerV2, DeployNativeMintingGateways>>, V2Facts, TRUE, 1)
AmoScripts == << DeployAmoManagerV2AndDebt, SetupDebtTokenOracle, ConfigureAmoSystem,
                 MigrateRolesToGovernance >>
AmoScene   == Scene(AmoScripts, V2Facts, TRUE, 1)
PricedAmoScene ==
  Scene(AmoScripts, V2Facts \cup {<<agg, OracleManager, Deployer>> : agg \in {USDAggregator, SAggregator}},
        TRUE, 1)
PauseFacts == HeldBy(Gov, IssuerToPause, {"PAUSER_ROLE"}) \cup HeldBy(Gov, RedeemerToPause, {"PAUSER_ROLE"})
              \cup LendingBy(Gov) \cup {<<Vault("dUSD"), "collateral", "supported">>}
PauseScene == Scene(<<PauseTreveeOperations>>, PauseFacts, TRUE, 1)

Served(asset, w, feed) == {<<USDAggregator, asset, w>>, <<w, asset, feed>>}
Alive(asset) == <<asset, "sources", "alive">>
RateFacts == USDOraclesBy(Gov) \cup {Alive("wstkscUSD"), Alive("sfrxUSD")}
RateScene == Scene(<<DeployChainlinkSafeRateProviderCompositeWrapper,
                     QueueChainlinkSafeRateProviderOracleUpdates, DeployUpscaleOracle>>,
                   RateFacts, TRUE, 1)
FeedFacts == USDOraclesBy(Gov) \cup Served("wS", PlainWrapper, "old feed")
FeedScene == Scene(<<UpdateSChainlinkFeeds, SwitchSChainlinkOracles>>, FeedFacts, TRUE, 1)
USDFacts  == USDOraclesBy(Gov) \cup {Alive("wstkscETH"), Alive("PTwstkscUSD"), Alive("scETH")}
             \cup Served("wstkscETH", CompositeWrapper, "feed")
             \cup Served("PTwstkscUSD", CompositeWrapper, "old feed")
             \cup Served("scETH", ThresholdWrapper, "old feed")
USDScene  == Scene(<<DeployWstkscETHUSDOracle, UpdatePTwstkscUSDFeed, UpdateScETHFeed,
                     QueueWstkscETHOracleFlip>>, USDFacts, TRUE, 1)

MCScenes ==
  "whole" :> WholeScene @@ "launch" :> LaunchScene @@ "dlend" :> DLendScene
  @@ "later" :> LaterScene @@ "stake" :> StakeScene @@ "vault" :> VaultScene
  @@ "hand over" :> Lagging(2, 1, HandScene) @@ "wrappers" :> WrapperScene @@ "opted out" :> OptedScene
  @@ "issuer" :> Lagging(2, 1, IssuerScene) @@ "redeemer" :> Lagging(1, 2, RedeemerScene)
  @@ "amo" :> Lagging(1, 2, AmoScene) @@ "priced amo" :> Lagging(1, 1, PricedAmoScene)
  @@ "pause" :> PauseScene @@ "rates" :> RateScene @@ "feeds" :> FeedScene
  @@ "usd" :> Lagging(2, 1, USDScene)

\* For the disagreements below.
RaceScenes == "race" :> Lagging(4, 1, Scene(<<SetupIssuerV2>>, V2Facts, FALSE, 0))
BlockFacts == HeldBy(Deployer, "dUSD", TokenRoles)
              \cup {<<"DLoopDepositorOdos", r, Deployer>> : r \in DLoopRoles}
              \cup {Deployed("DLoopDepositorOdos")}
BlockScenes == "blocked" :> WithManifest(MainnetManifest, Scene(<<>>, BlockFacts, TRUE, 0))
=============================================================================
