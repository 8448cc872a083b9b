----------------------------- MODULE DeployDLend -----------------------------
(***************************************************************************)
(* deploy/03_dlend and the helpers of typescript/dlend that later scripts  *)
(* use to list an asset: setup-oracle.ts and setup-reserves.ts.            *)
(***************************************************************************)
EXTENDS DeployRoles

Registry == "PoolAddressesProviderRegistry"
Helper   == "ReservesSetupHelper"
Pool     == "Pool"
RiskAdmin == "RISK_ADMIN_ROLE"
Proxied(name) == <<Provider, name, "proxy">>

DeployOwned(c) == Deploy(c, {<<c, Owner, Deployer>>})

LogicLibraries == << "SupplyLogic", "BorrowLogic", "LiquidationLogic", "EModeLogic",
                     "BridgeLogic", "ConfiguratorLogic", "FlashLoanLogic", "PoolLogic" >>
TokenImplementations == <<"AToken", "StableDebtToken", "VariableDebtToken">>

(* An implementation contract is initialized once; a second call reverts.  *)
Initialize(c) == Once(c, "initialized", "yes")
-----------------------------------------------------------------------------
(* 01_core, 02_periphery_pre                                               *)
MarketsRegistry ==
  Script("dLend:PoolAddressesProviderRegistry", {"dlend", "dlend-core"}, <<"ds", "dusd">>,
         << Plain(<<DeployOwned(Registry)>>) >>, "true")

DeployLogicLibraries ==
  Script("dLend:LogicLibraries", {"dlend", "dlend-core"}, <<>>,
         << Plain(DeployAll(LogicLibraries)) >>, "true")

Treasury ==
  Script("dLend:Treasury", {"dlend", "dlend-periphery-pre"}, <<>>,
         << Plain(DeployAll(<<"TreasuryProxy", "TreasuryController", "TreasuryImpl">>) \o
                  << Send(Initialize("TreasuryImpl")), Send(Initialize("TreasuryProxy")) >>) >>,
         "true")
-----------------------------------------------------------------------------
(* 03_market.  None of the dependencies on single scripts names a tag.     *)
Core == <<"dlend-core", "dlend-periphery-pre">>

SetupAddressesProvider ==
  Script("PoolAddressesProvider", {"dlend", "dlend-market"}, Core,
         << Plain(<< DeployOwned(Provider),
                     Send(Put(Provider, Owner, "marketId", "network")),
                     Get(Registry),
                     Send(OnlyOnce(Put(Registry, Owner, "provider", Provider))),
                     Deploy("PoolDataProvider", {}),
                     Unless({<<Provider, "dataProvider", "PoolDataProvider">>},
                            Send(Put(Provider, Owner, "dataProvider", "PoolDataProvider"))) >>) >>,
         "true")

L2PoolImplementation ==
  Script("dLend:L2PoolImplementations", {"dlend", "dlend-market"}, Core,
         << Plain(<<Get(Provider)>> \o GetAll(LogicLibraries) \o
                  << Deploy("CalldataLogic", {}), Deploy("PoolImpl", {}),
                     Send(Initialize("PoolImpl")) >>) >>, "true")

PoolConfigurator ==
  Script("dLend:PoolConfigurator", {"dlend", "dlend-market"}, Core,
         << Plain(<< Get(Provider), Get("ConfiguratorLogic"), Deploy("PoolConfigurator", {}),
                     Send(Initialize("PoolConfigurator")), DeployOwned(Helper) >>) >>, "true")

(* ACLManager makes the ACL admin of the provider its admin, and reverts   *)
(* without one; what was sent is checked at the end.                       *)
InitAcl ==
  Script("dLend:init_acl", {"dlend", "dlend-market"}, Core,
         << Plain(<< Get(Provider), Send(Put(Provider, Owner, "aclAdmin", Deployer)),
                     DeployRequiring({<<Provider, "aclAdmin", Deployer>>},
                                     Deploy(Acl, {<<Acl, Admin, Deployer>>})),
                     Send(Put(Provider, Owner, "aclManager", Acl)),
                     Send(Grant(Acl, PoolAdmin, Deployer)), Send(Grant(Acl, Emergency, Deployer)),
                     Expect(<<Acl, Admin, Deployer>>), Expect(<<Acl, PoolAdmin, Deployer>>),
                     Expect(<<Acl, Emergency, Deployer>>) >>) >>, "true")

DeployOracles ==
  Script("dLend:deploy_oracles", {"dlend", "dlend-market"}, Core,
         << Plain(<<Get(USDAggregator), Get(Provider), Deploy("PriceOracle", {})>>) >>, "true")

InitOracles ==
  Script("dLend:init_oracles", {"dlend", "dlend-market"}, Core,
         << Plain(<< Get(Provider), Get("PriceOracle"),
                     Unless({<<Provider, "priceOracle", "PriceOracle">>},
                            SendWait(Put(Provider, Owner, "priceOracle", "PriceOracle"))) >>) >>,
         "true")

(* The proxies are created once; their addresses are saved in every run.   *)
SetProxy(name, impl) ==
  << Unless({Proxied(name)},
            SendWait(Requiring({Deployed(impl)}, Put(Provider, Owner, name, "proxy")))),
     Deploy(name \o "Proxy", {}) >>
SetPremium(which) ==
  << Unless({<<Pool, which, "configured">>},
            SendWait(By(Acl, PoolAdmin, Put(Pool, "", which, "configured")))) >>

InitPool ==
  Script("dLend:init_pool", {"dlend", "dlend-market"}, Core,
         << Plain(<<Get("PoolImpl"), Get("PoolConfigurator"), Get(Provider)>>
                  \o SetProxy("POOL", "PoolImpl") \o SetProxy("POOL_CONFIGURATOR", "PoolConfigurator")
                  \o SetPremium("premiumTotal") \o SetPremium("premiumToProtocol")) >>, "true")

(* "already initialized" is caught, anything else thrown again.            *)
InitializeImplementation(c, send) == Unless({<<c, "initialized", "yes">>}, send)

DeployTokenImplementations ==
  Script("dLend:tokens_implementations", {"dlend", "dlend-market"}, Core,
         << Plain(<< Get(Provider), Deploy("AToken", {}),
                     InitializeImplementation("AToken", SendWait(Initialize("AToken"))),
                     Deploy("StableDebtToken", {}),
                     InitializeImplementation("StableDebtToken", Send(Initialize("StableDebtToken"))),
                     Deploy("VariableDebtToken", {}),
                     InitializeImplementation("VariableDebtToken",
                                              Send(Initialize("VariableDebtToken"))) >>) >>, "true")
-----------------------------------------------------------------------------
(* typescript/dlend/setup-reserves.ts.  Reserves that are not in the pool  *)
(* are initialized in chunks of three.  Every target reserve is configured *)
(* by the helper contract, which is a risk admin for that call only.       *)
Listed(s)     == <<Pool, s, "initialized">>
Configured(s) == <<Pool, s, "configured">>
InitChunks == 3
Chunks(symbols) ==
  [n \in 1..((Len(symbols) + InitChunks - 1) \div InitChunks) |->
     { symbols[k] : k \in {i \in 1..Len(symbols) : (i - 1) \div InitChunks = n - 1} }]

InitReserves(chunk) ==
  SendWait(By(Acl, PoolAdmin, Requiring({Proxied("POOL"), Proxied("POOL_CONFIGURATOR")},
    OnlyOnce(Call({}, {}, {}, {}, {Listed(s) : s \in chunk}, {})))))

ConfigureReserves(symbols) ==
  LET all == {symbols[n] : n \in 1..Len(symbols)}
  IN  SendWait(By(Helper, Owner, Requiring(
        {<<Acl, RiskAdmin, Helper>>} \cup {Listed(s) : s \in all},
        Call({}, {}, {}, {}, {Configured(s) : s \in all}, {}))))

SetupNewReserves(symbols) ==
  << Plain(<<Get(Provider), Get(Helper), Get("PoolDataProvider"), Get("TreasuryProxy")>>
           \o GetAll(TokenImplementations)
           \o ForEach(symbols, LAMBDA s : <<Unless({Listed(s)}, Get("ReserveStrategy"))>>)
           \o ForEach(Chunks(symbols), LAMBDA chunk :
                <<Unless({Listed(s) : s \in chunk}, InitReserves(chunk))>>)
           \o <<SendWait(Grant(Acl, RiskAdmin, Helper))>>),
     Protected(<<ConfigureReserves(symbols)>>),
     Plain(<<Send(Revoke(Acl, RiskAdmin, Helper)), Rethrow>>) >>
  \o ForEach(symbols, LAMBDA s :
       <<Try(<<When({Listed(s)}, Deploy(s \o "AToken", {}))>>)>>)

FirstReserves == <<"dUSD", "stS", "sfrxUSD", "dS">>

InitAllReserves ==
  Script("dLend:init_reserves", {"dlend", "dlend-market"}, Core,
         << Plain(<<Get(Provider), Deploy("ReserveStrategy", {})>>) >>
         \o SetupNewReserves(FirstReserves), "true")
-----------------------------------------------------------------------------
(* typescript/dlend/setup-oracle.ts.  An asset that has a feed is skipped, *)
(* with what follows for it; the permission is checked before a feed is    *)
(* added, the price after the aggregator was pointed to the wrapper.       *)
SetupFeed(w, agg, asset, threshold) ==
  Plain(<< When({<<w, asset, "feed">>}, Leave),
           Expect(<<w, OracleManager, Deployer>>),
           SetEntry(w, asset, "feed") >>
        \o (IF threshold THEN <<SetEntry(w, asset, "threshold")>> ELSE <<>>)
        \o << Send(Put(agg, OracleManager, asset, w)) >>
        \o PerformOracleSanityChecks(w, asset))

SetupRedstoneCompositeFeedsForAssets(assets, w, agg) ==
  ForEach(assets, LAMBDA a : <<SetupFeed(w, agg, a, FALSE)>>)
SetupRedstoneSimpleFeedsForAssets(assets, w, agg) ==
  ForEach(assets, LAMBDA a : <<SetupFeed(w, agg, a, TRUE)>>)
-----------------------------------------------------------------------------
(* 04_periphery_post                                                       *)
NativeTokenGateway ==
  Script("dLend:WrappedTokenGatewayV3", {"dlend", "dlend-periphery-post"}, Core,
         << Plain(<<Get("POOLProxy"), Deploy("WrappedTokenGatewayV3", {})>>) >>, "true")

WalletBalanceProvider ==
  Script("dLend:WalletBalanceProvider", {"dlend", "dlend-periphery-post"}, <<>>,
         << Plain(<<Deploy("WalletBalanceProvider", {})>>) >>, "true")

UiHelpers ==
  Script("dLend:UiPoolDataProviderV3", {"dlend", "dlend-periphery-post"},
         <<"PoolAddressesProvider", "deploy_oracles">>,
         << Plain(<<Get("PriceOracle")>> \o DeployAll(<<"UiIncentiveDataProvider", "UiPoolDataProvider">>)) >>, "true")

Incentives ==
  Script("dLend:Incentives", {"dlend", "dlend-periphery-post"}, Core \o <<"dlend-market">>,
         << Plain(<< Get(Provider), DeployOwned("EmissionManager"), Deploy("RewardsController", {}),
                     InitializeImplementation("RewardsController",
                                              Send(Initialize("RewardsController"))),
                     Unless({Proxied("INCENTIVES_CONTROLLER")},
                            SendWait(Put(Provider, Owner, "INCENTIVES_CONTROLLER", "proxy"))),
                     Expect(Proxied("INCENTIVES_CONTROLLER")), Deploy("IncentivesProxy", {}),
                     Send(Put("EmissionManager", Owner, "rewardsController", "IncentivesProxy")),
                     Deploy("PullRewardsTransferStrategy", {}) >>) >>, "true")

DLend ==
  << MarketsRegistry, DeployLogicLibraries, Treasury, SetupAddressesProvider, L2PoolImplementation,
     PoolConfigurator, InitAcl, DeployOracles, InitOracles, InitPool, DeployTokenImplementations,
     InitAllReserves, NativeTokenGateway, WalletBalanceProvider, UiHelpers, Incentives >>
=============================================================================
