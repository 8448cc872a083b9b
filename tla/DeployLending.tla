---------------------------- MODULE DeployLending ----------------------------
(***************************************************************************)
(* What was added to the lending market after its launch: swap adapters    *)
(* (deploy/05, 16_dlend_odos_adapters_v2), wrapped tokens (07), and new    *)
(* reserves with their price feeds (06, 13, 14).  Addresses, thresholds    *)
(* and routers are configuration and always present.                       *)
(***************************************************************************)
EXTENDS DeployDLend

USDOracleTags == {"usd-oracle", "oracle-aggregator", "oracle-wrapper"}

(* A feed contract deployed once, after its source was asked how many      *)
(* decimals it has.                                                        *)
DecimalConverter(id, source) ==
  << Expect(<<source, "decimals", "18">>), Deploy(id, {}) >>
-----------------------------------------------------------------------------
(* 05_dlend_odos_adapters, 16_dlend_odos_adapters_v2                       *)
SwapAdapters(id, adapters) ==
  Script(id, {"dlend", "dlend-periphery"}, <<>>,
         << Plain(GetAll(<<Provider, "POOLProxy">>) \o DeployAll(adapters)) >>, "true")

OdosAdapters ==
  SwapAdapters("dLend:OdosAdapters",
    << "OdosLiquiditySwapAdapter", "OdosDebtSwapAdapter", "OdosRepayAdapter",
       "OdosWithdrawSwapAdapter" >>)
OdosAdaptersV2 ==
  SwapAdapters("dLend:OdosAdaptersV2",
    << "OdosLiquiditySwapAdapterV2", "OdosRepayAdapterV2", "OdosWithdrawSwapAdapterV2",
       "OdosDebtSwapAdapterV2" >>)
-----------------------------------------------------------------------------
(* 06_dlend_wstkscusd_reserve.  The price is read before the feed is added *)
(* and reverts without it: the script goes on only where the feed is set,  *)
(* and there it has returned already.                                      *)
SetupWstkscUSDFeed ==
  LET feed == <<CompositeWrapper, "wstkscUSD", "feed">>
  IN  Script("setup-wstkscusd-for-usd-redstone-composite-oracle-wrapper", USDOracleTags, <<>>,
        << Plain(<< Get(USDAggregator), Get(CompositeWrapper), When({feed}, Return("true")) >>
                 \o PerformOracleSanityChecks(CompositeWrapper, "wstkscUSD")
                 \o << SetEntry(CompositeWrapper, "wstkscUSD", "feed"),
                       Send(Put(USDAggregator, OracleManager, "wstkscUSD", CompositeWrapper)) >>) >>,
        "true")

AddReserves(id, symbols) ==
  Script(id, {"dlend", "dlend-market", "dlend-reserves"}, <<>>, SetupNewReserves(symbols), "true")

AddWstkscUSDReserve == AddReserves("add-wstkscUSD-reserve", <<"wstkscUSD">>)

WstkscUSDConverter ==
  Script("ChainlinkDecimalConverter_wstkscUSD", {"wstkscusd", "oracle", "chainlink"}, <<>>,
         << Plain(DecimalConverter("ChainlinkDecimalConverter_wstkscUSD", "wstkscUSD feed")) >>, "true")
-----------------------------------------------------------------------------
(* 07_dlend_static_wrappers.  The wrapped tokens are created only by the   *)
(* run that deploys the factory, for the reserves of the pool, in chunks.  *)
Factory == "dLend_StaticATokenFactory"
ATokenWrapper(d) == "dLend_ATokenWrapper_" \o d
Wrapped(s) == <<Factory, s, "wrapped">>

StaticATokenFactory ==
  Script(Factory, {"dlend-static-wrapper-factory"}, <<"dlend-pool-init">>,
         << Plain(<< Get("POOLProxy"), When({Deployed(Factory)}, Return("true")),
                     Deploy(Factory, {}) >>
                  \o ForEach(Chunks(FirstReserves), LAMBDA chunk :
                       <<When({Listed(s) : s \in chunk},
                              SendWait(Call({}, {}, {}, {}, {Wrapped(s) : s \in chunk}, {})))>>)) >>,
         "true")

(* Without the pool or a reserve the function returns nothing.             *)
DStableATokenWrappers ==
  Script("dStableATokenWrappers", {"dUSD-aTokenWrapper", "dS-aTokenWrapper"},
         <<"dlend-static-wrapper-factory">>,
         << Plain(<<Unless({Deployed(Provider)}, Return("nothing"))>>
                  \o ForEach(DStables, LAMBDA d : <<Unless({Listed(d)}, Return("nothing"))>>)
                  \o ForEach(DStables, LAMBDA d : <<Deploy(ATokenWrapper(d), {})>>)) >>, "true")
-----------------------------------------------------------------------------
(* 13_dlend_weth_sceth_wstksceth_reserves                                  *)
WstkscETHConverter ==
  Script("ChainlinkDecimalConverter_wstkscETH", {"wstksceth", "oracle", "chainlink"}, <<>>,
         << Plain(DecimalConverter("ChainlinkDecimalConverter_wstkscETH", "wstkscETH feed")) >>, "true")

SetupEthFeeds ==
  Script("setup-weth-sceth-wstksceth-for-usd-oracle-wrapper", USDOracleTags, <<>>,
         << Plain(<<Get(USDAggregator), Get(CompositeWrapper)>>) >>
         \o SetupRedstoneCompositeFeedsForAssets(<<"wstkscETH">>, CompositeWrapper, USDAggregator)
         \o << Plain(<<Get(ThresholdWrapper)>>) >>
         \o SetupRedstoneSimpleFeedsForAssets(<<"WETH", "scETH">>, ThresholdWrapper, USDAggregator),
         "true")

EthReserves == <<"WETH", "scETH", "wstkscETH">>
AddEthReserves == AddReserves("add-weth-sceth-wstksceth-reserves", EthReserves)
-----------------------------------------------------------------------------
(* 14_dlend_wOS_PTaUSDC_PTwstkscusd                                        *)
PTTokens == <<"PTaUSDC", "PTwstkscUSD">>
PendleFactory == "PendleChainlinkOracleFactory"
PTOracle(pt)  == pt \o "_PT_TO_ASSET_PendleChainlinkOracle"
HasCardinality(pt) == <<pt, "cardinality", "enough">>

(* The oracle of a token is made by the factory (external: it makes one    *)
(* per market, duration and type, a second call reverts) and then written  *)
(* to the deployments, where the next run looks for it.                    *)
CreatePTOracle(pt) ==
  << When({Deployed(PTOracle(pt))}, Leave),
     Unless({HasCardinality(pt)}, Send(Call({}, {}, {}, {}, {HasCardinality(pt)}, {}))),
     SendWait(Once(PTOracle(pt), "made", "yes")),
     Deploy(PTOracle(pt), {}) >>

PendleChainlinkOracles ==
  Script("PendleChainlinkOracles:PT-aUSDC:PT-wstkscUSD", {"pendle", "pendle-pt-oracles"}, <<>>,
         << Plain(<<Deploy(PendleFactory, {})>>) >>
         \o ForEach(PTTokens, LAMBDA pt : <<Plain(CreatePTOracle(pt))>>), "true")

(* A token without an oracle is passed over: the dependency is no tag.     *)
PendleDecimalConverters ==
  Script("PendleDecimalConverters:PT-aUSDC:PT-wstkscUSD", {"pendle", "pendle-decimal-converters"}, <<>>,
         ForEach(PTTokens, LAMBDA pt : <<Plain(<<
           Unless({Deployed(PTOracle(pt))}, Leave), Deploy(pt \o "_DecimalConverter", {}) >>)>>),
         "true")

OSWOSDecimalConverters ==
  Script("OSWOSDecimalConverters", {"oracle", "decimal-converters", "os-wos"}, <<>>,
         ForEach(<<"OS_to_S", "wOS_to_OS">>, LAMBDA f :
           <<Plain(<<When({Deployed(f)}, Leave)>> \o DecimalConverter(f, f \o " feed"))>>), "true")

(* What a deployment throws is caught, and false returned.                 *)
ChainlinkCompositeAggregators ==
  Script("ChainlinkCompositeAggregator_OS_S_USD", {"oracle", "chainlink-composite-aggregator"}, <<>>,
         << Try(<< Deploy("ChainlinkCompositeAggregator_wOS", {}), Return("true") >>) >>, "false")

SetupPTFeeds ==
  Script("setup-ptausdc-ptwstkscusd-wos-for-usd-oracle-wrapper", USDOracleTags, <<>>,
         << Plain(<<Get(USDAggregator), Get(CompositeWrapper)>>) >>
         \o SetupRedstoneCompositeFeedsForAssets(PTTokens \o <<"wOS">>, CompositeWrapper, USDAggregator),
         "true")

PTReserves == PTTokens \o <<"wOS">>
AddPTReserves == AddReserves("add-ptausdc-ptwstkscusd-wos-reserves", PTReserves)
-----------------------------------------------------------------------------
LaterLending ==
  << OdosAdapters, SetupWstkscUSDFeed, AddWstkscUSDReserve, WstkscUSDConverter,
     StaticATokenFactory, DStableATokenWrappers, WstkscETHConverter, SetupEthFeeds,
     AddEthReserves, PendleChainlinkOracles, PendleDecimalConverters, OSWOSDecimalConverters,
     ChainlinkCompositeAggregators, SetupPTFeeds, AddPTReserves, OdosAdaptersV2 >>
=============================================================================
