-------------------------- MODULE DeployEcosystems --------------------------
(***************************************************************************)
(* deploy/01_ds_ecosystem and deploy/02_dusd_ecosystem: the token, the     *)
(* oracles and the dSTABLE contracts of the two stablecoins.  One asset    *)
(* stands for each table of the configuration, named for its kind of feed. *)
(***************************************************************************)
EXTENDS DeployScripts

OracleManager == "ORACLE_MANAGER_ROLE"
Withdrawer    == "COLLATERAL_WITHDRAWER_ROLE"
Minter        == "MINTER_ROLE"

(* The tables of feeds of a source: the wrapper that serves each, and the  *)
(* asset in it.                                                            *)
Table(w, asset, threshold) == [wrapper |-> w, asset |-> asset, threshold |-> threshold]
FeedTables(source, prefix) ==
  << Table(source \o "Wrapper", prefix \o "plain", FALSE),
     Table(source \o "WrapperWithThresholding", prefix \o "thresholded", TRUE),
     Table(source \o "CompositeWrapperWithThresholding", prefix \o "composite", FALSE) >>
Wrappers(tables) == [n \in 1..Len(tables) |-> tables[n].wrapper]

(* The roles a constructor gives to the deployer.                          *)
Held(c, roles) == {<<c, r, Deployer>> : r \in roles \cup {Admin}}

TokenRoles      == {"PAUSER_ROLE"}
VaultRoles      == {"COLLATERAL_MANAGER_ROLE", "COLLATERAL_STRATEGY_ROLE", Withdrawer}
AmoManagerRoles == {"AMO_ALLOCATOR_ROLE", "FEE_COLLECTOR_ROLE"}
IssuerRoles     == {"AMO_MANAGER_ROLE", "INCENTIVES_MANAGER_ROLE"}
RedeemerRoles   == {"REDEMPTION_MANAGER_ROLE"}

DeployWith(c, roles) == Deploy(c, Held(c, roles))
-----------------------------------------------------------------------------
(* The price of every configured asset is read back; it reverts while the  *)
(* feed is not set on chain.                                               *)
PerformOracleSanityChecks(w, asset) == <<Expect(<<w, asset, "feed">>)>>

SetEntry(w, asset, what) == Send(AddEntry(w, OracleManager, asset, what))

(* One wrapper per table: deploy, set the feeds, read the prices.          *)
SetupWrappers(tables) ==
  ForEach(tables, LAMBDA t :
    << DeployWith(t.wrapper, {OracleManager}), SetEntry(t.wrapper, t.asset, "feed") >>
    \o (IF t.threshold THEN <<SetEntry(t.wrapper, t.asset, "threshold")>> ELSE <<>>)
    \o PerformOracleSanityChecks(t.wrapper, t.asset))

(* The aggregator is pointed to the wrappers, where it is not already.     *)
PointTo(agg, asset, w) ==
  Unless({<<agg, asset, w>>}, SendWait(Put(agg, OracleManager, asset, w)))

PointToWrappers(agg, tables) ==
  <<Get(agg)>> \o ForEach(tables, LAMBDA t : <<Get(t.wrapper)>>)
               \o ForEach(tables, LAMBDA t : <<PointTo(agg, t.asset, t.wrapper)>>)

HardPegOracle(peg, agg, asset) ==
  << Deploy(peg, {<<peg, asset, "feed">>}), Get(agg), Get(peg),
     Send(Put(agg, OracleManager, asset, peg)) >>

\* A mutant: a collateral that is already supported is added again.
WhitelistCollateralAgain(vault, agg, asset, w) ==
  << Get(vault), Get(agg), Expect(<<agg, asset, w>>), Expect(<<w, asset, "feed">>),
     Send(OnlyOnce(AddEntry(vault, "COLLATERAL_MANAGER_ROLE", asset, "supported"))) >>

(* No collateral without a price; one already supported is skipped.        *)
WhitelistCollateral(vault, agg, asset, w) ==
  << Get(vault), Get(agg), Expect(<<agg, asset, w>>), Expect(<<w, asset, "feed">>),
     Unless({<<vault, asset, "supported">>},
            Send(OnlyOnce(AddEntry(vault, "COLLATERAL_MANAGER_ROLE", asset, "supported")))) >>
-----------------------------------------------------------------------------
(* 01_ds_ecosystem                                                         *)
SAggregator == "S_OracleAggregator"
SApi3     == FeedTables("S_API3", "api3 ")
SRedstone == FeedTables("S_Redstone", "")

DSToken == Script("dS", {"ds"}, <<>>, <<Plain(<<DeployWith("dS", TokenRoles)>>)>>, "true")

SetupSApi3OracleWrappers ==
  Script("setup-s-api3-oracle-wrappers", {"s-oracle", "s-api3-oracle-wrapper"}, <<>>,
         << Plain(SetupWrappers(SApi3)) >>, "true")

SetupSRedstoneOracleWrappers ==
  Script("setup-s-redstone-oracle-wrappers", {"s-oracle", "s-redstone-oracle-wrapper"}, <<>>,
         << Plain(SetupWrappers(SRedstone)) >>,
         "true")

DeploySOracleAggregator ==
  Script(SAggregator, {"s-oracle", "s-oracle-aggregator"}, <<>>,
         << Plain(<<DeployWith(SAggregator, {OracleManager})>>) >>, "true")

PointSAggregatorToApi3Wrappers ==
  Script("point-s-aggregator-to-api3-wrappers", {"s-oracle", "s-oracle-wrapper"},
         Wrappers(SApi3) \o <<SAggregator>>,
         << Plain(PointToWrappers(SAggregator, SApi3)) >>,
         "true")

PointSAggregatorToRedstoneWrappers ==
  Script("point-s-aggregator-to-redstone-wrappers", {"s-oracle", "s-redstone-wrapper"},
         Wrappers(SRedstone) \o <<SAggregator>>,
         << Plain(PointToWrappers(SAggregator, SRedstone)) >>, "true")

WSOracle ==
  Script("wS_HardPegOracleWrapper", {"ds"}, <<"s-oracle">>,
         << Plain(HardPegOracle("wS_HardPegOracleWrapper", SAggregator, "wS")) >>, "true")

DSOracle ==
  Script("dS_HardPegOracleWrapper", {"ds"}, <<"s-oracle">>,
         << Plain(HardPegOracle("dS_HardPegOracleWrapper", SAggregator, "dS")) >>, "true")

DSCollateralVault ==
  Script("dS_CollateralHolderVault", {"ds"}, <<"s-oracle">>,
         << Plain(<<Get(SAggregator), DeployWith("dS_CollateralHolderVault", VaultRoles)>>) >>, "true")

DSAmoManager ==
  Script("dS_AmoManager", {"ds"}, <<"dS", "dS_CollateralHolderVault", SAggregator>>,
         << Plain(<<Get("dS_CollateralHolderVault"), Get(SAggregator),
                    DeployWith("dS_AmoManager", AmoManagerRoles)>>) >>, "true")

DSIssuer ==
  Script("dS_Issuer", {"ds"}, <<"dS_CollateralHolderVault", "dS", "s-oracle", "dS_AmoManager">>,
         << Plain(<<Get(SAggregator), Get("dS_CollateralHolderVault"), Get("dS_AmoManager"),
                    DeployWith("dS_Issuer", IssuerRoles), Get("dS_Issuer"),
                    Send(Grant("dS", Minter, "dS_Issuer"))>>) >>, "true")

DSRedeemer ==
  Script("dS_Redeemer", {"ds"}, <<"dS_CollateralHolderVault", "dS", "s-oracle">>,
         << Plain(<<Get(SAggregator), Get("dS_CollateralHolderVault"),
                    DeployWith("dS_Redeemer", RedeemerRoles),
                    Send(Grant("dS_CollateralHolderVault", Withdrawer, "dS_Redeemer"))>>) >>, "true")

DSWhitelistCollateral ==
  Script("ds-whitelist-collateral", {"ds"},
         <<"ds-collateral-vault", "s-oracle", "wS_HardPegOracleWrapper">>,
         << Plain(WhitelistCollateral("dS_CollateralHolderVault", SAggregator, "wS",
                                      "wS_HardPegOracleWrapper")) >>, "true")
-----------------------------------------------------------------------------
(* 02_dusd_ecosystem                                                       *)
USDAggregator == "USD_OracleAggregator"
PlainWrapper     == "USD_RedstoneChainlinkWrapper"
ThresholdWrapper == "USD_RedstoneChainlinkWrapperWithThresholding"
CompositeWrapper == "USD_RedstoneChainlinkCompositeWrapperWithThresholding"
USDApi3     == FeedTables("USD_API3", "api3 ")
USDRedstone == << Table(PlainWrapper, "plain", FALSE), Table(ThresholdWrapper, "thresholded", TRUE),
                  Table(CompositeWrapper, "wstkscUSD", FALSE) >>

DUSDToken ==
  Script("dUSD", {"dusd", "token", "upgradeable"}, <<>>,
         << Plain(<<DeployWith("dUSD", TokenRoles)>>) >>, "true")

SetupUSDRedstoneOracleWrappers ==
  Script("setup-usd-redstone-oracle-wrappers", {"usd-oracle", "usd-redstone-oracle-wrapper"}, <<>>,
         << Plain(SetupWrappers(USDRedstone)) >>, "true")

SetupUSDApi3OracleWrappers ==
  Script("setup-usd-api3-oracle-wrappers", {"usd-oracle", "usd-api3-oracle-wrapper"}, <<"dS">>,
         << Plain(SetupWrappers(USDApi3)) >>, "true")

DeployUSDOracleAggregator ==
  Script("deploy-usd-oracle-aggregator", {"usd-oracle", "usd-oracle-aggregator"}, <<>>,
         << Plain(<<DeployWith(USDAggregator, {OracleManager})>>) >>, "true")

PointUSDAggregatorToApi3Wrappers ==
  Script("point-usd-aggregator-to-api3-wrappers", {"usd-oracle", "usd-oracle-wrapper"},
         Wrappers(USDApi3) \o <<USDAggregator>>,
         << Plain(PointToWrappers(USDAggregator, USDApi3)) >>, "true")

PointUSDAggregatorToRedstoneWrappers ==
  Script("point-usd-aggregator-to-redstone-wrappers", {"usd-oracle", "usd-redstone-wrapper"},
         Wrappers(USDRedstone) \o <<USDAggregator>>,
         << Plain(PointToWrappers(USDAggregator, USDRedstone)) >>, "true")

DUSDOracle ==
  Script("dUSD_HardPegOracleWrapper", {"dusd"}, <<"usd-oracle">>,
         << Plain(HardPegOracle("dUSD_HardPegOracleWrapper", USDAggregator, "dUSD")) >>, "true")

DUSDCollateralVault ==
  Script("dUSD_CollateralHolderVault", {"dusd"}, <<"usd-oracle">>,
         << Plain(<<Get(USDAggregator), DeployWith("dUSD_CollateralHolderVault", VaultRoles)>>) >>,
         "true")

DUSDAmoManager ==
  Script("dUSD_AmoManager", {"dusd"}, <<"dUSD", "dUSD_CollateralHolderVault">>,
         << Plain(<<Get("dUSD_CollateralHolderVault"), Get(USDAggregator),
                    DeployWith("dUSD_AmoManager", AmoManagerRoles)>>) >>, "true")

DUSDIssuer ==
  Script("dUSD_Issuer", {"dusd"},
         <<"dUSD_CollateralHolderVault", "dUSD", "usd-oracle", "dUSD_AmoManager">>,
         << Plain(<<Get(USDAggregator), Get("dUSD_CollateralHolderVault"), Get("dUSD_AmoManager"),
                    DeployWith("dUSD_Issuer", IssuerRoles), Get("dUSD_Issuer"),
                    Send(Grant("dUSD", Minter, "dUSD_Issuer"))>>) >>, "true")

DUSDRedeemer ==
  Script("dUSD_Redeemer", {"dusd"}, <<"dUSD_CollateralHolderVault", "dUSD", "usd-oracle">>,
         << Plain(<<Get(USDAggregator), Get("dUSD_CollateralHolderVault"),
                    DeployWith("dUSD_Redeemer", RedeemerRoles),
                    Send(Grant("dUSD_CollateralHolderVault", Withdrawer, "dUSD_Redeemer"))>>) >>,
         "true")

DUSDWhitelistCollateral ==
  Script("dusd-whitelist-collateral", {"dusd"}, <<"dusd-collateral-vault", "usd-oracle">>,
         << Plain(WhitelistCollateral("dUSD_CollateralHolderVault", USDAggregator, "thresholded",
                                      ThresholdWrapper)) >>, "true")

(* The base currency (USD) is priced by the hard peg of dUSD.              *)
PointUSDOracleAggregatorForUSD ==
  Script("point-usd-oracle-aggregator-for-usd", {"dusd"},
         <<"dUSD_HardPegOracleWrapper", USDAggregator>>,
         << Plain(<<Get(USDAggregator), Get("dUSD_HardPegOracleWrapper"),
                    Send(Put(USDAggregator, OracleManager, "USD", "dUSD_HardPegOracleWrapper"))>>) >>,
         "true")
-----------------------------------------------------------------------------
DSEcosystem ==
  << DSToken, SetupSApi3OracleWrappers, SetupSRedstoneOracleWrappers, DeploySOracleAggregator,
     PointSAggregatorToApi3Wrappers, PointSAggregatorToRedstoneWrappers, WSOracle, DSOracle,
     DSCollateralVault, DSAmoManager, DSIssuer, DSRedeemer, DSWhitelistCollateral >>

DUSDEcosystem ==
  << DUSDToken, SetupUSDRedstoneOracleWrappers, SetupUSDApi3OracleWrappers,
     DeployUSDOracleAggregator, PointUSDAggregatorToApi3Wrappers,
     PointUSDAggregatorToRedstoneWrappers, DUSDOracle, DUSDCollateralVault, DUSDAmoManager,
     DUSDIssuer, DUSDRedeemer, DUSDWhitelistCollateral, PointUSDOracleAggregatorForUSD >>
=============================================================================
