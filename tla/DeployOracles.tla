---------------------------- MODULE DeployOracles ----------------------------
(***************************************************************************)
(* The scripts that change the USD prices of a running system:             *)
(* deploy/16_safe_rate_provider_wrappers, 17, 18_oracle_migrations and     *)
(* 19_usd_oracle_updates.  The feed the configuration names for an asset   *)
(* is "feed", the one it replaces "old feed".                              *)
(***************************************************************************)
EXTENDS DeployRoles

SafeRateWrapper    == "USD_ChainlinkSafeRateProviderCompositeWrapperWithThresholding"
SafeRateUSDWrapper == "USD_ChainlinkSafeRateProviderCompositeWrapperWithUSDThresholding"

(* Prices computed from the sources of an asset: throws unless all of them *)
(* answer with a positive price.                                           *)
BuildPriceDiagnostics(asset) == <<Expect(<<asset, "sources", "alive">>)>>

(* A new wrapper is given its feed on every run, then handed over.         *)
DeploySafeRateWrapper(w, asset) ==
  <<DeployWith(w, {OracleManager})>> \o BuildPriceDiagnostics(asset)
  \o <<Queue(Put(w, OracleManager, asset, "feed"))>>
  \o MigrateRoles(w, <<OracleManager>>)

(* The aggregator is flipped from one wrapper to another that has the      *)
(* configured feed, while the present price is alive.                      *)
VerifyCompositeFeedReadiness(w, asset) == <<Expect(<<w, asset, "feed">>)>>
ExecuteOracleFlip(asset, from, to) ==
  LET flipped == {<<USDAggregator, asset, to>>}
  IN  << Get(to), Get(USDAggregator) >> \o VerifyCompositeFeedReadiness(to, asset)
      \o << Unless(flipped, Expect(<<USDAggregator, asset, from>>)),
            Unless(flipped, Expect(<<from, asset, "feed">>)),
            Unless(flipped, Queue(Put(USDAggregator, OracleManager, asset, to))) >>
-----------------------------------------------------------------------------
(* 16_safe_rate_provider_wrappers: skipped on mainnet                      *)
DeployChainlinkSafeRateProviderCompositeWrapper ==
  Script("deploy-chainlink-safe-rate-provider-composite-wrapper", {"usd-oracle"}, <<>>,
         << Plain(DeploySafeRateWrapper(SafeRateWrapper, "wstkscUSD")) >>, "complete")

QueueChainlinkSafeRateProviderOracleUpdates ==
  Script("queue-chainlink-safe-rate-provider-oracle-updates", {"usd-oracle", "oracle-flip"}, <<>>,
         << Plain(ExecuteOracleFlip("wstkscUSD", CompositeWrapper, SafeRateWrapper)) >>, "complete")

(* 17_deploy_chainlink_upscale_sfrxusd                                     *)
DeployUpscaleOracle ==
  Script("ChainlinkDecimalUpscaler_sfrxUSD", {"sfrxusd", "oracle"}, <<>>,
         << Plain(BuildPriceDiagnostics("sfrxUSD") \o <<Deploy("ChainlinkDecimalUpscaler_sfrxUSD", {})>>) >>,
         "true")
-----------------------------------------------------------------------------
(* 18_oracle_migrations.  Stage 1 is recorded while its batch waits.       *)
SetFeed(w, asset) ==
  << Unless({<<w, asset, "feed">>}, QueueWait(Put(w, OracleManager, asset, "feed"))),
     When({<<w, asset, "feed">>}, Expect(<<w, asset, "feed">>)) >>

UpdateSChainlinkFeeds ==
  AtEnd(Script("update-s-chainlink-feeds", {"usd-oracle", "s-feed-stage1"}, <<>>,
               << Plain(<<Get(PlainWrapper), Get(CompositeWrapper)>>
                        \o ForEach(<<"wS", "dS">>, LAMBDA a : SetFeed(PlainWrapper, a))
                        \o SetFeed(CompositeWrapper, "stS")) >>, "true"))

SwitchOracle(w, asset) ==
  << Expect(<<w, asset, "feed">>),
     Unless({<<USDAggregator, asset, w>>}, QueueWait(Put(USDAggregator, OracleManager, asset, w))) >>

SwitchSChainlinkOracles ==
  AtEnd(Script("switch-s-chainlink-oracles", {"usd-oracle", "s-feed-stage2"}, <<>>,
               << Plain(<<Get(PlainWrapper), Get(CompositeWrapper), Get(USDAggregator)>>
                        \o ForEach(<<"wS", "dS">>, LAMBDA a : SwitchOracle(PlainWrapper, a))
                        \o SwitchOracle(CompositeWrapper, "stS")) >>, "true"))
-----------------------------------------------------------------------------
(* 19_usd_oracle_updates                                                   *)
DeployWstkscETHUSDOracle ==
  Script("deploy-wstksceth-usd-oracle", {"usd-oracle"}, <<>>,
         << Plain(DeploySafeRateWrapper(SafeRateUSDWrapper, "wstkscETH")) >>, "complete")

(* The old composite feed is removed before the new one is added.          *)
RemoveFeed(w, asset) ==
  When({<<w, asset, "old feed">>},
       QueueWait(Call({<<w, OracleManager>>}, {}, {}, {<<w, asset>>}, {}, {})))

UpdatePTwstkscUSDFeed ==
  Script("update-ptwstkscusd-usd-feed", {"usd-oracle"}, <<>>,
         << Plain(<<Get(CompositeWrapper), When({<<CompositeWrapper, "PTwstkscUSD", "feed">>}, Return("true"))>>
                  \o BuildPriceDiagnostics("PTwstkscUSD")
                  \o << RemoveFeed(CompositeWrapper, "PTwstkscUSD"),
                        QueueWait(Put(CompositeWrapper, OracleManager, "PTwstkscUSD", "feed")) >>) >>,
         "complete")

UpdateScETHFeed ==
  Script("update-sceth-usd-feed", {"usd-oracle"}, <<>>,
         << Plain(<<Get(ThresholdWrapper), When({<<ThresholdWrapper, "scETH", "feed">>}, Return("true"))>>
                  \o BuildPriceDiagnostics("scETH")
                  \o << QueueWait(Put(ThresholdWrapper, OracleManager, "scETH", "feed")) >>) >>,
         "complete")

QueueWstkscETHOracleFlip ==
  Script("queue-wstksceth-usd-oracle-flip", {"usd-oracle", "oracle-flip"}, <<>>,
         << Plain(ExecuteOracleFlip("wstkscETH", CompositeWrapper, SafeRateUSDWrapper)) >>, "complete")
=============================================================================
