------------------------------ MODULE DeployV2 ------------------------------
(***************************************************************************)
(* The second versions of the dSTABLE contracts: deploy/15_issue_redeem_v2,*)
(* 18_amo_manager_v2_and_debt, 18_native_minting_gateways and              *)
(* 19_pause_key_operations_trevee_unwind.  What the deployer may not do    *)
(* itself is queued for the governance Safe (GovernanceExecutor).  Most    *)
(* dependencies of these scripts are ids of deployments, which are no tags *)
(* and are left out.                                                       *)
(***************************************************************************)
EXTENDS DeployRoles

Aggregator(d) == IF d = "dUSD" THEN USDAggregator ELSE SAggregator
Vault(d)      == d \o "_CollateralHolderVault"
HardPeg(d)    == d \o "_HardPegOracleWrapper"

-----------------------------------------------------------------------------
(* 15_issue_redeem_v2                                                      *)
IssuerV2Roles   == <<"AMO_MANAGER_ROLE", "INCENTIVES_MANAGER_ROLE", "PAUSER_ROLE">>
RedeemerV2Roles == <<"REDEMPTION_MANAGER_ROLE", "PAUSER_ROLE">>


EnsureMinterRole(d, grantee) == QueueGrant(d, Minter, grantee)

SetupIssuerV2 ==
  Script("1_setup_issuerv2", {"setup-issuerv2"}, <<>>,
         ForEach(DStables, LAMBDA d : <<Plain(
           GetAll(<<d, Vault(d), d \o "_AmoManager", Aggregator(d)>>)
           \o << DeployWith(d \o "_IssuerV2", ToSet(IssuerV2Roles)),
                 EnsureMinterRole(d, d \o "_IssuerV2") >>
           \o MigrateRoles(d \o "_IssuerV2", <<Admin>> \o IssuerV2Roles))>>), "complete")

(* The ids are those of the script, not those of deploy-ids.ts.            *)
RedeemerV2Id(d) == IF d = "dUSD" THEN "RedeemerV2_DUSD" ELSE "RedeemerV2_DS"
LegacyRedeemers(d) == <<d \o "_Redeemer", d \o "_RedeemerWithFees">>

SetupRedeemerV2 ==
  Script("2_setup_redeemerv2", {"setup-redeemerv2"}, <<>>,
         ForEach(DStables, LAMBDA d : <<Plain(
           GetAll(<<d, Vault(d), Aggregator(d)>>)
           \o << DeployWith(RedeemerV2Id(d), ToSet(RedeemerV2Roles)),
                 QueueGrant(Vault(d), Withdrawer, RedeemerV2Id(d)) >>
           \o ForEach(LegacyRedeemers(d), LAMBDA old :
                <<When({Deployed(old)}, QueueRevoke(Vault(d), Withdrawer, old))>>)
           \o MigrateRoles(RedeemerV2Id(d), <<Admin>> \o RedeemerV2Roles))>>), "complete")
-----------------------------------------------------------------------------
(* 18_amo_manager_v2_and_debt                                              *)
DebtToken(d)    == d \o "_AmoDebtToken"
AmoManagerV2(d) == d \o "_AmoManagerV2"

(* Without the role, or when the call fails, the oracle is left as it is.  *)
PointDebtToken(d) ==
  When({<<Aggregator(d), OracleManager, Deployer>>}, PointTo(Aggregator(d), DebtToken(d), HardPeg(d)))

(* The function returns nothing, so its execution is never recorded.       *)
DeployAmoManagerV2AndDebt ==
  Script("01_deploy_amo_manager_v2_and_debt", {"amo-debt-system", "amo-manager-v2"}, <<>>,
         ForEach(DStables, LAMBDA d :
           << Plain(GetAll(<<d, Aggregator(d), Vault(d)>>) \o <<DeployWith(DebtToken(d), {})>>),
              Try(<<Get(HardPeg(d)), PointDebtToken(d)>>),
              Plain(<<Deploy(AmoManagerV2(d), Held(AmoManagerV2(d), {})
                                        \cup {<<AmoManagerV2(d), "collateralVault", Vault(d)>>})>>) >>),
         "nothing")

SetupDebtTokenOracle ==
  Script("AmoDebtTokenOracleSetup", {"amo-v2"}, <<>>,
         ForEach(DStables, LAMBDA d :
           << Plain(<< Unless({Deployed(HardPeg(d))}, Leave), Get(Aggregator(d)), Get(DebtToken(d)) >>),
              Try(<<When({Deployed(HardPeg(d))}, PointDebtToken(d))>>) >>), "true")

QueueSet(c, role, key, val) == Unless({<<c, key, val>>}, Queue(AddEntry(c, role, key, val)))

(* The vault supports a collateral only once the oracle prices it.         *)
ConfigureAmo(d) ==
  GetAll(<<d, Aggregator(d), Vault(d), AmoManagerV2(d), DebtToken(d)>>)
  \o << QueueGrant(DebtToken(d), "AMO_MANAGER_ROLE", AmoManagerV2(d)),
        QueueGrant(d, Minter, AmoManagerV2(d)),
        QueueGrant(Vault(d), Withdrawer, AmoManagerV2(d)),
        QueueSet(DebtToken(d), Admin, Vault(d), "allowlisted"),
        QueueSet(DebtToken(d), Admin, AmoManagerV2(d), "allowlisted"),
        Unless({<<AmoManagerV2(d), "collateralVault", Vault(d)>>},
               Queue(Put(AmoManagerV2(d), Admin, "collateralVault", Vault(d)))),
        QueueSet(AmoManagerV2(d), Admin, Gov, "wallet allowed"),
        Unless({<<Vault(d), DebtToken(d), "supported">>},
               Queue(Requiring({<<Aggregator(d), DebtToken(d), HardPeg(d)>>},
                 OnlyOnce(AddEntry(Vault(d), "COLLATERAL_MANAGER_ROLE", DebtToken(d), "supported"))))) >>

ConfigureAmoSystem ==
  Script("02_configure_amo_system", {"amo-debt-system", "amo-configuration"}, <<>>,
         ForEach(DStables, LAMBDA d : <<Plain(ConfigureAmo(d))>>), "complete")

(* Its only dependency is the id of ConfigureAmoSystem, which is no tag.   *)
MigrateRolesToGovernance ==
  Script("03_migrate_roles_to_governance", {"amo-debt-system", "governance-migration"},
         <<"02_configure_amo_system">>,
         ForEach(DStables, LAMBDA d :
           <<Plain(<<Get(DebtToken(d))>> \o MigrateRoles(DebtToken(d), <<Admin, "AMO_MANAGER_ROLE">>))>>)
         \o ForEach(DStables, LAMBDA d :
           <<Plain(<<Get(AmoManagerV2(d))>>
                   \o MigrateRoles(AmoManagerV2(d), <<Admin, "AMO_INCREASE_ROLE", "AMO_DECREASE_ROLE">>))>>),
         "complete")
-----------------------------------------------------------------------------
(* 18_native_minting_gateways, with the mainnet configuration: addresses   *)
(* of contracts that are not deployed are empty, and the gateway skipped.  *)
Gateway == "wSDSGateway"
GatewayNeeds == <<"dS_IssuerV2", "dS_RedeemerV2", "dS">>

DeployNativeMintingGateways ==
  Script("deploy_native_minting_gateways", {"native-minting-gateways", "gateways"},
         <<"ds", "setup-issuerv2", "setup-redeemerv2">>,
         << Try(ForEach(GatewayNeeds, LAMBDA id : <<Unless({Deployed(id)}, Leave)>>)
                \o <<Deploy(Gateway, {<<Gateway, Owner, Gov>>})>>) >>, "true")
-----------------------------------------------------------------------------
(* 19_pause_key_operations_trevee_unwind.  One collateral stands for those *)
(* of dUSD; the reserves are dUSD and dS.                                  *)
IssuerToPause   == "dUSD_IssuerV2"
RedeemerToPause == "dUSD_RedeemerV2"

ZeroBorrow(s) ==
  Unless({<<s, "strategy", "zeroBorrow">>},
         QueueWait(By(Acl, PoolAdmin, Put(s, "", "strategy", "zeroBorrow"))))
Pause(c, key) == Unless({<<c, key, "paused">>}, QueueWait(Put(c, "PAUSER_ROLE", key, "paused")))

PauseTreveeOperations ==
  AtEnd(Script("pause-key-operations-trevee-unwind", {"trevee-unwind", "pause-key-operations"}, <<>>,
         << Plain(<<Get(Provider), Deploy("ReserveStrategy-zeroBorrow", {})>>
                  \o ForEach(DStables, LAMBDA d : <<ZeroBorrow(d)>>)
                  \o << Get(IssuerToPause), Get(RedeemerToPause),
                        When({<<Vault("dUSD"), "collateral", "supported">>}, Pause(IssuerToPause, "collateral")),
                        When({<<Vault("dUSD"), "collateral", "supported">>}, Pause(RedeemerToPause, "collateral")),
                        Pause(IssuerToPause, "all"), Pause(RedeemerToPause, "all") >>) >>, "strict"))
=============================================================================
