---------------------------- MODULE DeployVaults ----------------------------
(***************************************************************************)
(* deploy/08_dstake to 12_dloop: the vaults, their configuration, and the  *)
(* transfer of the roles of some of them; and the redeemers with fees.     *)
(***************************************************************************)
EXTENDS DeployLending

(* 08, 10.  The functions of 08/01 to 04 return nothing, so their          *)
(* executions are never recorded: what they did is recognized on chain, or *)
(* done again.                                                             *)

(* An instance of the configuration stakes one stablecoin.                 *)
Instances   == <<"sdUSD">>
DStable(i)  == IF i = "sdUSD" THEN "dUSD" ELSE "dS"
Token(i)    == "DStakeToken_" \o i
StakeVault(i) == "DStakeCollateralVault_" \o i
Router(i)   == "DStakeRouter_" \o i
Adapter(i)  == "WrappedDLendConversionAdapter_" \o i
Implementation(c) == c \o "_Implementation"
FeeManager  == "FEE_MANAGER_ROLE"
RewardsManager == "REWARDS_MANAGER_ROLE"
-----------------------------------------------------------------------------
(* 01.  Nothing is deployed for an instance of which some contract exists; *)
(* the script is skipped when all exist.                                   *)
DeployDStakeCore ==
  Script("deploy_dstake_core", {"dStakeCore", "dStake"},
         <<"dUSD-aTokenWrapper", "dS-aTokenWrapper">>,
         << Plain(<<When(UNION { {Deployed(Token(i)), Deployed(Implementation(Token(i))),
                                  Deployed(StakeVault(i)), Deployed(Router(i))}
                                 : i \in {Instances[n] : n \in DOMAIN Instances} },
                         Return("skipped"))>>) >>
         \o ForEach(Instances, LAMBDA i : <<Plain(
              ForEach(<<Implementation(Token(i)), StakeVault(i), Router(i)>>,
                      LAMBDA c : <<When({Deployed(c)}, Leave)>>)
              \o << Deploy(Implementation(Token(i)), {}), DeployWith(Token(i), {FeeManager}),
                    DeployWith(StakeVault(i), {}), DeployWith(Router(i), {}) >>)>>), "nothing")

DeployDStakeAdapters ==
  Script("deploy_dstake_adapters", {"dStakeAdapters", "dStake"},
         <<"dStakeCore", "dUSD-aTokenWrapper", "dS-aTokenWrapper">>,
         ForEach(Instances, LAMBDA i : <<Plain(<<
           Unless({Deployed(StakeVault(i))}, Leave), Deploy(Adapter(i), {}) >>)>>), "nothing")
-----------------------------------------------------------------------------
(* 03.  The vault gives its router a role; addAdapter asks the vault to    *)
(* support the asset and goes on when the vault refuses.                   *)
RouterRole(i)  == <<StakeVault(i), "ROUTER_ROLE", Router(i)>>
HasAdapter(i)  == <<Router(i), "adapter", Adapter(i)>>
Supported(i)   == <<StakeVault(i), "supported", DStable(i)>>
AddAdapter(i)  ==
  Trying({RouterRole(i)}, {Supported(i)}, AddEntry(Router(i), Admin, "adapter", Adapter(i)))
Setting(c, role, key, val) == Unless({<<c, key, val>>}, Send(Put(c, role, key, val)))

SetRouter(i) ==
  Unless({RouterRole(i), <<StakeVault(i), "router", Router(i)>>},
         Send([Put(StakeVault(i), Admin, "router", Router(i)) EXCEPT
                 !.clear = @ \cup {<<StakeVault(i), "ROUTER_ROLE">>},
                 !.add   = @ \cup {RouterRole(i)}]))

ConfigureInstance(i) ==
  GetAll(<<StakeVault(i), Router(i), Token(i)>>)
  \o << Setting(Token(i), Admin, "router", Router(i)),
        Setting(Token(i), Admin, "collateralVault", StakeVault(i)),
        Setting(Token(i), FeeManager, "withdrawalFee", "initial"),
        SetRouter(i),
        Get(Adapter(i)), Unless({HasAdapter(i)}, Send(AddAdapter(i))),
        Unless({<<Router(i), "COLLATERAL_EXCHANGER_ROLE", Gov>>},
               Send(Grant(Router(i), "COLLATERAL_EXCHANGER_ROLE", Gov))),
        Get(Adapter(i)), Unless({HasAdapter(i)}, Send(AddAdapter(i))),
        Unless({<<Router(i), "default", DStable(i)>>},
               Send(Requiring({HasAdapter(i)}, Put(Router(i), Admin, "default", DStable(i))))) >>

ConfigureDStake ==
  AtEnd(Script("configure_dstake", {"dStakeConfigure", "dStake"}, <<"dStakeCore", "dStakeAdapters">>,
               ForEach(Instances, LAMBDA i : <<Plain(ConfigureInstance(i))>>), "nothing"))
-----------------------------------------------------------------------------
(* 04.  Without the ownership of the EmissionManager, or of the roles of   *)
(* the manager, the steps are printed for somebody else to do.             *)
Manager(i)  == "DStakeRewardManagerDLend_" \o i
Emission    == "EmissionManager"
Pointed     == <<Emission, "rewardsController", "IncentivesProxy">>
Claimer(i)  == <<"IncentivesProxy", ATokenWrapper(DStable(i)), Manager(i)>>
IfOwner(step)    == When({<<Emission, Owner, Deployer>>}, step)
IfAdmin(c, step) == When({<<c, Admin, Deployer>>}, step)

EnsureIncentivesProxyAddress ==
  << Unless({Deployed("IncentivesProxy")}, Get(Provider)),
     Unless({Deployed("IncentivesProxy")}, Expect(Proxied("INCENTIVES_CONTROLLER"))),
     Deploy("IncentivesProxy", {}) >>

(* The roles of the manager go to the accounts of the configuration.       *)
SetUpRewards(i) ==
  GetAll(<<StakeVault(i), Router(i), "PoolDataProvider">>)
  \o << Unless({Listed(DStable(i))}, Leave),
        DeployWith(Manager(i), {RewardsManager}), Get(Emission),
        IfOwner(Unless({Pointed}, SendWait(Put(Emission, Owner, "rewardsController", "IncentivesProxy")))),
        Unless({Pointed}, Leave),
        IfOwner(SendWait(By(Emission, Owner, Put("IncentivesProxy", "", ATokenWrapper(DStable(i)), Manager(i))))),
        IfAdmin(Manager(i), Unless({<<Manager(i), RewardsManager, Gov>>},
                                   Send(Grant(Manager(i), RewardsManager, Gov)))),
        IfAdmin(Manager(i), When({<<Manager(i), RewardsManager, Deployer>>},
                                 Send(Revoke(Manager(i), RewardsManager, Deployer)))),
        Unless({<<Manager(i), Admin, Gov>>}, Send(Grant(Manager(i), Admin, Gov))),
        IfAdmin(Manager(i), Send(Revoke(Manager(i), Admin, Deployer))) >>

DLendRewards ==
  AtEnd(Script("dstake_dlend_rewards", {"dStakeDLendRewards", "dStake"}, <<"dStakeConfigure">>,
    << Plain(<<When({Deployed(Emission), Deployed("PoolDataProvider"), Pointed}
                    \cup UNION { {Deployed(Manager(i)), Claimer(i)}
                                 : i \in {Instances[n] : n \in DOMAIN Instances} },
                    Return("skipped"))>>
             \o EnsureIncentivesProxyAddress
             \o ForEach(Instances, LAMBDA i :
                  <<Get("PoolDataProvider"), Expect(Listed(DStable(i)))>>)) >>
    \o ForEach(Instances, LAMBDA i : <<Plain(SetUpRewards(i))>>), "nothing"))
-----------------------------------------------------------------------------
(* 05.  What fails for a contract is caught, and true returned.            *)
TransferDStakeRoles ==
  AtEnd(Script("transfer_dstake_roles_to_multisig", {"dStakeRoleTransfer", "postDStake"},
               <<"dStakeConfigure">>,
               ForEach(Instances, LAMBDA i :
                 << Try(IfDeployed(Token(i), HandOver(Token(i), <<FeeManager>>))),
                    Try(IfDeployed(StakeVault(i), HandOver(StakeVault(i), <<>>))),
                    Try(IfDeployed(Router(i), HandOver(Router(i), <<>>))) >>), "true"))

(* 10_vesting_dstake                                                       *)
DeployVestingNFT ==
  Script("ERC20VestingNFT", {"dstake_nft_vesting"}, <<"dStake">>,
         << Plain(<<Deploy("ERC20VestingNFT", {<<"ERC20VestingNFT", Owner, Gov>>})>>) >>, "true")

DStake == << DeployDStakeCore, DeployDStakeAdapters, ConfigureDStake, DLendRewards,
             TransferDStakeRoles, DeployVestingNFT >>
-----------------------------------------------------------------------------
(* 11, 12.  No script hands the dLOOP vaults to governance.                *)

(* 09.  Only the admin role of the new redeemers is transferred.           *)
RedeemerWithFees(d) == d \o "_RedeemerWithFees"
CollateralOf(d) == d \o "_CollateralHolderVault"
OracleOf(d)     == IF d = "dUSD" THEN USDAggregator ELSE SAggregator

DeployRedeemerWithFees ==
  Script("deploy_redeemer_with_fees", {"dstable", "redeemerWithFees"}, <<>>,
         << Plain(ForEach(DStables, LAMBDA d :
              GetAll(<<d, CollateralOf(d), OracleOf(d)>>)
              \o << DeployWith(RedeemerWithFees(d), {"REDEMPTION_MANAGER_ROLE"}),
                    When({<<CollateralOf(d), Admin, Deployer>>},
                         Unless({<<CollateralOf(d), Withdrawer, RedeemerWithFees(d)>>},
                                Send(Grant(CollateralOf(d), Withdrawer, RedeemerWithFees(d))))) >>)) >>
         \o ForEach(DStables, LAMBDA d : <<Try(HandOver(RedeemerWithFees(d), <<>>))>>), "true")
-----------------------------------------------------------------------------
(* 11_dpool: scripts without an id, which run every time.                  *)
CurvePool == "curvePool"
DPoolVault     == "DPoolVault"
DPoolPeriphery == "DPoolPeriphery"
PoolAssets == <<"coin0", "coin1">>

DeployDPool ==
  Script("11_dpool/01", {"dpool", "dpool-vaults", "dpool-peripheries"}, <<>>,
         << Plain(<< Unless({Deployed(CurvePool)}, Leave),
                     DeployWith(DPoolVault, {"FEE_MANAGER_ROLE"}), DeployWith(DPoolPeriphery, {}) >>) >>,
         "nothing")

(* A failed call is caught, per asset and for the slippage.                *)
ConfigureDPool ==
  LET ready(step) == When({Deployed(DPoolPeriphery), Deployed(CurvePool)}, step)
  IN  Script("11_dpool/02", {"dpool", "dpool-periphery-config"}, <<"dpool-vaults", "dpool-peripheries">>,
        ForEach(PoolAssets, LAMBDA a :
          <<Try(<<ready(Unless({<<DPoolPeriphery, a, "whitelisted">>},
                   SendWait(OnlyOnce(AddEntry(DPoolPeriphery, Admin, a, "whitelisted")))))>>)>>)
        \o <<Try(<<ready(Unless({<<DPoolPeriphery, "maxSlippage", "configured">>},
                   SendWait(Put(DPoolPeriphery, Admin, "maxSlippage", "configured"))))>>)>>, "nothing")

VerifyDPool ==
  AtEnd(Script("11_dpool/03", {"dpool", "dpool-verify"}, <<"dpool-periphery-config">>,
               << Try(GetAll(<<DPoolVault, DPoolPeriphery, CurvePool>>)) >>, "nothing"))
-----------------------------------------------------------------------------
(* 12_dloop                                                                *)
DLoopLibrary(id, tag) ==
  Script(id, {"dloop", tag}, <<>>, <<Plain(DeployAll(<<id>>))>>, "true")
DeployDLoopCoreLogic == DLoopLibrary("DLoopCoreLogic", "dloop-core-logic")
DeployOdosSwapLogic  == DLoopLibrary("OdosSwapLogic", "dloop-periphery-swap-logic-odos")

(* The roles of a dLOOP contract are administered by DLOOP_ADMIN_ROLE,     *)
(* which the deployer keeps; nobody holds DEFAULT_ADMIN_ROLE.              *)
DLoopRoles == {"DLOOP_ADMIN_ROLE", "PAUSER_ROLE"}
DeployDLoop(id) == Deploy(id, {<<id, r, Deployer>> : r \in DLoopRoles})

(* The vault is deployed for one underlying asset, a reserve of the pool.  *)
DLoopUnderlying == "sfrxUSD"
DLoopVault == "DLoopCoreDLend-3X-sfrxUSD"
DeployDLoopCoreDLend ==
  Script("DLoopCoreDLend", {"dloop", "dloop-core", "dloop-core-dlend"}, <<"dloop-core-logic">>,
         << Plain(GetAll(<<Provider, "IncentivesProxy", "PoolDataProvider">>)
                  \o << Expect(Listed(DLoopUnderlying)), Get(ATokenWrapper("dUSD")), Get("DLoopCoreLogic"),
                        DeployDLoop(DLoopVault) >>) >>, "true")

DeployDLoopQuoter ==
  Script("DLoopQuoter", {"dloop"}, <<"dloop-core-logic">>,
         <<Plain(<<Get("DLoopCoreLogic"), Deploy("DLoopQuoter", {})>>)>>, "true")

Periphery(id) ==
  Script(id, {"dloop"}, <<"dloop-periphery-swap-logic-odos">>,
         <<Plain(<<Get("OdosSwapLogic"), DeployDLoop(id)>>)>>, "true")
DeployOdosDepositor   == Periphery("DLoopDepositorOdos")
DeployOdosRedeemer    == Periphery("DLoopRedeemerOdos")
DeployOdosDecreaseLeverage == Periphery("DLoopDecreaseLeverageOdos")
DeployOdosIncreaseLeverage == Periphery("DLoopIncreaseLeverageOdos")

DPool == <<DeployDPool, ConfigureDPool, VerifyDPool>>
DLoop == << DeployDLoopCoreLogic, DeployDLoopCoreDLend, DeployDLoopQuoter, DeployOdosSwapLogic,
            DeployOdosDepositor, DeployOdosRedeemer, DeployOdosDecreaseLeverage,
            DeployOdosIncreaseLeverage >>
=============================================================================
