----------------------------- MODULE DeployRoles -----------------------------
(***************************************************************************)
(* deploy/04_assign_roles_to_multisig: the deployer hands the contracts to *)
(* the governance multisig.  The grants and revocations are sent and not   *)
(* waited for.  (On other networks than mainnet the scripts return at once.)*)
(* And typescript/hardhat, the helpers with which later scripts do so.     *)
(***************************************************************************)
EXTENDS DeployEcosystems

PoolAdmin == "POOL_ADMIN_ROLE"
Emergency == "EMERGENCY_ADMIN_ROLE"
Acl       == "ACLManager"
Provider  == "PoolAddressesProvider"

GrantIfMissing(c, role) == Unless({<<c, role, Gov>>}, Send(Grant(c, role, Gov)))
RevokeIfHeld(c, role)   == When({<<c, role, Deployer>>}, Send(Revoke(c, role, Deployer)))
TransferOwnership(c) ==
  Unless({<<c, Owner, Gov>>}, Send(Put(c, Owner, Owner, Gov)))

(* The steps are left out when the contract is not deployed (getOrNull).   *)
IfDeployed(c, steps) == ForEach(steps, LAMBDA s : <<When({Deployed(c)}, s)>>)

(* Admin and the other roles to the multisig; then the other roles from    *)
(* the deployer, and DEFAULT_ADMIN_ROLE last.                              *)
HandOver(c, roles) ==
  ForEach(<<Admin>> \o roles, LAMBDA r : <<GrantIfMissing(c, r)>>)
  \o ForEach(roles \o <<Admin>>, LAMBDA r : <<RevokeIfHeld(c, r)>>)
-----------------------------------------------------------------------------
(* 01_transfer_dstable_roles_to_multisig.  Each helper catches what it     *)
(* throws and returns true.                                                *)
TransferTokenRoles(c)   == Try(IfDeployed(c, HandOver(c, <<"PAUSER_ROLE">>)))
TransferIssuerRoles(c)  ==
  Try(IfDeployed(c, HandOver(c, <<"AMO_MANAGER_ROLE", "INCENTIVES_MANAGER_ROLE">>)))
TransferRedeemerRoles(c) == Try(IfDeployed(c, HandOver(c, <<"REDEMPTION_MANAGER_ROLE">>)))
TransferAmoManagerRoles(c) ==
  Try(IfDeployed(c, HandOver(c, <<"AMO_ALLOCATOR_ROLE", "FEE_COLLECTOR_ROLE">>)))
TransferCollateralVaultRoles(c) ==
  Try(IfDeployed(c, HandOver(c, <<"COLLATERAL_MANAGER_ROLE", "COLLATERAL_STRATEGY_ROLE", Withdrawer>>)))

DStables == <<"dUSD", "dS">>

TransferDStableRoles ==
  Script("transfer_dstable_roles_to_multisig", {"governance", "roles"}, <<"dusd", "ds">>,
         ForEach(DStables, LAMBDA d :
           << TransferTokenRoles(d), TransferIssuerRoles(d \o "_Issuer"),
              TransferRedeemerRoles(d \o "_Redeemer"), TransferAmoManagerRoles(d \o "_AmoManager"),
              TransferCollateralVaultRoles(d \o "_CollateralHolderVault") >>), "true")

(* 02_transfer_oracle_roles_to_multisig                                    *)
TransferOracleAggregatorRoles(c) == Try(<<Get(c)>> \o HandOver(c, <<OracleManager>>))

TransferOracleRoles ==
  Script("transfer_oracle_roles_to_multisig", {"governance", "roles"}, <<"usd-oracle", "s-oracle">>,
         << TransferOracleAggregatorRoles(USDAggregator),
            TransferOracleAggregatorRoles(SAggregator) >>, "true")

(* 03_transfer_dlend_roles_to_multisig                                     *)
TransferDLendRoles ==
  Script("transfer_dlend_roles_to_multisig", {"governance", "roles"}, <<"dlend">>,
         << Try(IfDeployed(Acl, IfDeployed(Provider,
              << Unless({<<Provider, "aclAdmin", Gov>>}, Send(Put(Provider, Owner, "aclAdmin", Gov))),
                 GrantIfMissing(Acl, Admin), GrantIfMissing(Acl, PoolAdmin),
                 GrantIfMissing(Acl, Emergency),
                 RevokeIfHeld(Acl, PoolAdmin), RevokeIfHeld(Acl, Emergency),
                 RevokeIfHeld(Acl, Admin), TransferOwnership(Provider) >>))),
            Try(IfDeployed("EmissionManager", <<TransferOwnership("EmissionManager")>>)),
            Try(IfDeployed("ReservesSetupHelper", <<TransferOwnership("ReservesSetupHelper")>>)) >>,
         "true")

(* 04_transfer_oracle_wrapper_roles_to_multisig: nothing is caught, and    *)
(* the multisig must hold the role before the deployer loses it.           *)
TransferRole(c, role) ==
  << Get(c), GrantIfMissing(c, role), Expect(<<c, role, Gov>>), RevokeIfHeld(c, role) >>

OracleWrappers ==
  Wrappers(SApi3) \o Wrappers(SRedstone) \o Wrappers(USDApi3) \o Wrappers(USDRedstone)

TransferOracleWrapperRoles ==
  Script("transfer_oracle_wrapper_roles_to_multisig", {"governance", "roles"},
         << "setup-s-api3-oracle-wrappers", "setup-s-redstone-oracle-wrappers",
            "setup-usd-redstone-oracle-wrappers", "setup-usd-api3-oracle-wrappers" >>,
         << Plain(<<Get(SAggregator)>> \o
                  ForEach(OracleWrappers, LAMBDA w : TransferRole(w, OracleManager) \o TransferRole(w, Admin))) >>,
         "true")
-----------------------------------------------------------------------------
(* The helpers of the later scripts: calls that GovernanceExecutor makes   *)
(* itself or queues for the governance Safe, and how the deployer hands a  *)
(* contract to governance (access_control.ts and its callers).             *)

QueueGrant(c, role, who)  == Unless({<<c, role, who>>}, Queue(Grant(c, role, who)))
QueueRevoke(c, role, who) == When({<<c, role, who>>}, Queue(Revoke(c, role, who)))

(* The old admin renounces only once the new one is seen to be admin.      *)
EnsureDefaultAdminExistsAndRevokeFrom(c) ==
  << Unless({<<c, Admin, Gov>>}, Attempt(Grant(c, Admin, Gov))),
     Confirm(<<c, Admin, Gov>>),
     When({<<c, Admin, Deployer>>}, Attempt(Renounce(c, Admin, Deployer))) >>

(* Roles go to governance first; the deployer loses those that governance  *)
(* is seen to have, and DEFAULT_ADMIN_ROLE last.                           *)
MigrateRoles(c, roles) ==
  ForEach(roles, LAMBDA r : <<QueueGrant(c, r, Gov)>>)
  \o ForEach(roles, LAMBDA r : IF r = Admin THEN <<>>
                               ELSE <<When({<<c, r, Gov>>}, QueueRevoke(c, r, Deployer))>>)
  \o EnsureDefaultAdminExistsAndRevokeFrom(c)
=============================================================================
