---------------------------- MODULE RolePlanner ----------------------------
(***************************************************************************)
(* .shared/lib/roles/manifest.ts and planner.ts: what the role manifest    *)
(* says should happen to a deployment.  A manifest has                     *)
(*   exclusions  - [names, kept]: the deployments meant (one, or those     *)
(*                 with a prefix), and the kinds the exclusion is not for; *)
(*   overrides   - [deployment, kind, enabled, to], enabled "yes", "no" or *)
(*                 "unset"; a disabled override names no account;          *)
(*   autoInclude - the kinds acted on without an override;                 *)
(*   defaults    - the new holder of each kind;                            *)
(*   safe        - a Safe is configured.                                   *)
(***************************************************************************)
Kinds == {"ownable", "defaultAdmin"}

(* What resolveRoleManifest accepts: a deployment is overridden once.      *)
Resolvable(m) ==
  \A o, p \in m.overrides : o.deployment = p.deployment /\ o.kind = p.kind => o = p

isDeploymentExcluded(m, deployment, kind) ==
  \E e \in m.exclusions : deployment \in e.names /\ kind \notin e.kept

Overriding(m, deployment, kind) ==
  {o \in m.overrides : o.deployment = deployment /\ o.kind = kind}

\* A mutant: what is included by default is not compared with the exclusions.
SelectionOfAll(m, deployment, kind, has) ==
  LET own      == Overriding(m, deployment, kind)
      excluded == isDeploymentExcluded(m, deployment, kind)
  IN  IF own # {}
      THEN {o.to : o \in {p \in own : p.enabled # "no" /\ (excluded => p.enabled = "yes")}}
      ELSE {m.defaults[kind] : k \in {kind} \cap (IF has THEN m.autoInclude ELSE {})}

(* The account that shall own or administer the deployment: a set of one,  *)
(* or empty when nothing shall be done.                                    *)
Selection(m, deployment, kind, has) ==
  LET own      == Overriding(m, deployment, kind)
      excluded == isDeploymentExcluded(m, deployment, kind)
  IN  IF own # {}
      THEN {o.to : o \in {p \in own : p.enabled # "no" /\ (excluded => p.enabled = "yes")}}
      ELSE {m.defaults[kind] : k \in {kind} \cap (IF has /\ ~excluded THEN m.autoInclude ELSE {})}

(* revoke-roles.ts decides by itself.                                      *)
RevocationIncluded(m, deployment) ==
  /\ ~isDeploymentExcluded(m, deployment, "defaultAdmin")
  /\ \A o \in Overriding(m, deployment, "defaultAdmin") : o.enabled # "no"
  /\ Overriding(m, deployment, "defaultAdmin") # {} \/ "defaultAdmin" \in m.autoInclude
=============================================================================
