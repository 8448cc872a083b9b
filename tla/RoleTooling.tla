---------------------------- MODULE RoleTooling ----------------------------
(***************************************************************************)
(* .shared/scripts/roles: the tools with which an operator hands to        *)
(* governance what the deployment scripts left with the deployer.  Each    *)
(* tool scans the chain, plans from what it saw, and acts later, while     *)
(* sent transactions are mined and the Safe executes batches.  A read that *)
(* fails twice leaves its answer out of the scan without a word.           *)
(*                                                                         *)
(* The operator runs one command at a time: a tool, or the deployment.     *)
(***************************************************************************)
EXTENDS HardhatDeploy, RolePlanner

CONSTANT RoleNames   \* the *_ROLE constants in the ABIs of the deployments

VARIABLE tool        \* the command that runs, and the calls it still has to make

toolVars == <<vars, tool>>

NoTool == [name |-> "none", todo |-> {}]
-----------------------------------------------------------------------------
(* scanRolesAndOwnership, on the facts that were read.                     *)
Manifest == scene.manifest
Scanned(facts) == {f[1] : f \in {g \in facts : g[2] = "deployed"}}
rolesHeldByDeployer(facts) ==
  {f \in facts : f[3] = Deployer /\ f[2] \in RoleNames /\ Deployed(f[1]) \in facts}

Answers == {f \in chain : Deployed(f[1]) \in chain /\ f[2] \in RoleNames \cup {Owner}}

(* grant-default-admin.ts: the new admin is always the governance.         *)
Grants(facts) ==
  {Grant(c, Admin, Gov) : c \in {d \in Scanned(facts) :
     /\ <<d, Admin, Gov>> \notin facts /\ <<d, Admin, Deployer>> \in facts
     /\ Selection(Manifest, d, "defaultAdmin", TRUE) # {} }}

(* transfer-ownership.ts                                                   *)
Transfers(facts) ==
  UNION {{Put(d, Owner, Owner, to) : to \in Selection(Manifest, d, "ownable", TRUE)}
         : d \in {c \in Scanned(facts) : <<c, Owner, Deployer>> \in facts}}

\* A mutant: only DEFAULT_ADMIN_ROLE is revoked.
AdminRevocations(facts) ==
  {Revoke(f[1], f[2], Deployer) : f \in {g \in rolesHeldByDeployer(facts) :
     g[2] = Admin /\ RevocationIncluded(Manifest, g[1])}}

(* revoke-roles.ts: every role of the deployer, whoever the admin is.      *)
Revocations(facts) ==
  {Revoke(f[1], f[2], Deployer) : f \in {g \in rolesHeldByDeployer(facts) :
     RevocationIncluded(Manifest, g[1])}}

Plan(name, facts) ==
  CASE name = "grant"    -> Grants(facts)
    [] name = "transfer" -> Transfers(facts)
    [] name = "revoke"   -> IF Manifest.safe THEN Revocations(facts) ELSE {}
Tools == {"grant", "transfer", "revoke"}

ASSUME ManifestsAssumption ==
  \A s \in DOMAIN Scenes :
    /\ {"manifest", "tools"} \subseteq DOMAIN Scenes[s] /\ Scenes[s].tools \subseteq Tools
    /\ LET m == Scenes[s].manifest
       IN  /\ Resolvable(m)
           /\ \A o \in m.overrides : o.to \in STRING
           /\ \A kind \in Kinds : m.defaults[kind] \in STRING
-----------------------------------------------------------------------------
(* A scan, and a plan that leaves something to do.                         *)
Scan(name, missed) ==
  /\ Idle /\ tool = NoTool /\ name \in scene.tools
  /\ missed = {} \/ MayFail
  /\ faults' = IF missed = {} THEN faults ELSE faults + 1
  /\ tool' = [name |-> name, todo |-> Plan(name, chain \ missed)] /\ tool'.todo # {}
  /\ UNCHANGED <<scene, chain, mempool, recorded, pc, running, complete, raised, batch, proposals>>

Without(tx) == IF tool.todo = {tx} THEN NoTool ELSE [tool EXCEPT !.todo = @ \ {tx}]

(* The deployer's own calls, one after the other, each waited for; what    *)
(* fails is caught.                                                        *)
CallDirectly ==
  /\ tool.name \in {"grant", "transfer"} /\ mempool = <<>>
  /\ \E tx \in tool.todo : chain' = Mined(chain, Deployer, tx) /\ tool' = Without(tx)
  /\ UNCHANGED <<scene, mempool, recorded, pc, running, complete, raised, batch, proposals, faults>>

(* createBatchTransaction: one batch for the Safe, written to a file.      *)
PrepareBatch ==
  /\ tool.name = "revoke"
  /\ Proposed({SetToSeq(tool.todo)})
  /\ tool' = NoTool
  /\ UNCHANGED <<scene, chain, mempool, recorded, pc, running, complete, raised, batch, faults>>

(* A call that fails, or whose answer is lost.                             *)
ToolFault(sent) ==
  /\ MayFail /\ faults' = faults + 1
  /\ tool.name \in {"grant", "transfer"}
  /\ \E tx \in tool.todo :
       /\ tool' = Without(tx)
       /\ IF sent THEN ~MempoolFull /\ mempool' = Append(mempool, tx)
          ELSE UNCHANGED mempool
  /\ UNCHANGED <<scene, chain, recorded, pc, running, complete, raised, batch, proposals>>

KillTool ==
  /\ MayFail /\ faults' = faults + 1
  /\ tool # NoTool /\ tool' = NoTool
  /\ UNCHANGED <<scene, chain, mempool, recorded, pc, running, complete, raised, batch, proposals>>
-----------------------------------------------------------------------------
ToolInit == Init /\ tool = NoTool

ToolStep ==
  \/ \E name \in scene.tools : Scan(name, {})
  \/ Idle /\ tool = NoTool /\ \E name \in scene.tools, f \in Answers : Scan(name, {f})
  \/ CallDirectly \/ PrepareBatch
  \/ \E sent \in BOOLEAN : ToolFault(sent)
  \/ KillTool

(* What everybody else does meanwhile; a deployment starts when no tool    *)
(* runs.                                                                   *)
ToolNext ==
  \/ ToolStep
  \/ Next /\ (tool = NoTool \/ pc' = pc) /\ UNCHANGED tool

ToolSpec == ToolInit /\ [][ToolNext]_toolVars

(* The operator repeats the deployment, until all scripts are recorded,    *)
(* and each of the tools; a sent transaction is mined; the owners of the   *)
(* Safe settle all its batches now and then.                               *)
ToolFairness ==
  /\ WF_toolVars(tool = NoTool /\ Start /\ UNCHANGED tool)
  /\ WF_toolVars(Progress /\ UNCHANGED tool)
  /\ WF_toolVars(Mine /\ UNCHANGED tool)
  /\ []<>(proposals = {})
  /\ WF_toolVars(CallDirectly \/ PrepareBatch)
  /\ \A name \in Tools : SF_toolVars(Scan(name, {}))

FairToolSpec == ToolSpec /\ ToolFairness
=============================================================================
