----------------------------- MODULE Deployment -----------------------------
(***************************************************************************)
(* All scripts of deploy/ and the role tools together, and what a careful  *)
(* operator expects of them when transactions are mined late, calls fail,  *)
(* processes are killed and Safe batches are executed out of order.        *)
(***************************************************************************)
EXTENDS RoleTooling, DeployVaults, DeployV2, DeployOracles

-----------------------------------------------------------------------------
(* Runs complete                                                           *)

\* Scripts that a failure may leave unfinished for good: they call initializers
\* whose second call reverts without asking first, or make an oracle before they
\* write it down.
StuckAfterFailure ==
  { Treasury.id, SetupAddressesProvider.id, L2PoolImplementation.id, PoolConfigurator.id,
    PendleChainlinkOracles.id }
\* Scripts that set a feed on every run, also when the role for it was handed
\* over before they were recorded: from then on each run leaves a batch.
LeavesBatches ==
  {DeployChainlinkSafeRateProviderCompositeWrapper.id, DeployWstkscETHUSDOracle.id}

\* Of a dSTAKE instance some contracts were deployed: from then on script 01
\* passes the instance over, and the others stop at what is missing.
Partial(i) ==
  \E c, d \in {Implementation(Token(i)), Token(i), StakeVault(i), Router(i)} :
    Deployed(c) \in chain /\ Deployed(d) \notin chain

\* Another one reads a price that only exists when it has nothing to do, and the
\* batch of a third reverts until somebody has set a price by hand.
MayFinish(script) ==
  /\ script.id \notin LeavesBatches
  /\ script.id = SetupWstkscUSDFeed.id => <<CompositeWrapper, "wstkscUSD", "feed">> \in chain
  /\ script.id = ConfigureAmoSystem.id =>
       \A n \in DOMAIN DStables : LET d == DStables[n] IN <<Aggregator(d), DebtToken(d), HardPeg(d)>> \in chain
  /\ script.id = TransferDStakeRoles.id /\ faults > 0 => \A n \in DOMAIN Instances : ~Partial(Instances[n])

Recordable ==
  {n \in DOMAIN Orders[scene.name] : Orders[scene.name][n].result \notin {"nothing", "false"}}
Left == {n \in Recordable : Orders[scene.name][n].id \notin recorded}
\* A script that throws again and again also stops those after it.
Excused ==
  {n \in Left : faults > 0 /\ \E s \in Left : s <= n /\ Orders[scene.name][s].id \in StuckAfterFailure}

\* Whatever fails or lags once, running the scripts again finishes all of them:
\* what was done before is recognized, nothing that reverts on repetition is
\* repeated, and no two scripts wait for each other.
EveryRunCompletes == <>[](\A n \in Left : MayFinish(Orders[scene.name][n]) => n \in Excused)

\* The steps of a script by their places, and what its calls add for good when
\* all of them succeed.
Places(script) ==
  UNION {{<<b, k>> : k \in DOMAIN script.blocks[b].steps} : b \in DOMAIN script.blocks}
StepAt(script, p) == script.blocks[p[1]].steps[p[2]]
Earlier(p, q)     == p[1] < q[1] \/ (p[1] = q[1] /\ p[2] < q[2])
Removes(tx, f)    == f \notin tx.add /\ (f \in tx.del \/ <<f[1], f[2]>> \in tx.clear)
Promised(script) ==
  UNION {{f \in StepAt(script, p).tx.add :
            \A q \in Places(script) : Earlier(p, q) => ~Removes(StepAt(script, q).tx, f)}
         : p \in {q \in Places(script) : StepAt(script, q).when = {}}}
\* A script that has no early return, leaves nothing to governance, and ends at
\* the first exception.
Unconditional(script) ==
  /\ script.result = "true"
  /\ \A b \in DOMAIN script.blocks : script.blocks[b].kind # "try"
  /\ \A p \in Places(script) :
       StepAt(script, p).op \in {"expect", "send", "sendWait", "attempt", "deploy", "rethrow"}
Promises ==
  [s \in DOMAIN Scenes |-> [n \in DOMAIN Orders[s] |->
     IF Unconditional(Orders[s][n]) THEN Promised(Orders[s][n]) ELSE {}]]

\* hardhat-deploy never runs a recorded script again. So when it is recorded,
\* all it had to do is done, or on its way: no failure of a call was passed
\* over, and no transaction it did not wait for is going to revert.
RecordedMeansDone ==
  [][recorded' # recorded =>
       Promises[scene.name][pc[1]] \subseteq AllMined(chain', Deployer, mempool')]_vars
-----------------------------------------------------------------------------
(* The system is never left worse off in between                           *)

FeedWrappers ==
  {t.wrapper : t \in UNION {ToSet(SApi3), ToSet(SRedstone), ToSet(USDApi3), ToSet(USDRedstone)}}
  \cup {SafeRateWrapper, SafeRateUSDWrapper}

FeedValues == {"feed", "old feed"}
\* A key is a wrapper and an asset.
HasFeed(facts, k) == \E v \in FeedValues : <<k[1], k[2], v>> \in facts
Points(f) == f[1] \in {USDAggregator, SAggregator} /\ f[2] # Owner /\ f[3] \in FeedWrappers

\* An oracle aggregator points an asset only to a wrapper that has a feed for
\* it, at every moment: while transactions are unmined, between two runs, and
\* in whatever order the Safe executes the batches of several scripts. (A hard
\* peg needs no feed.)
PricedFromAFeed == \A f \in chain : Points(f) => HasFeed(chain, <<f[3], f[2]>>)

Redeemers(d) == {d \o "_Redeemer", RedeemerWithFees(d), RedeemerV2Id(d)}
Payout(d, r) == <<Vault(d), Withdrawer, r>>
MayWithdraw(facts, d) == \E r \in Redeemers(d) : Payout(d, r) \in facts

\* Where a redeemer could pay out collateral, one always can: the old ones lose
\* the role in the transaction that gives it to the new one, or later.
RedemptionNeverCutOff ==
  [][\A d \in ToSet(DStables) : MayWithdraw(chain, d) => MayWithdraw(chain', d)]_vars

\* Every contract that had an admin has one: the deployer or governance. (The
\* grant precedes the renouncement in every order in which they may be mined.)
HasAdmin(facts, c) == \E who \in {Deployer, Gov} : <<c, Admin, who>> \in facts
NoLockout ==
  [][\A f \in chain : f[2] = Admin => HasAdmin(chain', f[1])]_vars

\* A dSTAKE router that has the adapter of an asset has a vault that supports
\* the asset: addAdapter goes on when the vault refuses, and a second run does
\* not come back to it.
AdapterHasItsAsset ==
  \A n \in DOMAIN Instances : HasAdapter(Instances[n]) \in chain => Supported(Instances[n]) \in chain
-----------------------------------------------------------------------------
(* The hand-over                                                           *)

KindOf(key) == IF key = Owner THEN "ownable" ELSE "defaultAdmin"
Exempt(f)   == isDeploymentExcluded(Manifest, f[1], KindOf(f[2]))
HeldByDeployer(facts) == {f \in facts : f[3] = Deployer /\ f[2] \in RoleNames \cup {Owner}}

\* With the tools and a manifest that names everything, the deployer ends up
\* with no role and no ownership but those the manifest exempts, whichever call
\* fails, answer is missed or process is killed on the way.
HandedOver ==
  <>[](Manifest.safe => \A f \in HeldByDeployer(chain) : Exempt(f))

\* And what it exempts, and no override enables by itself, stays where it is.
LeftAlone(m, f) ==
  /\ isDeploymentExcluded(m, f[1], KindOf(f[2]))
  /\ \A o \in Overriding(m, f[1], KindOf(f[2])) : o.enabled # "yes"
OptedOutIsKept ==
  [][Manifest.safe => \A f \in HeldByDeployer(chain) : LeftAlone(Manifest, f) => f \in chain']_vars
-----------------------------------------------------------------------------
(* What the scripts keep to.  The properties above do not depend on which  *)
(* scripts are run, on how far the chain lags, on what fails or on the     *)
(* order of batches; they depend on this.                                  *)

Adds(tx) == tx.add \cup UNION {t.add : t \in tx.tries}

\* Whoever becomes admin, the deployer or governance is one too; governance
\* is never removed.
KeepsAdmins(tx) ==
  /\ \A f \in Adds(tx) : f[2] = Admin => HasAdmin(tx.add, f[1])
  /\ \A f \in tx.del : f[2] = Admin => f[3] # Gov
  /\ \A k \in tx.clear : k[2] # Admin
GivesUp(tx, c) == <<c, Admin, Deployer>> \in tx.del
\* Only a deployment makes a contract, or the deployer its admin.
MakesNothing(tx) == \A f \in Adds(tx) : f[2] # "deployed" /\ ~(f[2] = Admin /\ f[3] = Deployer)

\* The call succeeds whenever the deployer is admin, and makes governance admin.
Hands(tx, c) ==
  /\ tx.need \subseteq {<<c, Admin>>} /\ tx.has = {} /\ tx.unset = {}
  /\ <<c, Admin, Gov>> \in tx.add
\* The step is not left behind before governance is admin, or about to be.
Secures(step, c) ==
  /\ \A f \in step.when : f[2] = "deployed"
  /\ step.unless \subseteq {<<c, Admin, Gov>>}
  /\ \/ step.op \in {"expect", "confirm"} /\ step.fact = <<c, Admin, Gov>>
     \/ step.op = "send" /\ Hands(step.tx, c)
HandsOverFirst(steps) ==
  \A k \in DOMAIN steps : \A f \in steps[k].tx.del : f[2] = Admin /\ f[3] = Deployer =>
    /\ steps[k].op \notin {"queue", "queueWait"}
    /\ \E j \in 1..(k - 1) :
         /\ Secures(steps[j], f[1]) /\ steps[j].when \subseteq steps[k].when
         /\ \A l \in j..(k - 1) : steps[l].op # "deploy"

\* Beside a manifest no script takes what the manifest leaves alone.
Spares(m, tx) ==
  m.safe =>
    /\ \A f \in tx.del : f[3] = Deployer /\ f[2] \in RoleNames \cup {Owner} => ~LeftAlone(m, f)
    /\ \A k \in tx.clear : k[2] \in RoleNames \cup {Owner} => ~LeftAlone(m, k)

\* A script takes collateral from a redeemer only through governance, in a batch
\* that gives it to another one first, from which no script takes it.
StepsOf(s) ==
  UNION {UNION {ToSet(block.steps) : block \in ToSet(script.blocks)} : script \in ToSet(Orders[s])}
TakesPayout(tx, d) == \E r \in Redeemers(d) : Payout(d, r) \in tx.del
TakenFrom(s) == {d \in ToSet(DStables) : \E step \in StepsOf(s) : TakesPayout(step.tx, d)}
Lasting(s, d) == {r \in Redeemers(d) : \A step \in StepsOf(s) : Payout(d, r) \notin step.tx.del}
ByGovernance(step, d) == step.op \in {"queue", "queueWait"} /\ <<Vault(d), Admin>> \in step.tx.need
Replaces(s, step, d) ==
  /\ ByGovernance(step, d) /\ step.when = {}
  /\ \E r \in Lasting(s, d) : Payout(d, r) \in step.tx.add /\ step.unless \subseteq {Payout(d, r)}
ReplacesFirst(s, steps) ==
  \A k \in DOMAIN steps : \A d \in ToSet(DStables) : TakesPayout(steps[k].tx, d) =>
    ByGovernance(steps[k], d) /\ \E j \in 1..(k - 1) : Replaces(s, steps[j], d)
LeavesPayouts(s, tx) ==
  \A d \in ToSet(DStables) :
    /\ <<Vault(d), Withdrawer>> \notin tx.clear
    /\ <<Vault(d), Admin, Deployer>> \in Adds(tx) => d \notin TakenFrom(s)

\* What a script promises, no call made up to then takes back, and one of its
\* steps sees to it: passed over, the promise is kept already; passed, it is
\* read, or mined, or sent in a call that nothing on its way can make revert.
CallsUpTo(s, n) ==
  {step.tx : step \in UNION {UNION {ToSet(block.steps) : block \in ToSet(Orders[s][m].blocks)} : m \in 1..n}}
Firm(calls, f) == \A tx \in calls : ~Removes(tx, f)
Accompanied(s, calls, u, f) ==
  (u \in Scenes[s].chain => f \in Scenes[s].chain) /\ \A tx \in calls : u \in Adds(tx) => f \in tx.add
Sturdy(calls, tx, f) ==
  /\ f \in tx.add /\ \A k \in tx.need : Firm(calls, <<k[1], k[2], Deployer>>)
  /\ \A g \in tx.has : Firm(calls, g)
  /\ \A k \in tx.unset : \A other \in calls :
       (\E g \in Adds(other) : k[1] = g[1] /\ k[2] = g[2]) => f \in other.add
Establishes(s, calls, step, f) ==
  /\ step.when = {} /\ \A u \in step.unless : Accompanied(s, calls, u, f)
  /\ \/ step.op = "expect" /\ step.fact = f
     \/ step.op \in {"sendWait", "deploy"} /\ f \in step.tx.add
     \/ step.op = "send" /\ Sturdy(calls, step.tx, f)
KeepsPromises(s, n) ==
  LET calls == CallsUpTo(s, n)
  IN  /\ Scenes[s].tools = {}
      /\ \A b \in DOMAIN Orders[s][n].blocks : Orders[s][n].blocks[b].kind = "plain"
      /\ \A f \in Promised(Orders[s][n]) :
           Firm(calls, f) /\ \E p \in Places(Orders[s][n]) : Establishes(s, calls, StepAt(Orders[s][n], p), f)

\* A call that points to a wrapper relies on its feed, one that adds an adapter
\* on the role that lets the vault take the asset.
ReliesOn(tx) ==
  {<<f[3], f[2], "feed">> : f \in {g \in Adds(tx) : Points(g)}}
  \cup {RouterRole(i) : i \in {j \in ToSet(Instances) : HasAdapter(j) \in Adds(tx)}}
CallsIn  == [s \in DOMAIN Scenes |-> {step.tx : step \in StepsOf(s)}]
ReliedOn == [s \in DOMAIN Scenes |-> UNION {ReliesOn(tx) : tx \in CallsIn[s]}]

\* Without governance, tools and batches everything is mined in the order of the
\* steps.  Then a step that provides what a call relies on is in front of that call,
\* and of each that takes from the deployer a right needed to provide it.
Adding(tx, g) == g \in tx.add /\ tx.has = {} /\ tx.unset = {}
RightsFor ==
  [s \in DOMAIN Scenes |-> [g \in ReliedOn[s] |->
     UNION {tx.need : tx \in {t \in CallsIn[s] : Adding(t, g)}}]]
WaitsFor(s, tx, g) ==
  g \in ReliesOn(tx) \/ \E k \in RightsFor[s][g] : Removes(tx, <<k[1], k[2], Deployer>>)
Provides(s, step, g) ==
  /\ \/ step.op = "expect" /\ step.fact = g
     \/ step.op \in {"sendWait", "deploy"} /\ g \in step.tx.add
     \/ step.op = "send" /\ Adding(step.tx, g)
  /\ step.when = {} /\ \A u \in step.unless : Accompanied(s, CallsIn[s], u, g)
\* Who gets to the end of the block, or of the script, has come by that step, or
\* has left because there was nothing to do.
LeavesOver(step, g) == step.op \in {"leave", "confirm", "return"} => g \in step.when
BlockProvides(s, block, g) ==
  /\ block.kind = "plain"
  /\ \E j \in DOMAIN block.steps :
       Provides(s, block.steps[j], g) /\ \A l \in 1..(j - 1) : LeavesOver(block.steps[l], g)
ScriptProvides(s, script, g) ==
  /\ \E b \in DOMAIN script.blocks : BlockProvides(s, script.blocks[b], g)
  /\ \A p \in Places(script) : StepAt(script, p).op = "return" => LeavesOver(StepAt(script, p), g)
Provided ==
  [s \in DOMAIN Scenes |-> [n \in DOMAIN Orders[s] |->
     {g \in ReliedOn[s] : ScriptProvides(s, Orders[s][n], g)}]]
ProvidedBefore(s, n, p, g) ==
  LET blocks == Orders[s][n].blocks
  IN  \/ \E j \in 1..(p[2] - 1) : Provides(s, blocks[p[1]].steps[j], g)
      \/ \E b \in 1..(p[1] - 1) : BlockProvides(s, blocks[b], g)
      \/ \E m \in 1..(n - 1) : g \in Provided[s][m]
InOrder(s) ==
  /\ Scenes[s].tools = {} /\ \A step \in StepsOf(s) : step.op \notin {"queue", "queueWait"}
  /\ \A g \in ReliedOn[s] :
       /\ Firm(CallsIn[s], g)
       /\ \A n \in DOMAIN Orders[s] : \A p \in Places(Orders[s][n]) :
            WaitsFor(s, StepAt(Orders[s][n], p).tx, g) => ProvidedBefore(s, n, p, g)

\* Where batches of the Safe are executed in any order, the feed is read before
\* anything that relies on it is sent or queued.
Reads(step, g) == step.op = "expect" /\ step.when = {} /\ step.unless = {} /\ step.fact = g
ReadsFirst(steps) ==
  \A k \in DOMAIN steps :
    /\ \A i \in ToSet(Instances) : HasAdapter(i) \notin Adds(steps[k].tx)
    /\ \A g \in ReliesOn(steps[k].tx) : \E j \in 1..(k - 1) : Reads(steps[j], g)
ReadsBefore(s) ==
  \A script \in ToSet(Orders[s]) : \A block \in ToSet(script.blocks) : ReadsFirst(block.steps)

\* Only governance removes a feed, and only in a batch that sets another one next.
Feeds(tx, k) == HasFeed(tx.add, k)
Unfed(tx) ==
  {k \in tx.clear \cup {<<f[1], f[2]>> : f \in {g \in tx.del : g[3] \in FeedValues}} :
     k[1] \in FeedWrappers /\ k[2] # Owner /\ ~Feeds(tx, k)}
UnfedIn == [s \in DOMAIN Scenes |-> UNION {Unfed(tx) : tx \in CallsIn[s]}]
SetByGovernance(step, k) == step.op \in {"queue", "queueWait"} /\ <<k[1], OracleManager>> \in step.tx.need
FeedsNext(block) ==
  \A j \in DOMAIN block.steps : \A k \in Unfed(block.steps[j].tx) :
    /\ block.kind = "plain" /\ SetByGovernance(block.steps[j], k)
    /\ j + 1 \in DOMAIN block.steps
    /\ LET next == block.steps[j + 1]
       IN  SetByGovernance(next, k) /\ next.when = {} /\ next.unless = {} /\ Feeds(next.tx, k)
KeepsFeeds(s, tx) ==
  /\ \A k \in Unfed(tx) : <<k[1], OracleManager>> \in tx.need /\ k \in UnfedIn[s]
  /\ \A k \in UnfedIn[s] : <<k[1], OracleManager, Deployer>> \notin Adds(tx)

\* Whatever adds an adapter tries to have the asset supported; it stays so.
KeepsAssets(tx) ==
  \A i \in ToSet(Instances) :
    /\ ~Removes(tx, Supported(i))
    /\ HasAdapter(i) \in Adds(tx) =>
         \E t \in tx.tries : t.has \subseteq {RouterRole(i)} /\ Supported(i) \in t.add

ASSUME NamesAssumption ==
  /\ {Admin, Owner, Deployer, Gov} \subseteq STRING
  /\ Owner \notin RoleNames /\ \A d \in ToSet(DStables) : Deployer \notin Redeemers(d)
  /\ Gov \notin FeedWrappers

ASSUME ChainsAssumption ==
  \A s \in DOMAIN Scenes :
    LET facts == Scenes[s].chain
    IN  /\ facts \in SUBSET Facts /\ IsFiniteSet(facts)
        /\ \A f \in facts : f[2] = Admin => HasAdmin(facts, f[1])
        /\ \A d \in TakenFrom(s) : <<Vault(d), Admin, Deployer>> \notin facts

ASSUME ScriptsAssumption ==
  \A s \in DOMAIN Scenes :
    /\ \A step \in StepsOf(s) :
         /\ IsFiniteSet(Adds(step.tx)) /\ KeepsAdmins(step.tx)
         /\ step.op # "deploy" => MakesNothing(step.tx)
         /\ Spares(Scenes[s].manifest, step.tx) /\ LeavesPayouts(s, step.tx)
    /\ \A script \in ToSet(Orders[s]) : \A block \in ToSet(script.blocks) :
         HandsOverFirst(block.steps) /\ ReplacesFirst(s, block.steps)

ASSUME PromisesAssumption ==
  \A s \in DOMAIN Scenes : \A n \in DOMAIN Orders[s] :
    Unconditional(Orders[s][n]) => KeepsPromises(s, n)

ASSUME PricesAssumption ==
  \A s \in DOMAIN Scenes :
    LET facts == Scenes[s].chain
    IN  /\ \A f \in facts : Points(f) => HasFeed(facts, <<f[3], f[2]>>)
        /\ \A i \in ToSet(Instances) : HasAdapter(i) \in facts => Supported(i) \in facts
        /\ \A k \in UnfedIn[s] : <<k[1], OracleManager, Deployer>> \notin facts
        /\ \A step \in StepsOf(s) : KeepsFeeds(s, step.tx) /\ KeepsAssets(step.tx)
        /\ \A script \in ToSet(Orders[s]) : \A block \in ToSet(script.blocks) : FeedsNext(block)
        /\ \A m, n \in DOMAIN Orders[s] : Orders[s][m].id = Orders[s][n].id => m = n
        /\ InOrder(s) \/ ReadsBefore(s)
-----------------------------------------------------------------------------
(* What comments and documents say and the code does not do                *)

\* migrateIssuerRolesIdempotent "returns true if all operations complete": once
\* the script is recorded and all it sent is mined, the deployer holds no role
\* of the new issuers.
IssuerIsMigrated ==
  SetupIssuerV2.id \in recorded /\ mempool = <<>> =>
    \A n \in DOMAIN DStables : \A f \in HeldByDeployer(chain) : f[1] # DStables[n] \o "_IssuerV2"

\* revoke-roles "prepares a Safe batch that revokes every deployer-held role":
\* in the end the deployer holds none on a contract that governance administers
\* and the manifest does not exempt.
DeployerIsRevoked ==
  <>[](\A f \in HeldByDeployer(chain) : <<f[1], Admin, Gov>> \in chain => Exempt(f))
=============================================================================
