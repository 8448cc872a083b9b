--------------------------- MODULE HardhatDeploy ---------------------------
(***************************************************************************)
(* How hardhat-deploy runs the scripts of deploy/, and what can happen     *)
(* while it does.  The scripts are data (DeployScripts).  The runner, the  *)
(* chain, a Safe and an operator act concurrently: transactions that a     *)
(* script does not wait for are mined later, in nonce order; a call may    *)
(* fail, also after it reached the node; the process may be killed at any  *)
(* step and is then started again; Safe batches are executed, or dropped,  *)
(* whenever their owners do.                                               *)
(*                                                                         *)
(* A mempool that is full delays the next transaction: maxPending bounds   *)
(* how far the chain may lag behind the scripts, maxBatches how far the    *)
(* owners of the Safe may, maxFaults how many calls fail or processes die. *)
(*                                                                         *)
(* The runner is external (node_modules); the steps of a script are the    *)
(* calls the scripts make.                                                 *)
(***************************************************************************)
EXTENDS DeployScripts, FiniteSets

(* What an operator runs, on which chain, and the bounds:                  *)
(* name -> [scripts, chain, useSafe, maxPending, maxBatches, maxFaults].   *)
CONSTANT Scenes

ASSUME ScenesAssumption ==
  \A s \in DOMAIN Scenes :
    /\ Scenes[s].maxPending \in Nat \ {0} /\ Scenes[s].maxBatches \in Nat \ {0}
    /\ Scenes[s].maxFaults \in Nat

VARIABLES
  scene,       \* the scene of this behaviour: its name, settings and bounds
  chain,       \* facts on chain, and the records of the deployments folder
  mempool,     \* transactions of the deployer that were sent and not yet mined
  recorded,    \* ids in .migrations.json
  pc,          \* <<position in the order, block, step>>, position 0 when nothing runs
  running,     \* the script that runs
  complete,    \* no operation of the running script was left for governance
  raised,      \* an exception waits for the end of a finally block
  batch,       \* calls the running script queued for the Safe
  proposals,   \* Safe batches written to files and not yet executed
  faults       \* failures so far

vars == <<scene, chain, mempool, recorded, pc, running, complete, raised, batch, proposals, faults>>
-----------------------------------------------------------------------------
(* The order of a run: scripts by path, each after the scripts that carry  *)
(* a tag it depends on, those that run at the end last.  A dependency that *)
(* is no tag of any script is ignored.                                     *)
ByTag(scripts, t) ==
  SelectSeq([k \in 1..Len(scripts) |-> k], LAMBDA k : t \in scripts[k].tags)
Before(scripts, i) ==
  LET before[d \in 0..Len(scripts[i].deps)] ==
        IF d = 0 THEN <<>> ELSE before[d - 1] \o ByTag(scripts, scripts[i].deps[d])
  IN  before[Len(scripts[i].deps)]

Order(scripts) ==
  LET visit[todo \in Seq(Nat), done \in Seq(Nat)] ==
        IF todo = <<>> THEN done
        ELSE LET i     == Head(todo)
                 fresh == SelectSeq(Before(scripts, i),
                                    LAMBDA k : k # i /\ \A n \in 1..Len(done) : done[n] # k)
             IN  IF \E n \in 1..Len(done) : done[n] = i THEN visit[Tail(todo), done]
                 ELSE IF fresh # <<>> THEN visit[fresh \o todo, done]
                 ELSE visit[Tail(todo), Append(done, i)]
      visited == visit[[k \in 1..Len(scripts) |-> k], <<>>]
      inOrder(end) == SelectSeq(visited, LAMBDA k : scripts[k].atEnd = end)
      all == inOrder(FALSE) \o inOrder(TRUE)
  IN  [n \in 1..Len(all) |-> scripts[all[n]]]

Orders == [s \in DOMAIN Scenes |-> Order(Scenes[s].scripts)]

ASSUME OrdersAssumption == \A s \in DOMAIN Scenes : Orders[s] \in Seq(Scripts)
-----------------------------------------------------------------------------
Idle    == pc[1] = 0
UseSafe == scene.useSafe
MempoolFull == Len(mempool) >= scene.maxPending
MayFail == faults < scene.maxFaults
Block   == running.blocks[pc[2]]
Here    == Block.steps[pc[3]]
AtStep  == ~Idle /\ pc[2] <= Len(running.blocks)
AtFinish == ~Idle /\ pc[2] > Len(running.blocks)

Applies == Here.when \subseteq chain /\ Here.unless \cap chain = {}

NextBlock == <<pc[1], pc[2] + 1, 1>>
NextStep  == IF pc[3] < Len(Block.steps) THEN <<pc[1], pc[2], pc[3] + 1>> ELSE NextBlock

Goto(position) == pc' = position /\ UNCHANGED running
NoScript == [id |-> "", blocks |-> <<>>]
Stop     == pc' = <<0, 1, 1>> /\ running' = NoScript

(* The first script after position n that is not recorded.                 *)
StartFrom(n) ==
  \E order \in {Orders[scene.name]} :
    LET left == {k \in (n + 1)..Len(order) : order[k].id \notin recorded'}
    IN  \/ left = {} /\ Stop
        \/ \E k \in left : /\ \A l \in left : k <= l
                         /\ pc' = <<k, 1, 1>> /\ running' = order[k]

InMemory == <<complete, raised, batch>>
Fresh    == complete' = TRUE /\ raised' = FALSE /\ batch' = <<>>

Settings(name) ==
  [key \in (DOMAIN Scenes[name] \cup {"name"}) \ {"scripts", "chain"} |->
     IF key = "name" THEN name ELSE Scenes[name][key]]

Init ==
  /\ \E name \in DOMAIN Scenes : scene = Settings(name) /\ chain = Scenes[name].chain
  /\ mempool = <<>> /\ recorded = {} /\ pc = <<0, 1, 1>> /\ running = NoScript
  /\ complete = TRUE /\ raised = FALSE /\ batch = <<>> /\ proposals = {} /\ faults = 0
-----------------------------------------------------------------------------
\* A mutant: an exception is logged, and the script goes on.
OnlyLogged == Goto(NextStep) /\ UNCHANGED InMemory

(* An exception: caught by the try of its block, kept until the finally    *)
(* block has run, or the end of the run.                                   *)
Thrown ==
  \/ Block.kind = "try" /\ Goto(NextBlock) /\ UNCHANGED InMemory
  \/ Block.kind = "protected" /\ Goto(NextBlock) /\ raised' = TRUE /\ UNCHANGED <<complete, batch>>
  \/ Block.kind = "plain" /\ Stop /\ Fresh

\* Mutants: the failure of any call is passed over; a call that is queued takes
\* the place of the one before it.
FailuresPassedOver ==
  /\ complete' = FALSE /\ UNCHANGED <<raised, batch>>
  /\ Goto(NextStep)
LastCallQueued ==
  \/ /\ Here.op \in {"queue", "queueWait", "attempt"}
     /\ complete' = FALSE /\ UNCHANGED raised
     /\ batch' = IF Here.op \in {"queue", "queueWait"} /\ UseSafe
                 THEN <<Here.tx>> ELSE batch
     /\ Goto(NextStep)
  \/ /\ Here.op \notin {"queue", "queueWait", "attempt"}
     /\ Thrown

(* What a failed call does, by the kind of step.                           *)
CallFails ==
  \/ /\ Here.op \in {"queue", "queueWait", "attempt"}
     /\ complete' = FALSE /\ UNCHANGED raised
     /\ batch' = IF Here.op \in {"queue", "queueWait"} /\ UseSafe
                 THEN Append(batch, Here.tx) ELSE batch
     /\ Goto(NextStep)
  \/ /\ Here.op = "confirm"
     /\ complete' = FALSE /\ Goto(NextBlock) /\ UNCHANGED <<raised, batch>>
  \/ /\ Here.op \notin {"queue", "queueWait", "attempt", "confirm"}
     /\ Thrown

Start ==
  /\ Idle /\ UNCHANGED recorded
  /\ StartFrom(0) /\ pc'[1] # 0 /\ Fresh
  /\ UNCHANGED <<scene, chain, mempool, proposals, faults>>

PassOver ==
  /\ AtStep /\ ~Applies /\ Goto(NextStep)
  /\ UNCHANGED <<scene, chain, mempool, recorded, complete, raised, batch, proposals, faults>>

(* Reads and control flow.                                                 *)
ReadStep ==
  /\ AtStep /\ Applies
  /\ \/ /\ Here.op = "expect" /\ Here.fact \in chain
        /\ Goto(NextStep) /\ UNCHANGED <<recorded, InMemory>>
     \/ /\ Here.op = "expect" /\ Here.fact \notin chain
        /\ Thrown /\ UNCHANGED recorded
     \/ /\ Here.op = "confirm"
        /\ complete' = (complete /\ Here.fact \in chain)
        /\ Goto(IF Here.fact \in chain THEN NextStep ELSE NextBlock)
        /\ UNCHANGED <<recorded, raised, batch>>
     \/ /\ Here.op = "rethrow" /\ UNCHANGED recorded
        /\ IF raised THEN Thrown ELSE Goto(NextStep) /\ UNCHANGED InMemory
     \/ /\ Here.op = "leave"
        /\ Goto(NextBlock) /\ UNCHANGED <<recorded, InMemory>>
     \/ /\ Here.op = "return"
        /\ recorded' = IF Here.value = "true" THEN recorded \cup {running.id} ELSE recorded
        /\ StartFrom(pc[1]) /\ Fresh
  /\ UNCHANGED <<scene, chain, mempool, proposals, faults>>

(* A transaction that is only sent: its gas estimate runs the call on the  *)
(* mined state, so it fails where the call would revert now.               *)
SendStep ==
  /\ AtStep /\ Applies /\ Here.op \in {"send", "attempt", "queue"}
  /\ ~MempoolFull
  /\ IF Allowed(chain, Deployer, Here.tx)
     THEN mempool' = Append(mempool, Here.tx) /\ Goto(NextStep) /\ UNCHANGED InMemory
     ELSE CallFails /\ UNCHANGED mempool
  /\ UNCHANGED <<scene, chain, recorded, proposals, faults>>

(* A transaction that is waited for: those sent before it are mined first. *)
WaitStep ==
  /\ AtStep /\ Applies
  /\ Here.op \in {"sendWait", "queueWait", "deploy"}
  /\ mempool = <<>> \/ ~Allowed(chain, Deployer, Here.tx)
  /\ IF Allowed(chain, Deployer, Here.tx)
     THEN chain' = Effect(chain, Here.tx) /\ Goto(NextStep) /\ UNCHANGED InMemory
     ELSE CallFails /\ UNCHANGED chain
  /\ UNCHANGED <<scene, mempool, recorded, proposals, faults>>

(* The value a script returns at its end, and the record of its execution. *)
Succeeds ==
  CASE running.result = "true"     -> TRUE
    [] running.result = "complete" -> complete \/ ~UseSafe
    [] running.result = "strict"   -> complete
    [] OTHER                       -> FALSE

Proposed(batches) ==
  /\ proposals' = proposals \cup batches
  /\ Cardinality(proposals') <= scene.maxBatches

Finish ==
  /\ AtFinish
  /\ Proposed(IF batch = <<>> THEN {} ELSE {batch})
  /\ recorded' = IF Succeeds THEN recorded \cup {running.id} ELSE recorded
  /\ StartFrom(pc[1]) /\ Fresh
  /\ UNCHANGED <<scene, chain, mempool, faults>>

Mine ==
  /\ mempool # <<>>
  /\ chain' = Mined(chain, Deployer, Head(mempool))
  /\ mempool' = Tail(mempool)
  /\ UNCHANGED <<scene, recorded, pc, running, complete, raised, batch, proposals, faults>>

SafeExecute(b) ==
  /\ b \in proposals /\ BatchAllowed(chain, Gov, b)
  /\ chain' = AllMined(chain, Gov, b)
  /\ proposals' = proposals \ {b}
  /\ UNCHANGED <<scene, mempool, recorded, pc, running, complete, raised, batch, faults>>

(* The owners drop a batch whose simulation reverts.                       *)
SafeReject(b) ==
  /\ b \in proposals /\ ~BatchAllowed(chain, Gov, b)
  /\ proposals' = proposals \ {b}
  /\ UNCHANGED <<scene, chain, mempool, recorded, pc, running, complete, raised, batch, faults>>
-----------------------------------------------------------------------------
(* A call of this step fails although it would succeed; sent is TRUE when  *)
(* only the answer is lost and the transaction is on its way.              *)
Sends == Here.op \in {"send", "attempt", "queue", "sendWait", "queueWait"}

CallFault(sent) ==
  /\ MayFail /\ faults' = faults + 1
  /\ AtStep /\ Applies /\ CallFails
  /\ IF sent
     THEN /\ Sends /\ Allowed(chain, Deployer, Here.tx) /\ ~MempoolFull
          /\ mempool' = Append(mempool, Here.tx)
     ELSE UNCHANGED mempool
  /\ UNCHANGED <<scene, chain, recorded, proposals>>

(* The process is killed; what it sent stays sent.                         *)
Kill ==
  /\ MayFail /\ faults' = faults + 1
  /\ ~Idle /\ Stop /\ Fresh
  /\ UNCHANGED <<scene, chain, mempool, recorded, proposals>>

Progress == PassOver \/ ReadStep \/ SendStep \/ WaitStep \/ Finish

Next ==
  \/ Start \/ Progress \/ Mine \/ Kill
  \/ \E b \in proposals : SafeExecute(b) \/ SafeReject(b)
  \/ \E sent \in BOOLEAN : CallFault(sent)

Spec == Init /\ [][Next]_vars

=============================================================================
