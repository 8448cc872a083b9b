--------------------------- MODULE DeployScripts ---------------------------
(***************************************************************************)
(* The language the deployment scripts are written down in: a script is a  *)
(* sequence of blocks, a block the body of a try statement or plain code,  *)
(* and a step one call the script makes.  How a run goes through the steps *)
(* is in HardhatDeploy.                                                    *)
(*                                                                         *)
(* What the scripts see of the chain: the AccessControl and Ownable        *)
(* contracts of OpenZeppelin, and contracts that keep settings.  The state *)
(* is a set of facts <<contract, key, value>>: a role and one of its       *)
(* holders, an owner, the feed of an asset, "deployed".  Everything here   *)
(* is external to src/ (libraries, the node) and is modelled from how the  *)
(* scripts use it.                                                         *)
(***************************************************************************)
EXTENDS Naturals, Sequences, SequencesExt

Admin    == "DEFAULT_ADMIN_ROLE"
Deployer == "deployer"
Gov      == "governanceMultisig"
Owner    == "owner"

Deployed(id) == <<id, "deployed", "yes">>

(* A call: the roles its sender must hold (pairs contract, role), the      *)
(* facts it requires, the keys that must still be unset, the keys it       *)
(* overwrites, the facts it adds and the facts it removes; and what an     *)
(* inner call adds whose failure is caught.                                *)
Call(need, has, unset, clear, add, del) ==
  [need |-> need, has |-> has, unset |-> unset, clear |-> clear, add |-> add, del |-> del,
   tries |-> {}]
Trying(facts, added, tx) == [tx EXCEPT !.tries = {[has |-> facts, add |-> added]}]

Grant(c, role, who)  == Call({<<c, Admin>>}, {}, {}, {}, {<<c, role, who>>}, {})
Revoke(c, role, who) == Call({<<c, Admin>>}, {}, {}, {}, {}, {<<c, role, who>>})
(* renounceRole removes a role of the sender, whether it is held or not.   *)
Renounce(c, role, who) == Call({}, {}, {}, {}, {}, {<<c, role, who>>})
(* A setter guarded by role: the new value replaces the old one.           *)
Put(c, role, key, val) == Call({<<c, role>>}, {}, {}, {<<c, key>>}, {<<c, key, val>>}, {})
(* A setter of a mapping or set entry: it is added to the others.          *)
AddEntry(c, role, key, val) == Call({<<c, role>>}, {}, {}, {}, {<<c, key, val>>}, {})
(* An initializer: it reverts once the key is set.                         *)
Once(c, key, val) == Call({}, {}, {<<c, key>>}, {}, {<<c, key, val>>}, {})
OnlyOnce(tx) == [tx EXCEPT !.unset = {<<f[1], f[2]>> : f \in tx.add}]
(* The sender needs a role on another contract than the one it changes.    *)
By(c, role, tx) == [tx EXCEPT !.need = {<<c, role>>}]
Requiring(facts, tx) == [tx EXCEPT !.has = @ \cup facts]

IsSet(chain, c, key) == \E f \in chain : f[1] = c /\ f[2] = key

(* The call does not revert when who makes it.                             *)
Allowed(chain, who, tx) ==
  /\ \A n \in tx.need : <<n[1], n[2], who>> \in chain
  /\ tx.has \subseteq chain
  /\ \A k \in tx.unset : ~IsSet(chain, k[1], k[2])

Effect(chain, tx) ==
  ({f \in chain : <<f[1], f[2]>> \notin tx.clear} \ tx.del) \cup tx.add
  \cup UNION {t.add : t \in {s \in tx.tries : s.has \subseteq chain}}

(* A transaction that reverts is mined without effect.                     *)
Mined(chain, who, tx) == IF Allowed(chain, who, tx) THEN Effect(chain, tx) ELSE chain

(* The chain when every transaction of the queue has been mined in order.  *)
AllMined(chain, who, queue) ==
  LET after[n \in 0..Len(queue)] ==
        IF n = 0 THEN chain ELSE Mined(after[n - 1], who, queue[n])
  IN  after[Len(queue)]

(* A Safe batch runs as one transaction: all its calls succeed, or none.   *)
BatchAllowed(chain, who, batch) ==
  \A n \in 1..Len(batch) :
    Allowed(AllMined(chain, who, SubSeq(batch, 1, n - 1)), who, batch[n])
-----------------------------------------------------------------------------
(* Steps.  A step applies when all facts of "when" and none of "unless"    *)
(* hold; otherwise it is passed over.                                      *)
Step(op, tx, fact) ==
  [op |-> op, tx |-> tx, fact |-> fact, when |-> {}, unless |-> {}, value |-> ""]
NoTx   == Call({}, {}, {}, {}, {}, {})
NoFact == <<"", "", "">>

(* deployments.get(id), or a check that throws unless the fact holds       *)
Get(id)       == Step("expect", NoTx, Deployed(id))
Expect(fact)  == Step("expect", NoTx, fact)
(* deployments.deploy(id): waits for the receipt; constructor facts        *)
Deploy(id, facts) ==
  [Step("deploy", Call({}, {}, {}, {}, facts \cup {Deployed(id)}, {}), Deployed(id))
     EXCEPT !.unless = {Deployed(id)}]
DeployRequiring(needed, step) == [step EXCEPT !.tx = Requiring(needed, @)]
(* a transaction that is not waited for, and one followed by wait()        *)
Send(tx)      == Step("send", tx, NoFact)
SendWait(tx)  == Step("sendWait", tx, NoFact)
(* a transaction whose failure is caught and noted as a manual action      *)
Attempt(tx)   == Step("attempt", tx, NoFact)
(* GovernanceExecutor.tryOrQueue around an unwaited or a waited call       *)
Queue(tx)     == Step("queue", tx, NoFact)
QueueWait(tx) == Step("queueWait", tx, NoFact)
(* unless the fact holds, the rest of the block is left to governance      *)
Confirm(fact) == Step("confirm", NoTx, fact)
(* leave this block (continue, return from a helper); end the script       *)
Leave         == Step("leave", NoTx, NoFact)
Return(value) == [Step("return", NoTx, NoFact) EXCEPT !.value = value]

When(facts, step)   == [step EXCEPT !.when = @ \cup facts]
Unless(facts, step) == [step EXCEPT !.unless = @ \cup facts]

(* the end of a finally block: what was thrown before it is thrown again   *)
Rethrow       == Step("rethrow", NoTx, NoFact)

(* Blocks: plain code, the body of a try whose catch goes on, and the body *)
(* of a try ... finally, whose finally is the next block.                  *)
Plain(steps)     == [kind |-> "plain", steps |-> steps]
Try(steps)       == [kind |-> "try", steps |-> steps]
Protected(steps) == [kind |-> "protected", steps |-> steps]

(* func.id, func.tags, func.dependencies, func.runAtTheEnd and the value   *)
(* the function returns at its end.  "complete": true, but false in Safe   *)
(* mode while an operation is pending; "strict": false while one is.       *)
Script(id, tags, deps, blocks, result) ==
  [id |-> id, tags |-> tags, deps |-> deps, atEnd |-> FALSE,
   blocks |-> SelectSeq(blocks, LAMBDA b : b.steps # <<>>), result |-> result]
AtEnd(script) == [script EXCEPT !.atEnd = TRUE]

(* What scripts, their steps and their calls are made of.                  *)
Keys  == STRING \X STRING
Facts == STRING \X STRING \X STRING
Calls ==
  [need : SUBSET Keys, has : SUBSET Facts, unset : SUBSET Keys, clear : SUBSET Keys,
   add : SUBSET Facts, del : SUBSET Facts, tries : SUBSET [has : SUBSET Facts, add : SUBSET Facts]]
ScriptSteps ==
  [op : STRING, tx : Calls, fact : Facts, when : SUBSET Facts, unless : SUBSET Facts, value : STRING]
ScriptBlocks ==
  [kind : {"plain", "try", "protected"}, steps : Seq(ScriptSteps) \ {<<>>}]
Scripts ==
  [id : STRING, tags : SUBSET STRING, deps : Seq(STRING), atEnd : BOOLEAN,
   blocks : Seq(ScriptBlocks), result : STRING]

(* for (const item of items) ...                                           *)
ForEach(items, Steps(_)) == FlattenSeq([n \in 1..Len(items) |-> Steps(items[n])])

DeployAll(ids) == ForEach(ids, LAMBDA id : <<Deploy(id, {})>>)
GetAll(ids)    == ForEach(ids, LAMBDA id : <<Get(id)>>)
=============================================================================
