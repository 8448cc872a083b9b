-------------------------- MODULE DeploymentProofs --------------------------
(***************************************************************************)
(* What holds of hardhat-deploy, the deployment scripts, the role tools    *)
(* and the Safe for all scripts, chains, manifests and bounds that keep to *)
(* the assumptions of Deployment, which TLC evaluates on the scripts of    *)
(* every scene: no contract is left without an admin, no exempted right is *)
(* taken, redemption is never cut off, what is recorded is done, assets    *)
(* are priced from a feed, and adapters have the asset they are for.       *)
(*                                                                         *)
(* None of this is inductive as it stands, because what gives a right up   *)
(* is sent long before it is mined, and after a check of a chain that lags *)
(* behind.  The invariant IInv therefore speaks of what is under way:      *)
(*   QueueOK      in front of a sent call by which the deployer gives up   *)
(*                an admin role is one that hands it to governance;        *)
(*   HandoverOK   behind a step that hands it over, it is handed over or   *)
(*                the call that does so is sent;                           *)
(*   RedeemersOK  every batch, also the one being filled, gives a right to *)
(*                pay out before it takes one away;                        *)
(* PromisesOK of the steps behind the run: what they were to establish is  *)
(* there, or in a sent call that cannot revert; and PricesOK of the calls  *)
(* under way: what they rely on is there, or added by a call in front.     *)
(***************************************************************************)
EXTENDS Deployment, FiniteSetTheorems, WellFoundedInduction, TLAPS

-----------------------------------------------------------------------------
(* What the role planner and revoke-roles decide, for every manifest *)

\* The deployer is never relieved of its roles on a contract for which nobody
\* is to become admin: whatever revoke-roles includes, grant-default-admin
\* includes too, when the deployer administers it.
THEOREM RevokedHasHeir ==
  ASSUME NEW m, NEW d, RevocationIncluded(m, d)
  PROVE  Selection(m, d, "defaultAdmin", TRUE) # {}
<1> DEFINE own == Overriding(m, d, "defaultAdmin")
<1>1. ~isDeploymentExcluded(m, d, "defaultAdmin")
  BY DEF RevocationIncluded
<1>2. CASE own # {}
  <2>1. PICK o \in own : TRUE
    BY <1>2
  <2>2. o.enabled # "no"
    BY <2>1 DEF RevocationIncluded
  <2>3. o.to \in Selection(m, d, "defaultAdmin", TRUE)
    BY <1>1, <1>2, <2>1, <2>2 DEF Selection
  <2> QED  BY <2>3
<1>3. CASE own = {}
  <2>1. "defaultAdmin" \in m.autoInclude
    BY <1>3 DEF RevocationIncluded
  <2>2. m.defaults["defaultAdmin"] \in Selection(m, d, "defaultAdmin", TRUE)
    BY <1>1, <1>3, <2>1 DEF Selection
  <2> QED  BY <2>2
<1> QED  BY <1>2, <1>3

\* A deployment is given to one account at most: no two parts of a manifest
\* that resolves can send it to different owners or admins.
THEOREM OneHeir ==
  ASSUME NEW m, Resolvable(m), NEW d, NEW kind, NEW has,
         NEW x \in Selection(m, d, kind, has), NEW y \in Selection(m, d, kind, has)
  PROVE  x = y
<1> DEFINE own == Overriding(m, d, kind)
<1>1. CASE own # {}
  <2>1. PICK o \in own : x = o.to
    BY <1>1 DEF Selection
  <2>2. PICK p \in own : y = p.to
    BY <1>1 DEF Selection
  <2>3. o = p
    BY <2>1, <2>2 DEF Resolvable, Overriding
  <2> QED  BY <2>1, <2>2, <2>3
<1>2. CASE own = {}
  <2>1. x = m.defaults[kind] /\ y = m.defaults[kind]
    BY <1>2 DEF Selection
  <2> QED  BY <2>1
<1> QED  BY <1>1, <1>2

\* What is excluded is left alone by every tool, unless an override names it and
\* says so itself.
THEOREM ExcludedIsLeftAlone ==
  ASSUME NEW m, NEW d, NEW kind, NEW has, isDeploymentExcluded(m, d, kind),
         \A o \in Overriding(m, d, kind) : o.enabled # "yes"
  PROVE  /\ Selection(m, d, kind, has) = {}
         /\ kind = "defaultAdmin" => ~RevocationIncluded(m, d)
<1> DEFINE own == Overriding(m, d, kind)
<1>1. Selection(m, d, kind, has) = {}
  <2>1. CASE own # {}
    BY <2>1 DEF Selection
  <2>2. CASE own = {}
    BY <2>2 DEF Selection
  <2> QED  BY <2>1, <2>2
<1>2. kind = "defaultAdmin" => ~RevocationIncluded(m, d)
  BY DEF RevocationIncluded
<1> QED  BY <1>1, <1>2
-----------------------------------------------------------------------------
(* Calls *)

LEMMA EffectKeeps ==
  ASSUME NEW F, NEW tx, NEW f \in F, f \notin tx.del, <<f[1], f[2]>> \notin tx.clear
  PROVE  f \in Effect(F, tx)
BY DEF Effect

LEMMA EffectAdds ==
  ASSUME NEW F, NEW tx
  PROVE  tx.add \subseteq Effect(F, tx)
BY DEF Effect

LEMMA EffectOrigin ==
  ASSUME NEW F, NEW tx
  PROVE  Effect(F, tx) \subseteq F \cup Adds(tx)
BY DEF Effect, Adds

LEMMA AddsType ==
  ASSUME NEW tx \in Calls
  PROVE  Adds(tx) \in SUBSET Facts
BY DEF Adds, Calls

LEMMA EffectFacts ==
  ASSUME NEW F \in SUBSET Facts, NEW tx \in Calls
  PROVE  Effect(F, tx) \in SUBSET Facts
BY EffectOrigin, AddsType

LEMMA EffectType ==
  ASSUME NEW F \in SUBSET Facts, IsFiniteSet(F), NEW tx \in Calls, IsFiniteSet(Adds(tx))
  PROVE  Effect(F, tx) \in SUBSET Facts /\ IsFiniteSet(Effect(F, tx))
<1>1. IsFiniteSet(F \cup Adds(tx))
  BY FS_Union
<1>2. IsFiniteSet(Effect(F, tx))
  BY <1>1, EffectOrigin, FS_Subset
<1> QED  BY <1>2, EffectOrigin, AddsType

\* A fact is the triple of its parts.
LEMMA FactParts ==
  ASSUME NEW f \in Facts
  PROVE  /\ f = <<f[1], f[2], f[3]>>
         /\ f[1] \in STRING /\ f[2] \in STRING /\ f[3] \in STRING
BY DEF Facts

LEMMA GovStays ==
  ASSUME NEW F \in SUBSET Facts, NEW tx, KeepsAdmins(tx), NEW c, <<c, Admin, Gov>> \in F
  PROVE  <<c, Admin, Gov>> \in Effect(F, tx)
<1> DEFINE f == <<c, Admin, Gov>>
<1>1. f[1] = c /\ f[2] = Admin /\ f[3] = Gov
  OBVIOUS
<1>2. f \notin tx.del /\ <<f[1], f[2]>> \notin tx.clear
  BY <1>1 DEF KeepsAdmins
<1> HIDE DEF f
<1> QED  BY <1>2, EffectKeeps DEF f

Administered(F) == \A f \in F : f[2] = Admin => HasAdmin(F, f[1])

\* Who had an admin keeps one, when the deployer gives up nothing that governance
\* does not administer.
LEMMA EffectAdmins ==
  ASSUME NEW F \in SUBSET Facts, NEW tx \in Calls, KeepsAdmins(tx), Administered(F),
         \A c \in STRING : GivesUp(tx, c) /\ <<c, Admin, Deployer>> \in F => <<c, Admin, Gov>> \in F
  PROVE  /\ Administered(Effect(F, tx))
         /\ \A f \in F : f[2] = Admin => HasAdmin(Effect(F, tx), f[1])
<1> DEFINE G == Effect(F, tx)
<1>1. ASSUME NEW f \in F, f[2] = Admin
      PROVE  HasAdmin(G, f[1])
  <2>1. f[1] \in STRING
    BY FactParts
  <2>2. PICK who \in {Deployer, Gov} : <<f[1], Admin, who>> \in F
    BY <1>1 DEF Administered, HasAdmin
  <2>3. CASE <<f[1], Admin, Gov>> \in F
    <3>1. <<f[1], Admin, Gov>> \in G
      BY <2>3, GovStays
    <3> QED  BY <3>1 DEF HasAdmin
  <2>4. CASE <<f[1], Admin, Gov>> \notin F
    <3> DEFINE g == <<f[1], Admin, Deployer>>
    <3>1. g \in F /\ g[1] = f[1] /\ g[2] = Admin
      BY <2>2, <2>4
    <3>2. g \notin tx.del
      BY <2>1, <2>4, <3>1 DEF GivesUp
    <3>3. <<g[1], g[2]>> \notin tx.clear
      BY <3>1 DEF KeepsAdmins
    <3> HIDE DEF g
    <3>4. g \in G
      BY <3>1, <3>2, <3>3, EffectKeeps
    <3> QED  BY <3>4 DEF HasAdmin, g
  <2> QED  BY <2>3, <2>4
<1>2. ASSUME NEW f \in Adds(tx), f[2] = Admin
      PROVE  HasAdmin(G, f[1])
  <2>1. HasAdmin(tx.add, f[1])
    BY <1>2 DEF KeepsAdmins
  <2> QED  BY <2>1, EffectAdds DEF HasAdmin
<1> HIDE DEF G
<1>3. Administered(G)
  BY <1>1, <1>2, EffectOrigin DEF Administered, G
<1> QED  BY <1>1, <1>3 DEF G
-----------------------------------------------------------------------------
(* The calls of a scene, and what they keep *)

\* The calls of scripts; those that do not deploy; and those of batches, which
\* governance makes.
StepCalls(s) ==
  {tx \in Calls :
     /\ IsFiniteSet(Adds(tx)) /\ KeepsAdmins(tx)
     /\ Spares(Scenes[s].manifest, tx) /\ LeavesPayouts(s, tx)
     /\ KeepsFeeds(s, tx) /\ KeepsAssets(tx)
     /\ \A d \in ToSet(DStables) :
          /\ \A r \in Lasting(s, d) : Payout(d, r) \notin tx.del
          /\ TakesPayout(tx, d) => <<Vault(d), Admin>> \in tx.need /\ d \in TakenFrom(s)}
Sendable(s) == {tx \in StepCalls(s) : MakesNothing(tx)}
Batchable(s) ==
  {tx \in Sendable(s) : \A c \in STRING : GivesUp(tx, c) => <<c, Admin>> \in tx.need}

\* What a chain G that comes after F still has.
Keeps(s, F, G) ==
  /\ G \in SUBSET Facts /\ IsFiniteSet(G)
  /\ Administered(G)
  /\ \A f \in F : f[2] = Admin => HasAdmin(G, f[1])
  /\ \A f \in F : f[2] = Admin /\ f[3] = Gov => f \in G
  /\ Scenes[s].manifest.safe =>
       \A f \in HeldByDeployer(F) : LeftAlone(Scenes[s].manifest, f) => f \in G
  /\ \A d \in ToSet(DStables) : \A r \in Lasting(s, d) : Payout(d, r) \in F => Payout(d, r) \in G
  /\ \A d \in TakenFrom(s) : <<Vault(d), Admin, Deployer>> \in G => <<Vault(d), Admin, Deployer>> \in F
MakesNothingNew(F, G) ==
  \A f \in G \ F : f[2] # "deployed" /\ ~(f[2] = Admin /\ f[3] = Deployer)

LEMMA KeepsItself ==
  ASSUME NEW s, NEW F \in SUBSET Facts, IsFiniteSet(F), Administered(F)
  PROVE  Keeps(s, F, F) /\ MakesNothingNew(F, F)
BY DEF Keeps, MakesNothingNew, HeldByDeployer, Administered

LEMMA KeepsComposes ==
  ASSUME NEW s, NEW F, NEW G, NEW H, Keeps(s, F, G), Keeps(s, G, H)
  PROVE  /\ Keeps(s, F, H)
         /\ MakesNothingNew(F, G) /\ MakesNothingNew(G, H) => MakesNothingNew(F, H)
<1>1. \A f \in F : f[2] = Admin => HasAdmin(H, f[1])
  <2> SUFFICES ASSUME NEW f \in F, f[2] = Admin PROVE HasAdmin(H, f[1])
    OBVIOUS
  <2>1. PICK who \in {Deployer, Gov} : <<f[1], Admin, who>> \in G
    BY DEF Keeps, HasAdmin
  <2> DEFINE g == <<f[1], Admin, who>>
  <2>2. g \in G /\ g[1] = f[1] /\ g[2] = Admin
    BY <2>1
  <2> HIDE DEF g
  <2> QED  BY <2>2 DEF Keeps
<1>2. \A f \in F : f[2] = Admin /\ f[3] = Gov => f \in H
  BY DEF Keeps
<1>3. Scenes[s].manifest.safe =>
        \A f \in HeldByDeployer(F) : LeftAlone(Scenes[s].manifest, f) => f \in H
  BY DEF Keeps, HeldByDeployer
<1>4. \A d \in ToSet(DStables) : \A r \in Lasting(s, d) : Payout(d, r) \in F => Payout(d, r) \in H
  BY DEF Keeps
<1>5. \A d \in TakenFrom(s) :
        <<Vault(d), Admin, Deployer>> \in H => <<Vault(d), Admin, Deployer>> \in F
  BY DEF Keeps
<1>6. H \in SUBSET Facts /\ IsFiniteSet(H) /\ Administered(H)
  BY DEF Keeps
<1>7. Keeps(s, F, H)
  BY <1>1, <1>2, <1>3, <1>4, <1>5, <1>6 DEF Keeps
<1>8. MakesNothingNew(F, G) /\ MakesNothingNew(G, H) => MakesNothingNew(F, H)
  BY DEF MakesNothingNew
<1> QED  BY <1>7, <1>8

LEMMA EffectKeepsAll ==
  ASSUME NEW s, NEW F \in SUBSET Facts, IsFiniteSet(F), Administered(F), NEW tx \in StepCalls(s),
         \A c \in STRING : GivesUp(tx, c) /\ <<c, Admin, Deployer>> \in F => <<c, Admin, Gov>> \in F
  PROVE  /\ Keeps(s, F, Effect(F, tx))
         /\ MakesNothing(tx) => MakesNothingNew(F, Effect(F, tx))
<1> DEFINE G == Effect(F, tx)
<1>1. tx \in Calls /\ IsFiniteSet(Adds(tx)) /\ KeepsAdmins(tx)
  BY DEF StepCalls
<1>2. G \in SUBSET Facts /\ IsFiniteSet(G)
  BY <1>1, EffectType
<1>3. Administered(G) /\ \A f \in F : f[2] = Admin => HasAdmin(G, f[1])
  BY <1>1, EffectAdmins
<1>4. ASSUME NEW f \in F, f[2] = Admin, f[3] = Gov PROVE f \in G
  <2>1. f \notin tx.del /\ <<f[1], f[2]>> \notin tx.clear
    BY <1>1, <1>4 DEF KeepsAdmins
  <2> QED  BY <2>1, EffectKeeps
<1>5. ASSUME Scenes[s].manifest.safe, NEW f \in HeldByDeployer(F), LeftAlone(Scenes[s].manifest, f)
      PROVE  f \in G
  <2>1. f \in F /\ f[3] = Deployer /\ f[2] \in RoleNames \cup {Owner}
    BY DEF HeldByDeployer
  <2>2. f \notin tx.del
    BY <1>5, <2>1 DEF StepCalls, Spares
  <2>3. <<f[1], f[2]>> \notin tx.clear
    <3> DEFINE k == <<f[1], f[2]>>
    <3>1. k[1] = f[1] /\ k[2] = f[2]
      OBVIOUS
    <3> HIDE DEF k
    <3>2. LeftAlone(Scenes[s].manifest, k)
      BY <1>5, <3>1 DEF LeftAlone
    <3>3. k \notin tx.clear
      BY <1>5, <2>1, <3>1, <3>2 DEF StepCalls, Spares
    <3> QED  BY <3>3 DEF k
  <2> QED  BY <2>1, <2>2, <2>3, EffectKeeps
<1>6. ASSUME NEW d \in ToSet(DStables), NEW r \in Lasting(s, d), Payout(d, r) \in F
      PROVE  Payout(d, r) \in G
  <2>1. Payout(d, r) \notin tx.del /\ <<Vault(d), Withdrawer>> \notin tx.clear
    BY DEF StepCalls, LeavesPayouts
  <2>2. Payout(d, r)[1] = Vault(d) /\ Payout(d, r)[2] = Withdrawer
    BY DEF Payout
  <2> QED  BY <1>6, <2>1, <2>2, EffectKeeps
<1>7. ASSUME NEW d \in TakenFrom(s), <<Vault(d), Admin, Deployer>> \in G
      PROVE  <<Vault(d), Admin, Deployer>> \in F
  <2>1. d \in ToSet(DStables)
    BY DEF TakenFrom
  <2>2. <<Vault(d), Admin, Deployer>> \notin Adds(tx)
    BY <2>1 DEF StepCalls, LeavesPayouts
  <2> QED  BY <1>7, <2>2, EffectOrigin
<1>8. MakesNothing(tx) => MakesNothingNew(F, G)
  BY EffectOrigin DEF MakesNothing, MakesNothingNew
<1>9. Keeps(s, F, G)
  BY <1>2, <1>3, <1>4, <1>5, <1>6, <1>7 DEF Keeps
<1> QED  BY <1>8, <1>9
-----------------------------------------------------------------------------
(* Queues of calls that are mined one after the other *)

LEMMA LeastOf ==
  ASSUME NEW T, T \subseteq Nat, T # {}
  PROVE  \E m \in T : \A k \in T : m <= k
<1>1. \E x \in T : \A y \in T : ~ (<<y, x>> \in OpToRel(<, Nat))
  BY WFMin, NatLessThanWellFounded
<1>2. PICK x \in T : \A y \in T : ~ (<<y, x>> \in OpToRel(<, Nat))
  BY <1>1
<1>3. \A y \in T : ~ (y < x)
  BY <1>2 DEF OpToRel
<1> QED  BY <1>3

\* The chain after each call of a queue.
Mining(F, who, q, after) ==
  [n \in 0..Len(q) |-> IF n = 0 THEN F ELSE Mined(after[n - 1], who, q[n])]
IsMining(F, who, q, after) ==
  /\ after = [n \in 0..Len(q) |-> after[n]]
  /\ after[0] = F
  /\ \A n \in 1..Len(q) : after[n] = Mined(after[n - 1], who, q[n])

LEMMA MiningExists ==
  ASSUME NEW F, NEW who, NEW T, NEW q \in Seq(T)
  PROVE  \E after : IsMining(F, who, q, after)
<1> DEFINE L == Len(q)
           Upto(k, a) == /\ a = [n \in 0..k |-> a[n]] /\ a[0] = F
                         /\ \A n \in 1..k : a[n] = Mined(a[n - 1], who, q[n])
           Bad == {k \in 0..L : ~ \E a : Upto(k, a)}
<1>1. L \in Nat
  OBVIOUS
<1> HIDE DEF L
<1>2. \E a : Upto(0, a)
  <2> DEFINE a == [n \in 0..0 |-> F]
  <2>1. Upto(0, a)
    OBVIOUS
  <2> QED  BY <2>1
<1>3. ASSUME NEW k \in 1..L, NEW a, Upto(k - 1, a) PROVE \E b : Upto(k, b)
  <2> DEFINE b == [n \in 0..k |-> IF n = k THEN Mined(a[k - 1], who, q[k]) ELSE a[n]]
  <2>1. k \in Nat /\ k - 1 \in Nat /\ k # 0
    BY <1>1
  <2>2. b = [n \in 0..k |-> b[n]] /\ b[0] = F
    BY <1>3, <2>1
  <2>3. ASSUME NEW n \in 1..k PROVE b[n] = Mined(b[n - 1], who, q[n])
    <3>1. n - 1 \in 0..k /\ n - 1 # k /\ n \in 0..k
      BY <2>1
    <3>2. b[n - 1] = a[n - 1]
      BY <3>1
    <3>3. CASE n = k
      BY <3>1, <3>2, <3>3
    <3>4. CASE n # k
      <4>1. n \in 1..(k - 1)
        BY <2>1, <3>4
      <4>2. b[n] = a[n]
        BY <3>1, <3>4
      <4> QED  BY <1>3, <3>2, <4>1, <4>2
    <3> QED  BY <3>3, <3>4
  <2> HIDE DEF b
  <2> QED  BY <2>2, <2>3
<1>4. Bad = {}
  <2> SUFFICES ASSUME Bad # {} PROVE FALSE
    OBVIOUS
  <2>0. Bad \subseteq Nat
    BY <1>1
  <2> HIDE DEF Bad
  <2>1. PICK m \in Bad : \A k \in Bad : m <= k
    BY <2>0, LeastOf
  <2> USE DEF Bad
  <2>2. m # 0
    BY <1>2, <2>1
  <2>3. m \in 1..L /\ m - 1 \in 0..L /\ ~(m <= m - 1)
    BY <1>1, <2>1, <2>2
  <2>4. m - 1 \notin Bad
    BY <2>1, <2>3
  <2>5. PICK a : Upto(m - 1, a)
    BY <2>3, <2>4
  <2>6. \E b : Upto(m, b)
    BY <1>3, <2>3, <2>5
  <2> QED  BY <2>1, <2>6
<1>5. \E a : Upto(L, a)
  <2>1. L \in 0..L
    BY <1>1
  <2> QED  BY <1>4, <2>1
<1> QED  BY <1>5 DEF IsMining, L

\* Two such functions agree as far as their queues do.
LEMMA MiningUnique ==
  ASSUME NEW F, NEW who, NEW q, NEW p, NEW a, NEW b,
         IsMining(F, who, q, a), IsMining(F, who, p, b),
         Len(p) \in Nat, Len(q) \in Nat, Len(p) <= Len(q), \A n \in 1..Len(p) : p[n] = q[n]
  PROVE  \A n \in 0..Len(p) : a[n] = b[n]
<1> DEFINE Bad == {n \in 0..Len(p) : a[n] # b[n]}
<1> SUFFICES ASSUME Bad # {} PROVE FALSE
  OBVIOUS
<1>0. Bad \subseteq Nat
  OBVIOUS
<1> HIDE DEF Bad
<1>1. PICK m \in Bad : \A k \in Bad : m <= k
  BY <1>0, LeastOf
<1> USE DEF Bad
<1>2. m # 0
  BY <1>1 DEF IsMining
<1>3. m \in 1..Len(p) /\ m \in 1..Len(q) /\ m - 1 \in 0..Len(p) /\ ~(m <= m - 1)
  BY <1>1, <1>2
<1>4. a[m - 1] = b[m - 1]
  BY <1>1, <1>3
<1>5. a[m] = b[m]
  BY <1>3, <1>4 DEF IsMining
<1> QED  BY <1>1, <1>5

LEMMA AllMinedDef ==
  ASSUME NEW F, NEW who, NEW T, NEW q \in Seq(T), NEW after, IsMining(F, who, q, after)
  PROVE  AllMined(F, who, q) = after[Len(q)]
<1> DEFINE g == CHOOSE a : a = Mining(F, who, q, a)
<1>1. after = Mining(F, who, q, after)
  <2>1. \A n \in 0..Len(q) : after[n] = Mining(F, who, q, after)[n]
    BY DEF IsMining, Mining
  <2> QED  BY <2>1 DEF IsMining, Mining
<1>2. g = Mining(F, who, q, g)
  BY <1>1
<1>3. IsMining(F, who, q, g)
  <2> HIDE DEF g
  <2>1. g = [n \in 0..Len(q) |-> g[n]]
    BY <1>2 DEF Mining
  <2>2. g[0] = F
    BY <1>2 DEF Mining
  <2>3. \A n \in 1..Len(q) : g[n] = Mined(g[n - 1], who, q[n])
    BY <1>2 DEF Mining
  <2> QED  BY <2>1, <2>2, <2>3 DEF IsMining
<1>4. AllMined(F, who, q) = g[Len(q)]
  BY DEF AllMined, Mining
<1> HIDE DEF g
<1>5. g[Len(q)] = after[Len(q)]
  BY <1>3, MiningUnique
<1> QED  BY <1>4, <1>5

\* What every call of the queue leaves true is true in the end.
LEMMA AlongQueue ==
  ASSUME NEW F, NEW who, NEW T, NEW q \in Seq(T), NEW after, IsMining(F, who, q, after),
         NEW Q, NEW m \in 0..Len(q), after[m] \in Q,
         \A n \in 1..Len(q) : \A G \in Q : Mined(G, who, q[n]) \in Q
  PROVE  \A n \in m..Len(q) : after[n] \in Q
<1> DEFINE Bad == {n \in m..Len(q) : after[n] \notin Q}
<1>0. Bad \subseteq Nat
  OBVIOUS
<1>1. Bad = {}
  <2> SUFFICES ASSUME Bad # {} PROVE FALSE
    OBVIOUS
  <2> HIDE DEF Bad
  <2>1. PICK k \in Bad : \A j \in Bad : k <= j
    BY <1>0, LeastOf
  <2> USE DEF Bad
  <2>2. k # m
    BY <2>1
  <2>3. k \in 1..Len(q) /\ k - 1 \in m..Len(q) /\ ~(k <= k - 1)
    BY <2>1, <2>2
  <2>4. after[k - 1] \in Q
    BY <2>1, <2>3
  <2>5. after[k] \in Q
    BY <2>3, <2>4 DEF IsMining
  <2> QED  BY <2>1, <2>5
<1> QED  BY <1>1

\* In a batch that succeeds, each call succeeds in its turn.
LEMMA BatchTurns ==
  ASSUME NEW F, NEW who, NEW T, NEW q \in Seq(T), NEW after, IsMining(F, who, q, after),
         BatchAllowed(F, who, q), NEW n \in 1..Len(q)
  PROVE  Allowed(after[n - 1], who, q[n])
<1> DEFINE p == SubSeq(q, 1, n - 1)
<1>1. p \in Seq(T) /\ Len(p) = n - 1 /\ \A k \in 1..Len(p) : p[k] = q[k]
  OBVIOUS
<1>2. Allowed(AllMined(F, who, p), who, q[n])
  BY DEF BatchAllowed
<1> HIDE DEF p
<1>3. PICK b : IsMining(F, who, p, b)
  BY <1>1, MiningExists
<1>4. AllMined(F, who, p) = b[n - 1]
  BY <1>1, <1>3, AllMinedDef
<1>5. n - 1 \in 0..Len(p) /\ Len(p) <= Len(q)
  BY <1>1
<1>6. \A k \in 0..Len(p) : after[k] = b[k]
  <2>1. Len(p) \in Nat /\ Len(q) \in Nat
    BY <1>1
  <2>2. \A k \in 1..Len(p) : p[k] = q[k]
    BY <1>1
  <2>3. IsMining(F, who, q, after) /\ IsMining(F, who, p, b)
    BY <1>3
  <2>4. Len(p) <= Len(q)
    BY <1>5
  <2> QED  BY ONLY <2>1, <2>2, <2>3, <2>4, MiningUnique
<1> QED  BY <1>2, <1>4, <1>5, <1>6

LEMMA BatchKeeps ==
  ASSUME NEW s, NEW F \in SUBSET Facts, IsFiniteSet(F), Administered(F),
         NEW b \in Seq(Batchable(s))
  PROVE  Keeps(s, F, AllMined(F, Gov, b)) /\ MakesNothingNew(F, AllMined(F, Gov, b))
<1> DEFINE Q == {G \in SUBSET Facts : Keeps(s, F, G) /\ MakesNothingNew(F, G)}
<1>1. PICK after : IsMining(F, Gov, b, after)
  BY MiningExists
<1>2. after[0] \in Q
  BY <1>1, KeepsItself DEF IsMining
<1>3. ASSUME NEW n \in 1..Len(b), NEW G \in Q PROVE Mined(G, Gov, b[n]) \in Q
  <2>1. b[n] \in Batchable(s)
    OBVIOUS
  <2>2. CASE ~Allowed(G, Gov, b[n])
    BY <2>2 DEF Mined
  <2>3. CASE Allowed(G, Gov, b[n])
    <3>1. \A c \in STRING : GivesUp(b[n], c) => <<c, Admin, Gov>> \in G
      <4> SUFFICES ASSUME NEW c \in STRING, GivesUp(b[n], c) PROVE <<c, Admin, Gov>> \in G
        OBVIOUS
      <4> DEFINE k == <<c, Admin>>
      <4>1. k \in b[n].need /\ k[1] = c /\ k[2] = Admin
        BY <2>1 DEF Batchable
      <4> HIDE DEF k
      <4> QED  BY <2>3, <4>1 DEF Allowed
    <3>2. b[n] \in StepCalls(s) /\ MakesNothing(b[n])
      BY <2>1 DEF Batchable, Sendable
    <3>3. IsFiniteSet(G) /\ Administered(G) /\ G \in SUBSET Facts
      BY DEF Keeps
    <3>4. Keeps(s, G, Effect(G, b[n])) /\ MakesNothingNew(G, Effect(G, b[n]))
      BY <3>1, <3>2, <3>3, EffectKeepsAll
    <3>5. Keeps(s, F, Effect(G, b[n])) /\ MakesNothingNew(F, Effect(G, b[n]))
      BY <3>4, KeepsComposes
    <3>6. Effect(G, b[n]) \in SUBSET Facts
      BY <3>5 DEF Keeps
    <3> QED  BY <2>3, <3>5, <3>6 DEF Mined
  <2> QED  BY <2>2, <2>3
<1> HIDE DEF Q
<1>4. after[Len(b)] \in Q
  <2>1. 0 \in 0..Len(b) /\ Len(b) \in 0..Len(b)
    OBVIOUS
  <2> QED  BY <1>1, <1>2, <1>3, <2>1, AlongQueue
<1>5. AllMined(F, Gov, b) \in Q
  BY <1>1, <1>4, AllMinedDef
<1> QED  BY <1>5 DEF Q
-----------------------------------------------------------------------------
(* Redeemers *)

Paid(s, F, d)         == \E r \in Lasting(s, d) : Payout(d, r) \in F
GivesPayout(s, tx, d) == \E r \in Lasting(s, d) : Payout(d, r) \in tx.add
\* A call that takes collateral from a redeemer comes after one that gives it to a
\* lasting one.
Covered(s, F, b) ==
  \A n \in DOMAIN b : \A d \in ToSet(DStables) : TakesPayout(b[n], d) =>
    Paid(s, F, d) \/ \E m \in 1..(n - 1) : GivesPayout(s, b[m], d)

LEMMA PayoutStays ==
  ASSUME NEW s, NEW who, NEW G, NEW tx \in StepCalls(s), NEW d \in ToSet(DStables), NEW r,
         Payout(d, r) \in G, Payout(d, r) \notin tx.del
  PROVE  Payout(d, r) \in Mined(G, who, tx)
<1>1. <<Vault(d), Withdrawer>> \notin tx.clear
  BY DEF StepCalls, LeavesPayouts
<1>2. Payout(d, r)[1] = Vault(d) /\ Payout(d, r)[2] = Withdrawer
  BY DEF Payout
<1>3. Payout(d, r) \in Effect(G, tx)
  BY <1>1, <1>2, EffectKeeps
<1> QED  BY <1>3 DEF Mined

LEMMA BatchPays ==
  ASSUME NEW s, NEW F \in SUBSET Facts, NEW b \in Seq(Batchable(s)),
         BatchAllowed(F, Gov, b), Covered(s, F, b),
         NEW d \in ToSet(DStables), MayWithdraw(F, d)
  PROVE  MayWithdraw(AllMined(F, Gov, b), d)
<1>1. PICK after : IsMining(F, Gov, b, after)
  BY MiningExists
<1>2. \A n \in 1..Len(b) : b[n] \in StepCalls(s) /\ b[n] \in Calls
  BY DEF Batchable, Sendable, StepCalls
<1>3. \A n \in 0..Len(b) : after[n] \in SUBSET Facts
  <2> DEFINE Q == SUBSET Facts
  <2>1. after[0] \in Q /\ 0 \in 0..Len(b)
    BY <1>1 DEF IsMining
  <2>2. \A n \in 1..Len(b) : \A G \in Q : Mined(G, Gov, b[n]) \in Q
    BY <1>2, EffectFacts DEF Mined
  <2> HIDE DEF Q
  <2>3. \A n \in 0..Len(b) : after[n] \in Q
    BY <1>1, <2>1, <2>2, AlongQueue
  <2> QED  BY <2>3 DEF Q
<1>4. ASSUME NEW r \in Redeemers(d), NEW m \in 0..Len(b), Payout(d, r) \in after[m],
             \A n \in 1..Len(b) : Payout(d, r) \notin b[n].del
      PROVE  MayWithdraw(AllMined(F, Gov, b), d)
  <2> DEFINE Q == {G \in SUBSET Facts : Payout(d, r) \in G}
  <2>1. after[m] \in Q
    BY <1>3, <1>4
  <2>2. \A n \in 1..Len(b) : \A G \in Q : Mined(G, Gov, b[n]) \in Q
    BY <1>2, <1>4, PayoutStays, EffectFacts DEF Mined
  <2> HIDE DEF Q
  <2>3. Len(b) \in m..Len(b)
    OBVIOUS
  <2>4. after[Len(b)] \in Q
    BY <1>1, <2>1, <2>2, <2>3, AlongQueue
  <2>5. AllMined(F, Gov, b) \in Q
    BY <1>1, <2>4, AllMinedDef
  <2> QED  BY <2>5 DEF Q, MayWithdraw
<1>5. \A r \in Lasting(s, d) :
        r \in Redeemers(d) /\ \A n \in 1..Len(b) : Payout(d, r) \notin b[n].del
  BY <1>2 DEF StepCalls, Lasting
<1>6. after[0] = F /\ 0 \in 0..Len(b)
  BY <1>1 DEF IsMining
<1>7. CASE Paid(s, F, d)
  <2>1. PICK r \in Lasting(s, d) : Payout(d, r) \in F
    BY <1>7 DEF Paid
  <2> QED  BY <1>4, <1>5, <1>6, <2>1
<1>8. CASE \E m \in 1..Len(b) : GivesPayout(s, b[m], d)
  <2>1. PICK m \in 1..Len(b), r \in Lasting(s, d) : Payout(d, r) \in b[m].add
    BY <1>8 DEF GivesPayout
  <2>2. Allowed(after[m - 1], Gov, b[m])
    BY <1>1, BatchTurns
  <2>3. after[m] = Effect(after[m - 1], b[m])
    BY <1>1, <2>2 DEF IsMining, Mined
  <2>4. Payout(d, r) \in after[m] /\ m \in 0..Len(b)
    BY <2>1, <2>3, EffectAdds
  <2> QED  BY <1>4, <1>5, <2>4
<1>9. CASE \A n \in 1..Len(b) : ~TakesPayout(b[n], d)
  <2>1. PICK r \in Redeemers(d) : Payout(d, r) \in F
    BY DEF MayWithdraw
  <2>2. \A n \in 1..Len(b) : Payout(d, r) \notin b[n].del
    BY <1>9 DEF TakesPayout
  <2> QED  BY <1>4, <1>6, <2>1, <2>2
<1>10. CASE \E n \in 1..Len(b) : TakesPayout(b[n], d)
  <2>1. PICK n \in 1..Len(b) : TakesPayout(b[n], d)
    BY <1>10
  <2>2. n \in DOMAIN b
    OBVIOUS
  <2>3. Paid(s, F, d) \/ \E m \in 1..(n - 1) : GivesPayout(s, b[m], d)
    BY <2>1, <2>2 DEF Covered
  <2>4. \A m \in 1..(n - 1) : m \in 1..Len(b)
    OBVIOUS
  <2> QED  BY <1>7, <1>8, <2>3, <2>4
<1> QED  BY <1>9, <1>10
-----------------------------------------------------------------------------
(* The calls the scripts and the tools make are calls of the scene *)

LEMMA ScriptCalls ==
  ASSUME NEW s \in DOMAIN Scenes, NEW script \in ToSet(Orders[s]),
         NEW block \in ToSet(script.blocks), NEW k \in DOMAIN block.steps
  PROVE  /\ block.steps[k] \in ScriptSteps
         /\ block.steps[k].tx \in StepCalls(s)
         /\ block.steps[k].op # "deploy" => block.steps[k].tx \in Sendable(s)
         /\ block.steps[k].op \in {"queue", "queueWait"} => block.steps[k].tx \in Batchable(s)
<1> DEFINE step == block.steps[k]
           tx   == step.tx
<1>1. script \in Scripts
  BY OrdersAssumption DEF ToSet
<1>2. block \in ScriptBlocks
  BY <1>1 DEF ToSet, Scripts
<1>3. block.steps \in Seq(ScriptSteps)
  BY <1>2 DEF ScriptBlocks
<1>4. step \in ScriptSteps
  BY <1>3
<1>5. tx \in Calls
  BY <1>4 DEF ScriptSteps
<1>6. step \in StepsOf(s)
  BY DEF StepsOf, ToSet
<1> HIDE DEF step
<1>7. /\ IsFiniteSet(Adds(tx)) /\ KeepsAdmins(tx)
      /\ step.op # "deploy" => MakesNothing(tx)
      /\ Spares(Scenes[s].manifest, tx) /\ LeavesPayouts(s, tx)
  BY <1>6, ScriptsAssumption
<1>8. HandsOverFirst(block.steps) /\ ReplacesFirst(s, block.steps)
  BY ScriptsAssumption
<1>9. ASSUME NEW d \in ToSet(DStables), TakesPayout(tx, d)
      PROVE  <<Vault(d), Admin>> \in tx.need /\ d \in TakenFrom(s)
  <2>1. ByGovernance(step, d)
    BY <1>8, <1>9 DEF ReplacesFirst, step
  <2>2. d \in TakenFrom(s)
    BY <1>6, <1>9 DEF TakenFrom
  <2> QED  BY <2>1, <2>2 DEF ByGovernance
<1>10. \A d \in ToSet(DStables) : \A r \in Lasting(s, d) : Payout(d, r) \notin tx.del
  BY <1>6 DEF Lasting
<1>11. KeepsFeeds(s, tx) /\ KeepsAssets(tx)
  BY <1>6, PricesAssumption
<1>12. tx \in StepCalls(s)
  BY <1>5, <1>7, <1>9, <1>10, <1>11 DEF StepCalls
<1>13. step.op # "deploy" => tx \in Sendable(s)
  BY <1>7, <1>12 DEF Sendable
<1>14. ASSUME step.op \in {"queue", "queueWait"} PROVE tx \in Batchable(s)
  <2>1. ASSUME NEW c \in STRING PROVE ~GivesUp(tx, c)
    <3> DEFINE f == <<c, Admin, Deployer>>
    <3>1. f[2] = Admin /\ f[3] = Deployer
      OBVIOUS
    <3> HIDE DEF f
    <3>2. f \notin tx.del
      BY <1>8, <1>14, <3>1 DEF HandsOverFirst, step
    <3> QED  BY <3>2 DEF GivesUp, f
  <2> QED  BY <1>13, <1>14, <2>1 DEF Batchable
<1> QED  BY <1>4, <1>12, <1>13, <1>14 DEF step

\* The calls of grant-default-admin and transfer-ownership, and of revoke-roles:
\* none has to do with payouts, prices or assets.
PricesNothing(tx) == Unfed(tx) = {} /\ ReliesOn(tx) = {}
Gifts(s)       == {tx \in Sendable(s) : tx.del = {} /\ PricesNothing(tx)}
Retractions(s) == {tx \in Batchable(s) : PricesNothing(tx) /\ \A d \in ToSet(DStables) : ~TakesPayout(tx, d)}

LEMMA GrantIsGift ==
  ASSUME NEW s, NEW c \in STRING
  PROVE  Grant(c, Admin, Gov) \in Gifts(s)
<1> DEFINE tx == Grant(c, Admin, Gov)
           f  == <<c, Admin, Gov>>
<1>1. tx.need = {<<c, Admin>>} /\ tx.clear = {} /\ tx.add = {f} /\ tx.del = {} /\ tx.tries = {}
  BY DEF Grant, Call
<1>2. tx \in Calls
  <2>1. c \in STRING /\ Admin \in STRING /\ Gov \in STRING
    BY NamesAssumption
  <2> QED  BY <2>1 DEF Grant, Call, Calls, Keys, Facts
<1>3. f[1] = c /\ f[2] = Admin /\ f[3] = Gov
  OBVIOUS
<1> HIDE DEF tx, f
<1>4. Adds(tx) = {f}
  BY <1>1 DEF Adds
<1>5. IsFiniteSet(Adds(tx))
  BY <1>4, FS_Singleton
<1>6. HasAdmin(tx.add, c)
  BY <1>1 DEF HasAdmin, f
<1>7. KeepsAdmins(tx)
  BY <1>1, <1>3, <1>4, <1>6 DEF KeepsAdmins
<1>8. MakesNothing(tx)
  BY <1>3, <1>4 DEF MakesNothing, Admin, Gov, Deployer
<1>9. Spares(Scenes[s].manifest, tx)
  BY <1>1 DEF Spares
<1>10. LeavesPayouts(s, tx)
  <2>1. \A d : <<Vault(d), Admin, Deployer>> # f
    BY DEF f, Gov, Deployer
  <2> QED  BY <1>1, <1>4, <2>1 DEF LeavesPayouts
<1>11. PricesNothing(tx) /\ KeepsFeeds(s, tx)
  <2>1. Unfed(tx) = {}
    BY <1>1 DEF Unfed
  <2>2. ~Points(f) /\ \A i : HasAdapter(i) # f
    BY <1>3, NamesAssumption DEF Points, HasAdapter, Admin
  <2>3. ReliesOn(tx) = {}
    BY <1>4, <2>2 DEF ReliesOn
  <2>4. \A k : <<k[1], OracleManager, Deployer>> # f
    BY DEF f, Gov, Deployer
  <2> QED  BY <1>4, <2>1, <2>3, <2>4 DEF PricesNothing, KeepsFeeds
<1>12. KeepsAssets(tx)
  <2>1. \A i : HasAdapter(i) # f
    BY DEF f, HasAdapter, Admin
  <2> QED  BY <1>1, <1>4, <2>1 DEF KeepsAssets, Removes
<1>13. tx \in StepCalls(s)
  BY <1>1, <1>2, <1>5, <1>7, <1>9, <1>10, <1>11, <1>12 DEF StepCalls, TakesPayout
<1> QED  BY <1>1, <1>8, <1>13, <1>11 DEF Gifts, Sendable, tx

LEMMA TransferIsGift ==
  ASSUME NEW s \in DOMAIN Scenes, NEW c \in STRING,
         NEW to \in Selection(Scenes[s].manifest, c, "ownable", TRUE)
  PROVE  Put(c, Owner, Owner, to) \in Gifts(s)
<1> DEFINE tx == Put(c, Owner, Owner, to)
           f  == <<c, Owner, to>>
           k  == <<c, Owner>>
           m  == Scenes[s].manifest
<1>1. /\ tx.need = {k} /\ tx.clear = {k} /\ tx.add = {f} /\ tx.del = {} /\ tx.tries = {}
  BY DEF Put, Call
<1>2. to \in STRING
  <2>1. (\A o \in m.overrides : o.to \in STRING) /\ m.defaults["ownable"] \in STRING
    BY ManifestsAssumption DEF Kinds
  <2> QED  BY <2>1 DEF Selection, Overriding
<1>3. tx \in Calls
  <2>1. Owner \in STRING
    BY NamesAssumption
  <2> QED  BY <1>2, <2>1 DEF Put, Call, Calls, Keys, Facts
<1>4. f[1] = c /\ f[2] = Owner /\ k[1] = c /\ k[2] = Owner
  OBVIOUS
<1> HIDE DEF tx, f, k
<1>5. Adds(tx) = {f}
  BY <1>1 DEF Adds
<1>6. IsFiniteSet(Adds(tx))
  BY <1>5, FS_Singleton
<1>7. Owner # Admin /\ Owner # "deployed" /\ Owner # Withdrawer
  BY DEF Owner, Admin, Withdrawer
<1>8. KeepsAdmins(tx)
  BY <1>1, <1>4, <1>5, <1>7 DEF KeepsAdmins
<1>9. MakesNothing(tx)
  BY <1>4, <1>5, <1>7 DEF MakesNothing
<1>10. Spares(m, tx)
  <2>1. KindOf(Owner) = "ownable"
    BY DEF KindOf
  <2>2. ~LeftAlone(m, k)
    BY <1>4, <2>1, ExcludedIsLeftAlone DEF LeftAlone
  <2> QED  BY <1>1, <2>2 DEF Spares
<1>11. LeavesPayouts(s, tx)
  <2>1. \A d : <<Vault(d), Admin, Deployer>> # f /\ <<Vault(d), Withdrawer>> # k
    BY <1>7 DEF f, k
  <2> QED  BY <1>1, <1>5, <2>1 DEF LeavesPayouts
<1>12. PricesNothing(tx) /\ KeepsFeeds(s, tx)
  <2>1. Unfed(tx) = {}
    BY <1>1, <1>4 DEF Unfed
  <2>2. ~Points(f) /\ \A i : HasAdapter(i) # f
    BY <1>4 DEF Points, HasAdapter, Owner
  <2>3. ReliesOn(tx) = {}
    BY <1>5, <2>2 DEF ReliesOn
  <2>4. \A h : <<h[1], OracleManager, Deployer>> # f
    BY DEF f, Owner, OracleManager
  <2> QED  BY <1>5, <2>1, <2>3, <2>4 DEF PricesNothing, KeepsFeeds
<1>13. KeepsAssets(tx)
  <2>1. \A i : HasAdapter(i) # f
    BY DEF f, HasAdapter, Owner
  <2>2. \A i : <<Supported(i)[1], Supported(i)[2]>> # k
    BY DEF k, Supported, Owner
  <2> QED  BY <1>1, <1>5, <2>1, <2>2 DEF KeepsAssets, Removes
<1>14. tx \in StepCalls(s)
  BY <1>1, <1>3, <1>6, <1>8, <1>10, <1>11, <1>12, <1>13 DEF StepCalls, TakesPayout
<1> QED  BY <1>1, <1>9, <1>14, <1>12 DEF Gifts, Sendable, tx

LEMMA RevokeIsRetraction ==
  ASSUME NEW s \in DOMAIN Scenes, NEW c \in STRING, NEW r \in RoleNames, r \in STRING,
         RevocationIncluded(Scenes[s].manifest, c)
  PROVE  Revoke(c, r, Deployer) \in Retractions(s)
<1> DEFINE tx == Revoke(c, r, Deployer)
           f  == <<c, r, Deployer>>
           m  == Scenes[s].manifest
<1>1. /\ tx.need = {<<c, Admin>>} /\ tx.clear = {} /\ tx.add = {} /\ tx.del = {f} /\ tx.tries = {}
  BY DEF Revoke, Call
<1>2. tx \in Calls
  <2>1. Admin \in STRING /\ Deployer \in STRING
    BY NamesAssumption
  <2> QED  BY <2>1 DEF Revoke, Call, Calls, Keys, Facts
<1>3. f[1] = c /\ f[2] = r /\ f[3] = Deployer
  OBVIOUS
<1>4. \A d \in STRING : <<d, Admin, Deployer>> = f => d = c
  OBVIOUS
<1>5. \A d, w : Payout(d, w) = f => w = Deployer
  BY DEF Payout
<1> HIDE DEF tx, f
<1>6. Adds(tx) = {}
  BY <1>1 DEF Adds
<1>7. IsFiniteSet(Adds(tx))
  BY <1>6, FS_EmptySet
<1>8. KeepsAdmins(tx)
  BY <1>1, <1>3, <1>6 DEF KeepsAdmins, Gov, Deployer
<1>9. MakesNothing(tx)
  BY <1>6 DEF MakesNothing
<1>10. Spares(m, tx)
  <2>1. KindOf(r) = "defaultAdmin"
    BY NamesAssumption DEF KindOf
  <2>2. ~LeftAlone(m, f)
    BY <1>3, <2>1 DEF LeftAlone, RevocationIncluded
  <2> QED  BY <1>1, <2>2 DEF Spares
<1>11. LeavesPayouts(s, tx)
  BY <1>1, <1>6 DEF LeavesPayouts
<1>12. \A d \in ToSet(DStables) : ~TakesPayout(tx, d)
  BY <1>1, <1>5, NamesAssumption DEF TakesPayout
<1>13. \A d \in ToSet(DStables) : \A w \in Lasting(s, d) : Payout(d, w) \notin tx.del
  BY <1>12 DEF Lasting, TakesPayout
<1>14. PricesNothing(tx) /\ KeepsFeeds(s, tx)
  <2>1. Unfed(tx) = {}
    <3>1. Deployer \notin FeedValues
      BY Zenon DEF Deployer, FeedValues
    <3> QED  BY <1>1, <1>3, <3>1 DEF Unfed
  <2>2. ReliesOn(tx) = {}
    BY <1>6 DEF ReliesOn
  <2> QED  BY <1>6, <2>1, <2>2 DEF PricesNothing, KeepsFeeds
<1>15. KeepsAssets(tx)
  <2>1. \A i : Supported(i) # f
    BY <1>3 DEF Supported, DStable, Deployer
  <2> QED  BY <1>1, <1>6, <2>1 DEF KeepsAssets, Removes
<1>16. tx \in StepCalls(s)
  BY <1>2, <1>7, <1>8, <1>10, <1>11, <1>12, <1>13, <1>14, <1>15 DEF StepCalls
<1>17. \A d \in STRING : GivesUp(tx, d) => <<d, Admin>> \in tx.need
  BY <1>1, <1>4 DEF GivesUp
<1> QED  BY <1>9, <1>12, <1>16, <1>17, <1>14 DEF Retractions, Batchable, Sendable, tx

LEMMA PlansAreKnown ==
  ASSUME NEW s \in DOMAIN Scenes, NEW m, m = Scenes[s].manifest,
         scene.manifest = m, NEW F \in SUBSET Facts, IsFiniteSet(F), NEW name \in Tools
  PROVE  /\ name # "revoke" => Plan(name, F) \in SUBSET Gifts(s)
         /\ name = "revoke" => /\ Plan(name, F) \in SUBSET Retractions(s)
                               /\ IsFiniteSet(Plan(name, F))
<1>1. Scanned(F) \in SUBSET STRING
  BY FactParts DEF Scanned
<1>2. Grants(F) \in SUBSET Gifts(s)
  BY <1>1, GrantIsGift DEF Grants
<1>3. Transfers(F) \in SUBSET Gifts(s)
  <2>1. ASSUME NEW d \in Scanned(F), NEW to \in Selection(Manifest, d, "ownable", TRUE)
        PROVE  Put(d, Owner, Owner, to) \in Gifts(s)
    <3>1. d \in STRING /\ to \in Selection(Scenes[s].manifest, d, "ownable", TRUE)
      BY <1>1 DEF Manifest
    <3> QED  BY <3>1, TransferIsGift
  <2>2. ASSUME NEW tx \in Transfers(F)
        PROVE  \E d \in Scanned(F) : \E to \in Selection(Manifest, d, "ownable", TRUE) :
                 tx = Put(d, Owner, Owner, to)
    BY Zenon DEF Transfers
  <2> QED  BY <2>1, <2>2
<1> DEFINE X == {g \in rolesHeldByDeployer(F) : RevocationIncluded(Manifest, g[1])}
<1>4. X \subseteq F /\ \A f \in X : f[2] \in RoleNames /\ RevocationIncluded(m, f[1])
  BY DEF rolesHeldByDeployer, Manifest
<1>5. Revocations(F) = {Revoke(f[1], f[2], Deployer) : f \in X}
  BY DEF Revocations
<1> HIDE DEF X
<1>6. Revocations(F) \in SUBSET Retractions(s)
  <2> SUFFICES ASSUME NEW f \in X PROVE Revoke(f[1], f[2], Deployer) \in Retractions(s)
    BY <1>5
  <2>1. f[1] \in STRING /\ f[2] \in STRING
    BY <1>4, FactParts
  <2> QED  BY <1>4, <2>1, RevokeIsRetraction
<1>7. IsFiniteSet(Revocations(F))
  <2> DEFINE g == [f \in X |-> Revoke(f[1], f[2], Deployer)]
  <2>1. IsFiniteSet(X)
    BY <1>4, FS_Subset
  <2>2. g \in [X -> Revocations(F)]
    BY <1>5
  <2>3. \A t \in Revocations(F) : \E f \in X : g[f] = t
    BY <1>5
  <2> HIDE DEF g
  <2>4. g \in Surjection(X, Revocations(F))
    BY <2>2, <2>3 DEF Surjection
  <2> QED  BY <2>1, <2>4, FS_Surjection
<1>8. {} \in SUBSET Retractions(s) /\ IsFiniteSet({})
  BY FS_EmptySet
<1>9. CASE name = "grant"
  BY <1>2, <1>9 DEF Plan
<1>10. CASE name = "transfer"
  BY <1>3, <1>10 DEF Plan
<1>11. CASE name = "revoke"
  BY <1>6, <1>7, <1>8, <1>11 DEF Plan
<1> QED  BY <1>9, <1>10, <1>11 DEF Tools
-----------------------------------------------------------------------------
(* The states of a deployment *)

\* A sent call that makes governance admin of c is among the first n of the queue,
\* unless governance is admin already, or the deployer has nothing to give up.
Handed(F, queue, n, c) ==
  \/ <<c, Admin, Gov>> \in F \/ <<c, Admin, Deployer>> \notin F
  \/ \E m \in 1..n : Hands(queue[m], c)

SceneOK == scene.name \in DOMAIN Scenes /\ scene = Settings(scene.name)

PlaceOK ==
  /\ pc \in Nat \X Nat \X Nat
  /\ ~Idle => /\ running \in ToSet(Orders[scene.name])
              /\ pc[2] >= 1 /\ pc[3] >= 1
              /\ pc[2] <= Len(running.blocks) => pc[3] <= Len(Block.steps)

CallsOK ==
  /\ mempool \in Seq(Sendable(scene.name))
  /\ batch \in Seq(Batchable(scene.name))
  /\ proposals \in SUBSET Seq(Batchable(scene.name))

ToolOK ==
  /\ tool = [name |-> tool.name, todo |-> tool.todo]
  /\ tool.name # "revoke" => tool.todo \in SUBSET Gifts(scene.name)
  /\ tool.name = "revoke" => /\ tool.todo \in SUBSET Retractions(scene.name)
                             /\ IsFiniteSet(tool.todo)

ChainOK == chain \in SUBSET Facts /\ IsFiniteSet(chain) /\ Administered(chain)

\* What the deployer gives up in a sent call, governance has got by then.
QueueOK ==
  \A n \in 1..Len(mempool) : \A c \in STRING :
    GivesUp(mempool[n], c) => Handed(chain, mempool, n - 1, c)

\* Behind a step that secures the admin of a contract, it is secured, until the
\* next deployment in the block.
HandoverOK ==
  AtStep =>
    \A j \in 1..(pc[3] - 1) : \A c \in STRING :
      Secures(Block.steps[j], c) /\ (\A l \in j..(pc[3] - 1) : Block.steps[l].op # "deploy") =>
        Handed(chain, mempool, Len(mempool), c) \/ ~(Block.steps[j].when \subseteq chain)

\* Where redeemers are replaced the deployer is not the admin of the vault, and
\* every batch gives before it takes, in the block that makes it as well.
RedeemersOK ==
  LET s == scene.name
  IN  /\ \A d \in TakenFrom(s) : <<Vault(d), Admin, Deployer>> \notin chain
      /\ Covered(s, chain, batch) /\ \A b \in proposals : Covered(s, chain, b)
      /\ AtStep /\ UseSafe =>
           \A j \in 1..(pc[3] - 1) : \A d \in TakenFrom(s) : Replaces(s, Block.steps[j], d) =>
             Paid(s, chain, d) \/ \E m \in 1..Len(batch) : GivesPayout(s, batch[m], d)

TypeOK == SceneOK /\ PlaceOK /\ CallsOK /\ ToolOK /\ ChainOK
IInv   == TypeOK /\ QueueOK /\ HandoverOK /\ RedeemersOK
-----------------------------------------------------------------------------
(* At a step of a script *)

LEMMA SettingsOf ==
  ASSUME SceneOK
  PROVE  /\ scene.name \in DOMAIN Scenes
         /\ scene.manifest = Scenes[scene.name].manifest
         /\ scene.tools = Scenes[scene.name].tools /\ scene.tools \subseteq Tools
<1> DEFINE s == scene.name
<1>1. s \in DOMAIN Scenes /\ scene = Settings(s)
  BY DEF SceneOK
<1>2. {"manifest", "tools"} \subseteq DOMAIN Scenes[s] /\ Scenes[s].tools \subseteq Tools
  BY <1>1, ManifestsAssumption
<1> HIDE DEF s
<1>3. Settings(s).manifest = Scenes[s].manifest /\ Settings(s).tools = Scenes[s].tools
  BY <1>2 DEF Settings
<1> QED  BY <1>1, <1>2, <1>3 DEF s

LEMMA AtTheStep ==
  ASSUME SceneOK, PlaceOK, AtStep
  PROVE  /\ pc[1] \in Nat /\ pc[2] \in Nat /\ pc[3] \in Nat /\ Len(Block.steps) \in Nat
         /\ pc[3] >= 1 /\ pc[3] <= Len(Block.steps) /\ pc[3] \in DOMAIN Block.steps
         /\ Here.tx \in StepCalls(scene.name)
         /\ Here.op # "deploy" => Here.tx \in Sendable(scene.name)
         /\ Here.op \in {"queue", "queueWait"} => Here.tx \in Batchable(scene.name)
         /\ Here \in StepsOf(scene.name)
         /\ HandsOverFirst(Block.steps) /\ ReplacesFirst(scene.name, Block.steps)
<1> DEFINE s == scene.name
<1>1. s \in DOMAIN Scenes /\ running \in ToSet(Orders[s])
  BY DEF SceneOK, PlaceOK, AtStep
<1>2. pc \in Nat \X Nat \X Nat /\ pc[2] >= 1 /\ pc[3] >= 1 /\ pc[2] <= Len(running.blocks)
      /\ pc[3] <= Len(Block.steps)
  BY DEF PlaceOK, AtStep
<1>3. pc[1] \in Nat /\ pc[2] \in Nat /\ pc[3] \in Nat
  BY <1>2
<1>4. running \in Scripts
  BY <1>1, OrdersAssumption DEF ToSet
<1>5. running.blocks \in Seq(ScriptBlocks)
  BY <1>4 DEF Scripts
<1>6. Block \in ToSet(running.blocks) /\ Block \in ScriptBlocks
  BY <1>2, <1>3, <1>5 DEF ToSet, Block
<1> HIDE DEF s
<1>7. Block.steps \in Seq(ScriptSteps)
  BY <1>6 DEF ScriptBlocks
<1>8. Len(Block.steps) \in Nat /\ pc[3] \in DOMAIN Block.steps
  BY <1>2, <1>3, <1>7
<1>9. /\ Here.tx \in StepCalls(s)
      /\ Here.op # "deploy" => Here.tx \in Sendable(s)
      /\ Here.op \in {"queue", "queueWait"} => Here.tx \in Batchable(s)
  BY <1>1, <1>6, <1>8, ScriptCalls DEF Here
<1>10. Here \in StepsOf(s)
  BY <1>1, <1>6, <1>8 DEF StepsOf, ToSet, Here
<1>11. HandsOverFirst(Block.steps) /\ ReplacesFirst(s, Block.steps)
  BY <1>1, <1>6, ScriptsAssumption
<1> QED  BY <1>2, <1>3, <1>8, <1>9, <1>10, <1>11 DEF s

\* What a step gives up is secured when the step applies.
LEMMA GivenUpIsSecured ==
  ASSUME SceneOK, PlaceOK, HandoverOK, AtStep, Applies, NEW c \in STRING, GivesUp(Here.tx, c)
  PROVE  Handed(chain, mempool, Len(mempool), c)
<1> DEFINE f == <<c, Admin, Deployer>>
           steps == Block.steps
           k == pc[3]
<1>1. f \in steps[k].tx.del /\ f[1] = c /\ f[2] = Admin /\ f[3] = Deployer
  BY DEF GivesUp, Here
<1>2. HandsOverFirst(steps) /\ k \in DOMAIN steps
  BY AtTheStep
<1> HIDE DEF f
<1>3. PICK j \in 1..(k - 1) :
        /\ Secures(steps[j], c) /\ steps[j].when \subseteq steps[k].when
        /\ \A l \in j..(k - 1) : steps[l].op # "deploy"
  BY <1>1, <1>2 DEF HandsOverFirst
<1>4. Handed(chain, mempool, Len(mempool), c) \/ ~(steps[j].when \subseteq chain)
  BY <1>3 DEF HandoverOK
<1>5. steps[k].when \subseteq chain
  BY DEF Applies, Here
<1> QED  BY <1>3, <1>4, <1>5

\* A call the deployer can make does not take collateral from a redeemer.
LEMMA DeployerTakesNothing ==
  ASSUME NEW s, NEW F, NEW tx \in StepCalls(s), Allowed(F, Deployer, tx),
         \A d \in TakenFrom(s) : <<Vault(d), Admin, Deployer>> \notin F,
         NEW d \in ToSet(DStables)
  PROVE  ~TakesPayout(tx, d)
<1> SUFFICES ASSUME TakesPayout(tx, d) PROVE FALSE
  OBVIOUS
<1> DEFINE k == <<Vault(d), Admin>>
<1>1. k \in tx.need /\ d \in TakenFrom(s) /\ k[1] = Vault(d) /\ k[2] = Admin
  BY DEF StepCalls
<1> HIDE DEF k
<1>2. <<Vault(d), Admin, Deployer>> \in F
  BY <1>1 DEF Allowed
<1> QED  BY <1>1, <1>2

\* As long as governance stays and nobody else becomes admin, what was handed over
\* stays so.
LEMMA HandedStays ==
  ASSUME NEW s, NEW F, NEW G, Keeps(s, F, G), MakesNothingNew(F, G),
         NEW q, NEW p, NEW n \in Nat, NEW m \in Nat, n <= m, \A k \in 1..n : p[k] = q[k],
         NEW c, Handed(F, q, n, c)
  PROVE  Handed(G, p, m, c)
<1> DEFINE g == <<c, Admin, Gov>>
           f == <<c, Admin, Deployer>>
<1>1. g[2] = Admin /\ g[3] = Gov /\ f[2] = Admin /\ f[3] = Deployer
  OBVIOUS
<1>2. CASE g \in F
  <2> HIDE DEF g
  <2>1. g \in G
    BY <1>1, <1>2 DEF Keeps
  <2> QED  BY <2>1 DEF Handed, g
<1>3. CASE f \notin F
  <2> HIDE DEF f
  <2>1. f \notin G
    BY <1>1, <1>3 DEF MakesNothingNew
  <2> QED  BY <2>1 DEF Handed, f
<1>4. CASE \E k \in 1..n : Hands(q[k], c)
  <2>1. PICK k \in 1..n : Hands(q[k], c)
    BY <1>4
  <2>2. k \in 1..m /\ p[k] = q[k]
    BY <2>1
  <2> QED  BY <2>1, <2>2 DEF Handed
<1> QED  BY <1>2, <1>3, <1>4 DEF Handed

\* When the first call of the queue is mined, it hands over what it was sent for.
LEMMA HandedWhenMined ==
  ASSUME NEW s, NEW F, NEW q \in Seq(StepCalls(s)), q # <<>>,
         Keeps(s, F, Mined(F, Deployer, Head(q))), MakesNothingNew(F, Mined(F, Deployer, Head(q))),
         NEW n \in 1..Len(q), NEW c, Handed(F, q, n, c)
  PROVE  Handed(Mined(F, Deployer, Head(q)), Tail(q), n - 1, c)
<1> DEFINE G == Mined(F, Deployer, Head(q))
           g == <<c, Admin, Gov>>
           f == <<c, Admin, Deployer>>
<1>1. g[2] = Admin /\ g[3] = Gov /\ f[2] = Admin /\ f[3] = Deployer
  OBVIOUS
<1> HIDE DEF g, f
<1>2. CASE g \in F
  <2>1. g \in G
    BY <1>1, <1>2 DEF Keeps
  <2> QED  BY <2>1 DEF Handed, g
<1>3. CASE f \notin F
  <2>1. f \notin G
    BY <1>1, <1>3 DEF MakesNothingNew
  <2> QED  BY <2>1 DEF Handed, f
<1>4. CASE f \in F /\ Hands(q[1], c)
  <2>1. Allowed(F, Deployer, Head(q))
    <3>1. \A k \in {<<c, Admin>>} : k[1] = c /\ k[2] = Admin
      OBVIOUS
    <3> QED  BY <1>4, <3>1 DEF Hands, Allowed, f
  <2>2. g \in G
    BY <1>4, <2>1, EffectAdds DEF Hands, Mined, g
  <2> QED  BY <2>2 DEF Handed, g
<1>5. CASE \E k \in 2..n : Hands(q[k], c)
  <2>1. PICK k \in 2..n : Hands(q[k], c)
    BY <1>5
  <2>2. k - 1 \in 1..(n - 1) /\ Tail(q)[k - 1] = q[k]
    BY <2>1
  <2> QED  BY <2>1, <2>2 DEF Handed
<1>6. \A k \in 1..n : k = 1 \/ k \in 2..n
  OBVIOUS
<1> QED  BY <1>2, <1>3, <1>4, <1>5, <1>6 DEF Handed, f, g
-----------------------------------------------------------------------------
(* What a step does with the place of the run, and with the batch it gathers *)

Stays  == UNCHANGED <<pc, running, batch>>
Skips  ==
  /\ AtStep /\ pc' = NextBlock /\ UNCHANGED <<running, batch>>
  /\ Block.kind # "plain" \/ (Here.op \in {"confirm", "leave"} /\ Applies)
Stops  == Stop /\ batch' = <<>>
\* The next script that is not recorded starts, behind one that is over.
Starts ==
  /\ batch' = <<>>
  /\ \E k \in 1..Len(Orders[scene.name]) :
       /\ pc' = <<k, 1, 1>> /\ running' = Orders[scene.name][k]
       /\ \A l \in (pc[1] + 1)..Len(Orders[scene.name]) : Orders[scene.name][l].id \notin recorded' => k <= l
  /\ \/ Idle
     \/ AtStep /\ Here.op = "return" /\ Applies
     \/ AtFinish /\ (Succeeds => running.id \in recorded')
\* The run goes on to the next step, because:
Passes ==
  /\ AtStep /\ pc' = NextStep /\ UNCHANGED running
  /\ \/ ~Applies /\ UNCHANGED <<chain, batch>>
     \/ Here.op \in {"expect", "confirm"} /\ Here.fact \in chain /\ UNCHANGED <<chain, batch>>
     \/ Here.op = "rethrow" /\ UNCHANGED batch
     \/ /\ Here.op \in {"send", "attempt", "queue"} /\ Allowed(chain, Deployer, Here.tx)
        /\ mempool' = Append(mempool, Here.tx) /\ UNCHANGED <<chain, batch>>
     \/ /\ Here.op \in {"sendWait", "queueWait", "deploy"} /\ Allowed(chain, Deployer, Here.tx)
        /\ chain' = Effect(chain, Here.tx) /\ UNCHANGED batch
     \/ /\ Here.op \in {"queue", "queueWait", "attempt"}
        /\ batch' = IF Here.op \in {"queue", "queueWait"} /\ UseSafe
                    THEN Append(batch, Here.tx) ELSE batch

LEMMA ThrownMoves ==
  ASSUME AtStep, Thrown
  PROVE  Skips \/ Stops
<1>1. CASE Block.kind = "try" /\ Goto(NextBlock) /\ UNCHANGED InMemory
  BY <1>1 DEF Goto, InMemory, Skips
<1>2. CASE Block.kind = "protected" /\ Goto(NextBlock) /\ raised' = TRUE /\ UNCHANGED <<complete, batch>>
  BY <1>2 DEF Goto, Skips
<1>3. CASE Block.kind = "plain" /\ Stop /\ Fresh
  BY <1>3 DEF Fresh, Stops
<1> QED  BY <1>1, <1>2, <1>3 DEF Thrown

LEMMA FailureMoves ==
  ASSUME AtStep, Applies, CallFails
  PROVE  Passes \/ Skips \/ Stops
<1>1. CASE Here.op \in {"queue", "queueWait", "attempt"}
  BY <1>1 DEF CallFails, Goto, Passes
<1>2. CASE Here.op = "confirm"
  BY <1>2, ThrownMoves DEF CallFails, Goto, Skips
<1>3. CASE Here.op \notin {"queue", "queueWait", "attempt", "confirm"}
  BY <1>3, ThrownMoves DEF CallFails
<1> QED  BY <1>1, <1>2, <1>3

LEMMA StartMoves ==
  ASSUME pc[1] \in Nat, StartFrom(pc[1]), Fresh,
         \/ Idle \/ (AtStep /\ Here.op = "return" /\ Applies)
         \/ (AtFinish /\ (Succeeds => running.id \in recorded'))
  PROVE  Starts \/ Stops
<1> DEFINE order == Orders[scene.name]
           left  == {k \in (pc[1] + 1)..Len(order) : order[k].id \notin recorded'}
<1>1. CASE left = {} /\ Stop
  BY <1>1 DEF Stops, Fresh
<1>2. CASE \E k \in left : /\ \A l \in left : k <= l
                           /\ pc' = <<k, 1, 1>> /\ running' = order[k]
  <2>1. \A k \in left : k \in 1..Len(order)
    OBVIOUS
  <2>2. batch' = <<>>
    BY DEF Fresh
  <2> QED  BY <1>2, <2>1, <2>2 DEF Starts
<1> QED  BY <1>1, <1>2 DEF StartFrom

LEMMA Moves ==
  ASSUME PlaceOK, [ToolNext]_toolVars
  PROVE  Stays \/ Passes \/ Skips \/ Stops \/ Starts
<1>0. pc[1] \in Nat
  BY DEF PlaceOK
<1>1. CASE Start
  <2>1. pc[1] = 0
    BY <1>1 DEF Start, Idle
  <2> QED  BY <1>1, <2>1, StartMoves DEF Start, Idle
<1>2. CASE PassOver
  BY <1>2 DEF PassOver, Goto, Passes
<1>3. CASE ReadStep
  <2>1. CASE Here.op = "expect" /\ Here.fact \in chain /\ Goto(NextStep) /\ UNCHANGED InMemory
    BY <1>3, <2>1 DEF ReadStep, Goto, InMemory, Passes
  <2>2. CASE Thrown
    BY <1>3, <2>2, ThrownMoves DEF ReadStep
  <2>3. CASE Here.op = "confirm"
    <3>1. pc' = (IF Here.fact \in chain THEN NextStep ELSE NextBlock)
          /\ UNCHANGED <<running, batch, chain>> /\ AtStep /\ Applies
      BY <1>3, <2>3 DEF ReadStep, Goto
    <3> QED  BY <2>3, <3>1 DEF Passes, Skips
  <2>4. CASE Here.op = "rethrow" /\ Goto(NextStep) /\ UNCHANGED InMemory
    BY <1>3, <2>4 DEF ReadStep, Goto, InMemory, Passes
  <2>5. CASE Here.op = "leave" /\ Goto(NextBlock) /\ UNCHANGED InMemory
    BY <1>3, <2>5 DEF ReadStep, Goto, InMemory, Skips
  <2>6. CASE Here.op = "return" /\ StartFrom(pc[1]) /\ Fresh
    BY <1>0, <1>3, <2>6, StartMoves DEF ReadStep
  <2> QED  BY <1>3, <2>1, <2>2, <2>3, <2>4, <2>5, <2>6 DEF ReadStep
<1>4. CASE SendStep
  <2>1. CASE Allowed(chain, Deployer, Here.tx)
    BY <1>4, <2>1 DEF SendStep, Goto, InMemory, Passes
  <2>2. CASE ~Allowed(chain, Deployer, Here.tx)
    BY <1>4, <2>2, FailureMoves DEF SendStep
  <2> QED  BY <2>1, <2>2
<1>5. CASE WaitStep
  <2>1. CASE Allowed(chain, Deployer, Here.tx)
    BY <1>5, <2>1 DEF WaitStep, Goto, InMemory, Passes
  <2>2. CASE ~Allowed(chain, Deployer, Here.tx)
    BY <1>5, <2>2, FailureMoves DEF WaitStep
  <2> QED  BY <2>1, <2>2
<1>6. CASE Finish
  <2>1. Succeeds => running.id \in recorded'
    BY <1>6 DEF Finish
  <2> QED  BY <1>0, <1>6, <2>1, StartMoves DEF Finish
<1>7. CASE Mine \/ \E b \in proposals : SafeExecute(b) \/ SafeReject(b)
  BY <1>7 DEF Mine, SafeExecute, SafeReject, Stays
<1>8. CASE Kill
  BY <1>8 DEF Kill, Fresh, Stops
<1>9. CASE \E sent \in BOOLEAN : CallFault(sent)
  BY <1>9, FailureMoves DEF CallFault
<1>10. CASE ToolStep
  BY <1>10 DEF ToolStep, Scan, CallDirectly, PrepareBatch, ToolFault, KillTool, Stays
<1>11. CASE UNCHANGED toolVars
  BY <1>11 DEF toolVars, vars, Stays
<1> QED  BY <1>1, <1>2, <1>3, <1>4, <1>5, <1>6, <1>7, <1>8, <1>9, <1>10, <1>11
         DEF ToolNext, Next, Progress

LEMMA BlocksHaveSteps ==
  ASSUME NEW s \in DOMAIN Scenes, NEW script \in ToSet(Orders[s])
  PROVE  /\ Len(script.blocks) \in Nat
         /\ \A b \in Nat : b >= 1 /\ b <= Len(script.blocks) =>
              Len(script.blocks[b].steps) \in Nat /\ Len(script.blocks[b].steps) >= 1
<1>1. script \in Scripts
  BY OrdersAssumption DEF ToSet
<1>2. script.blocks \in Seq(ScriptBlocks)
  BY <1>1 DEF Scripts
<1>3. ASSUME NEW b \in Nat, b >= 1, b <= Len(script.blocks)
      PROVE  Len(script.blocks[b].steps) \in Nat /\ Len(script.blocks[b].steps) >= 1
  <2>1. script.blocks[b] \in ScriptBlocks
    BY <1>2, <1>3
  <2>2. script.blocks[b].steps \in Seq(ScriptSteps) /\ script.blocks[b].steps # <<>>
    BY <2>1 DEF ScriptBlocks
  <2> QED  BY <2>2
<1> QED  BY <1>2, <1>3

LEMMA SceneStays ==
  ASSUME [ToolNext]_toolVars
  PROVE  scene' = scene
BY DEF ToolNext, ToolStep, Scan, CallDirectly, PrepareBatch, ToolFault, KillTool, Next, Progress,
       Start, PassOver, ReadStep, SendStep, WaitStep, Finish, Mine, Kill, SafeExecute, SafeReject,
       CallFault, toolVars, vars

LEMMA PlaceKept ==
  ASSUME SceneOK, PlaceOK, [ToolNext]_toolVars
  PROVE  PlaceOK'
<1> DEFINE s == scene.name
<1>1. scene' = scene /\ s \in DOMAIN Scenes
  BY SceneStays DEF SceneOK
<1>2. CASE Stays
  BY <1>1, <1>2 DEF Stays, PlaceOK, Idle, Block
<1>3. CASE Stops
  BY <1>3 DEF Stops, Stop, PlaceOK, Idle
<1>4. CASE Starts
  <2>1. PICK k \in 1..Len(Orders[s]) : pc' = <<k, 1, 1>> /\ running' = Orders[s][k]
    BY <1>4 DEF Starts
  <2>2. Orders[s] \in Seq(Scripts)
    BY <1>1, OrdersAssumption
  <2> HIDE DEF s
  <2>3. k \in Nat /\ k # 0 /\ running' \in ToSet(Orders[s])
    BY <2>1, <2>2 DEF ToSet
  <2>4. pc'[1] = k /\ pc'[2] = 1 /\ pc'[3] = 1
    BY <2>1
  <2>5. 1 <= Len(running'.blocks) => 1 <= Len(running'.blocks[1].steps)
    <3>1. \A b \in Nat : b >= 1 /\ b <= Len(running'.blocks) =>
            Len(running'.blocks[b].steps) \in Nat /\ Len(running'.blocks[b].steps) >= 1
      BY <1>1, <2>3, BlocksHaveSteps
    <3> QED  BY <3>1
  <2>6. pc' \in Nat \X Nat \X Nat
    BY <2>1, <2>3
  <2> QED  BY <1>1, <2>3, <2>4, <2>5, <2>6 DEF PlaceOK, Idle, Block, s
<1>5. ASSUME AtStep, running' = running, pc' = NextBlock
      PROVE  PlaceOK'
  <2>1. /\ running \in ToSet(Orders[s]) /\ pc[1] \in Nat /\ pc[2] \in Nat /\ pc[1] # 0 /\ pc[2] >= 1
    BY <1>5, AtTheStep DEF PlaceOK, AtStep, Idle
  <2>2. pc'[1] = pc[1] /\ pc'[2] = pc[2] + 1 /\ pc'[3] = 1 /\ pc' \in Nat \X Nat \X Nat
    BY <1>5, <2>1 DEF NextBlock
  <2> HIDE DEF s
  <2>3. pc[2] + 1 <= Len(running.blocks) => 1 <= Len(running.blocks[pc[2] + 1].steps)
    <3>1. \A b \in Nat : b >= 1 /\ b <= Len(running.blocks) =>
            Len(running.blocks[b].steps) \in Nat /\ Len(running.blocks[b].steps) >= 1
      BY <1>1, <2>1, BlocksHaveSteps
    <3>2. pc[2] + 1 \in Nat /\ pc[2] + 1 >= 1
      BY <2>1
    <3> QED  BY <3>1, <3>2
  <2> QED  BY <1>1, <1>5, <2>1, <2>2, <2>3 DEF PlaceOK, Idle, Block, s
<1>6. CASE Skips
  BY <1>5, <1>6 DEF Skips
<1>7. CASE Passes
  <2>1. AtStep /\ running' = running /\ pc' = NextStep
    BY <1>7 DEF Passes
  <2>2. CASE pc[3] < Len(Block.steps)
    <3>1. /\ running \in ToSet(Orders[s]) /\ pc[1] \in Nat /\ pc[2] \in Nat /\ pc[3] \in Nat
          /\ pc[1] # 0 /\ pc[2] >= 1 /\ pc[3] >= 1 /\ Len(Block.steps) \in Nat
      BY <2>1, AtTheStep DEF PlaceOK, AtStep, Idle
    <3>2. pc'[1] = pc[1] /\ pc'[2] = pc[2] /\ pc'[3] = pc[3] + 1 /\ pc' \in Nat \X Nat \X Nat
      BY <2>1, <2>2, <3>1 DEF NextStep
    <3>3. pc'[3] <= Len(Block.steps) /\ Block' = Block
      BY <2>1, <2>2, <3>1, <3>2 DEF Block
    <3>4. running' \in ToSet(Orders[scene'.name]) /\ pc'[2] >= 1 /\ pc'[3] >= 1
          /\ pc'[3] <= Len(Block'.steps)
      BY <1>1, <2>1, <3>1, <3>2, <3>3
    <3> QED  BY <3>2, <3>4 DEF PlaceOK
  <2>3. CASE ~(pc[3] < Len(Block.steps))
    BY <1>5, <2>1, <2>3 DEF NextStep
  <2> QED  BY <2>2, <2>3
<1> QED  BY <1>2, <1>3, <1>4, <1>6, <1>7, Moves
-----------------------------------------------------------------------------
(* What a step does with the chain *)

LEMMA FirstInQueue ==
  ASSUME CallsOK, mempool # <<>>
  PROVE  /\ Head(mempool) = mempool[1] /\ Head(mempool) \in Sendable(scene.name)
         /\ Len(mempool) \in Nat /\ 1 \in 1..Len(mempool)
BY DEF CallsOK

\* A call of the deployer that was not sent before others.
CallNow(tx) ==
  /\ tx \in StepCalls(scene.name) /\ Allowed(chain, Deployer, tx) /\ chain' = Effect(chain, tx)
  /\ \A c \in STRING : GivesUp(tx, c) /\ <<c, Admin, Deployer>> \in chain => <<c, Admin, Gov>> \in chain
DeploysNow == AtStep /\ Here.op = "deploy" /\ pc' = NextStep /\ mempool = <<>> /\ mempool' = <<>>

LEMMA MinedCall ==
  ASSUME CallsOK, QueueOK, Mine
  PROVE  chain' = chain \/ \E tx : CallNow(tx) /\ MakesNothing(tx)
<1> DEFINE tx == Head(mempool)
<1>1. tx = mempool[1] /\ tx \in Sendable(scene.name) /\ 1 \in 1..Len(mempool)
  BY FirstInQueue DEF Mine
<1>2. chain' = Mined(chain, Deployer, tx)
  BY DEF Mine
<1> HIDE DEF tx
<1>3. CASE ~Allowed(chain, Deployer, tx)
  BY <1>2, <1>3 DEF Mined
<1>4. CASE Allowed(chain, Deployer, tx)
  <2>1. ASSUME NEW c \in STRING, GivesUp(tx, c), <<c, Admin, Deployer>> \in chain
        PROVE  <<c, Admin, Gov>> \in chain
    <3>1. Handed(chain, mempool, 1 - 1, c)
      BY <1>1, <2>1 DEF QueueOK
    <3>2. ~ \E m \in 1..(1 - 1) : TRUE
      OBVIOUS
    <3> QED  BY <2>1, <3>1, <3>2 DEF Handed
  <2>2. chain' = Effect(chain, tx)
    BY <1>2, <1>4 DEF Mined
  <2>3. CallNow(tx) /\ MakesNothing(tx)
    BY <1>1, <1>4, <2>1, <2>2 DEF CallNow, Sendable
  <2> QED  BY <2>3
<1> QED  BY <1>3, <1>4

LEMMA AwaitedCall ==
  ASSUME SceneOK, PlaceOK, HandoverOK, WaitStep
  PROVE  \/ chain' = chain
         \/ CallNow(Here.tx) /\ (MakesNothing(Here.tx) \/ DeploysNow)
<1> SUFFICES ASSUME Allowed(chain, Deployer, Here.tx)
             PROVE  CallNow(Here.tx) /\ (MakesNothing(Here.tx) \/ DeploysNow)
  BY DEF WaitStep
<1>1. /\ AtStep /\ Applies /\ mempool = <<>> /\ mempool' = mempool /\ pc' = NextStep
      /\ chain' = Effect(chain, Here.tx)
  BY DEF WaitStep, Goto
<1>2. Here.tx \in StepCalls(scene.name) /\ (Here.op # "deploy" => MakesNothing(Here.tx))
  BY <1>1, AtTheStep DEF Sendable
<1>3. ASSUME NEW c \in STRING, GivesUp(Here.tx, c), <<c, Admin, Deployer>> \in chain
      PROVE  <<c, Admin, Gov>> \in chain
  <2>1. Handed(chain, mempool, Len(mempool), c)
    BY <1>1, <1>3, GivenUpIsSecured
  <2>2. Len(mempool) = 0
    BY <1>1
  <2>3. ~ \E m \in 1..0 : TRUE
    OBVIOUS
  <2> QED  BY <1>3, <2>1, <2>2, <2>3 DEF Handed
<1> QED  BY <1>1, <1>2, <1>3 DEF CallNow, DeploysNow

LEMMA DirectCall ==
  ASSUME ToolOK, CallDirectly
  PROVE  chain' = chain \/ \E tx : CallNow(tx) /\ MakesNothing(tx)
<1>1. PICK tx \in tool.todo : chain' = Mined(chain, Deployer, tx)
  BY DEF CallDirectly
<1>2. tx \in Gifts(scene.name)
  BY <1>1 DEF ToolOK, CallDirectly
<1>3. tx \in StepCalls(scene.name) /\ MakesNothing(tx) /\ tx.del = {}
  BY <1>2 DEF Gifts, Sendable
<1>4. \A c : ~GivesUp(tx, c)
  BY <1>3 DEF GivesUp
<1>5. Allowed(chain, Deployer, tx) => CallNow(tx)
  BY <1>1, <1>3, <1>4 DEF CallNow, Mined
<1>6. ~Allowed(chain, Deployer, tx) => chain' = chain
  BY <1>1 DEF Mined
<1> QED  BY <1>3, <1>5, <1>6

LEMMA ChainSteps ==
  ASSUME SceneOK, PlaceOK, CallsOK, ToolOK, QueueOK, HandoverOK, [ToolNext]_toolVars
  PROVE  \/ chain' = chain
         \/ \E tx : CallNow(tx) /\ (MakesNothing(tx) \/ DeploysNow)
         \/ \E b \in proposals : BatchAllowed(chain, Gov, b) /\ chain' = AllMined(chain, Gov, b)
<1>1. CASE Mine
  BY <1>1, MinedCall
<1>2. CASE WaitStep
  BY <1>2, AwaitedCall
<1>3. CASE CallDirectly
  BY <1>3, DirectCall
<1>4. CASE \E b \in proposals : SafeExecute(b)
  BY <1>4 DEF SafeExecute
<1>5. CASE \E b \in proposals : SafeReject(b)
  BY <1>5 DEF SafeReject
<1>6. CASE Start \/ PassOver \/ ReadStep \/ SendStep \/ Finish \/ Kill
           \/ \E sent \in BOOLEAN : CallFault(sent)
  BY <1>6 DEF Start, PassOver, ReadStep, SendStep, Finish, Kill, CallFault
<1>7. CASE ToolStep /\ ~CallDirectly
  BY <1>7 DEF ToolStep, Scan, PrepareBatch, ToolFault, KillTool
<1>8. CASE UNCHANGED toolVars
  BY <1>8 DEF toolVars, vars
<1> QED  BY <1>1, <1>2, <1>3, <1>4, <1>5, <1>6, <1>7, <1>8 DEF ToolNext, Next, Progress, ToolStep

\* Every step keeps what the scene's properties speak of; only a deployment makes
\* anything new.
LEMMA ChainKept ==
  ASSUME IInv, [ToolNext]_toolVars
  PROVE  /\ Keeps(scene.name, chain, chain')
         /\ MakesNothingNew(chain, chain') \/ DeploysNow
<1> DEFINE s == scene.name
<1>0. /\ SceneOK /\ PlaceOK /\ CallsOK /\ ToolOK /\ ChainOK /\ QueueOK /\ HandoverOK
      /\ chain \in SUBSET Facts /\ IsFiniteSet(chain) /\ Administered(chain)
  BY DEF IInv, TypeOK, ChainOK
<1> HIDE DEF s
<1>1. CASE chain' = chain
  BY <1>0, <1>1, KeepsItself
<1>2. CASE \E tx : CallNow(tx) /\ (MakesNothing(tx) \/ DeploysNow)
  <2>1. PICK tx : CallNow(tx) /\ (MakesNothing(tx) \/ DeploysNow)
    BY <1>2
  <2>2. /\ tx \in StepCalls(s) /\ chain' = Effect(chain, tx)
        /\ \A c \in STRING :
             GivesUp(tx, c) /\ <<c, Admin, Deployer>> \in chain => <<c, Admin, Gov>> \in chain
    BY <2>1 DEF CallNow, s
  <2>3. Keeps(s, chain, chain') /\ (MakesNothing(tx) => MakesNothingNew(chain, chain'))
    BY <1>0, <2>2, EffectKeepsAll
  <2> QED  BY <2>1, <2>3 DEF s
<1>3. CASE \E b \in proposals : chain' = AllMined(chain, Gov, b)
  <2>1. PICK b \in proposals : chain' = AllMined(chain, Gov, b)
    BY <1>3
  <2>2. b \in Seq(Batchable(s))
    BY <1>0 DEF CallsOK, s
  <2>3. Keeps(s, chain, chain') /\ MakesNothingNew(chain, chain')
    BY <1>0, <2>1, <2>2, BatchKeeps
  <2> QED  BY <2>3 DEF s
<1> QED  BY <1>0, <1>1, <1>2, <1>3, ChainSteps

LEMMA PayoutsKept ==
  ASSUME IInv, [ToolNext]_toolVars, NEW d \in ToSet(DStables), MayWithdraw(chain, d)
  PROVE  MayWithdraw(chain', d)
<1> DEFINE s == scene.name
<1>0. /\ SceneOK /\ PlaceOK /\ CallsOK /\ ToolOK /\ ChainOK /\ QueueOK /\ HandoverOK
      /\ chain \in SUBSET Facts
      /\ \A e \in TakenFrom(s) : <<Vault(e), Admin, Deployer>> \notin chain
      /\ \A b \in proposals : Covered(s, chain, b)
  BY DEF IInv, TypeOK, ChainOK, RedeemersOK
<1> HIDE DEF s
<1>1. CASE chain' = chain
  BY <1>1
<1>2. CASE \E tx : CallNow(tx)
  <2>1. PICK tx : CallNow(tx)
    BY <1>2
  <2>2. tx \in StepCalls(s) /\ Allowed(chain, Deployer, tx) /\ chain' = Mined(chain, Deployer, tx)
    BY <2>1 DEF CallNow, Mined, s
  <2>3. ~TakesPayout(tx, d)
    BY <1>0, <2>2, DeployerTakesNothing
  <2>4. PICK r \in Redeemers(d) : Payout(d, r) \in chain
    BY DEF MayWithdraw
  <2>5. Payout(d, r) \notin tx.del
    BY <2>3 DEF TakesPayout
  <2>6. Payout(d, r) \in chain'
    BY <2>2, <2>4, <2>5, PayoutStays
  <2> QED  BY <2>6 DEF MayWithdraw
<1>3. CASE \E b \in proposals : BatchAllowed(chain, Gov, b) /\ chain' = AllMined(chain, Gov, b)
  <2>1. PICK b \in proposals : BatchAllowed(chain, Gov, b) /\ chain' = AllMined(chain, Gov, b)
    BY <1>3
  <2>2. b \in Seq(Batchable(s)) /\ Covered(s, chain, b)
    BY <1>0 DEF CallsOK, s
  <2> QED  BY <1>0, <2>1, <2>2, BatchPays
<1> QED  BY <1>0, <1>1, <1>2, <1>3, ChainSteps
-----------------------------------------------------------------------------
(* What a step does with the queues of calls *)

\* A call is sent: what it gives up is secured by then.
SendsOne(tx) ==
  /\ tx \in Sendable(scene.name) /\ mempool' = Append(mempool, tx) /\ UNCHANGED chain
  /\ \A c \in STRING : GivesUp(tx, c) => Handed(chain, mempool, Len(mempool), c)
  /\ (AtStep /\ tx = Here.tx) \/ PricesNothing(tx)
MinesFirst ==
  /\ mempool # <<>> /\ mempool' = Tail(mempool) /\ chain' = Mined(chain, Deployer, Head(mempool))

LEMMA QueueSteps ==
  ASSUME SceneOK, PlaceOK, ToolOK, HandoverOK, [ToolNext]_toolVars
  PROVE  mempool' = mempool \/ (\E tx : SendsOne(tx)) \/ MinesFirst
<1>1. CASE Mine
  BY <1>1 DEF Mine, MinesFirst
<1>2. ASSUME AtStep, Applies, Sends, mempool' = Append(mempool, Here.tx), UNCHANGED chain
      PROVE  SendsOne(Here.tx)
  BY <1>2, AtTheStep, GivenUpIsSecured DEF Sends, SendsOne
<1>3. CASE SendStep
  BY <1>2, <1>3 DEF SendStep, Sends
<1>4. CASE \E sent \in BOOLEAN : CallFault(sent)
  BY <1>2, <1>4 DEF CallFault
<1>5. CASE \E sent \in BOOLEAN : ToolFault(sent)
  <2>1. PICK tx \in tool.todo : mempool' = mempool \/ mempool' = Append(mempool, tx)
    BY <1>5 DEF ToolFault
  <2>2. tx \in Gifts(scene.name) /\ UNCHANGED chain
    BY <1>5, <2>1 DEF ToolFault, ToolOK
  <2>3. tx \in Sendable(scene.name) /\ PricesNothing(tx) /\ \A c : ~GivesUp(tx, c)
    BY <2>2 DEF Gifts, GivesUp
  <2> QED  BY <2>1, <2>2, <2>3 DEF SendsOne
<1>6. CASE Start \/ PassOver \/ ReadStep \/ WaitStep \/ Finish \/ Kill
           \/ \E b \in proposals : SafeExecute(b) \/ SafeReject(b)
  BY <1>6 DEF Start, PassOver, ReadStep, WaitStep, Finish, Kill, SafeExecute, SafeReject
<1>7. CASE ToolStep /\ ~ \E sent \in BOOLEAN : ToolFault(sent)
  BY <1>7 DEF ToolStep, Scan, PrepareBatch, CallDirectly, KillTool
<1>8. CASE UNCHANGED toolVars
  BY <1>8 DEF toolVars, vars
<1> QED  BY <1>1, <1>3, <1>4, <1>5, <1>6, <1>7, <1>8 DEF ToolNext, Next, Progress, ToolStep

LEMMA ProposalSteps ==
  ASSUME [ToolNext]_toolVars
  PROVE  \/ proposals' \subseteq proposals
         \/ AtFinish /\ proposals' \subseteq proposals \cup {batch}
         \/ tool.name = "revoke" /\ proposals' = proposals \cup {SetToSeq(tool.todo)}
<1>1. CASE Finish
  BY <1>1 DEF Finish, Proposed
<1>2. CASE PrepareBatch
  BY <1>2 DEF PrepareBatch, Proposed
<1>3. CASE \E b \in proposals : SafeExecute(b) \/ SafeReject(b)
  BY <1>3 DEF SafeExecute, SafeReject
<1>4. CASE Start \/ PassOver \/ ReadStep \/ SendStep \/ WaitStep \/ Kill \/ Mine
           \/ \E sent \in BOOLEAN : CallFault(sent)
  BY <1>4 DEF Start, PassOver, ReadStep, SendStep, WaitStep, Kill, Mine, CallFault
<1>5. CASE ToolStep /\ ~PrepareBatch
  BY <1>5 DEF ToolStep, Scan, CallDirectly, ToolFault, KillTool
<1>6. CASE UNCHANGED toolVars
  BY <1>6 DEF toolVars, vars
<1> QED  BY <1>1, <1>2, <1>3, <1>4, <1>5, <1>6 DEF ToolNext, Next, Progress, ToolStep

\* revoke-roles puts each of its calls in the batch.
LEMMA BatchOf ==
  ASSUME NEW T, NEW S \in SUBSET T, IsFiniteSet(S)
  PROVE  SetToSeq(S) \in Seq(T)
<1> DEFINE n == Cardinality(S)
<1>1. n \in Nat /\ \E f : f \in Bijection(1..n, S)
  BY FS_CardinalityType, FS_CountingElements DEF ExistsBijection
<1>2. PICK f : f \in Bijection(1..n, S)
  BY <1>1
<1> HIDE DEF n
<1>3. f \in [1..n -> S] /\ IsInjective(f)
  BY <1>2 DEF Bijection, Injection, IsInjective
<1>4. SetToSeq(S) \in [1..n -> S]
  BY <1>3 DEF SetToSeq, n
<1> QED  BY <1>1, <1>4

LEMMA ToolKept ==
  ASSUME SceneOK, ToolOK, ChainOK, [ToolNext]_toolVars
  PROVE  ToolOK'
<1>0. scene' = scene
  BY SceneStays
<1>1. CASE tool' = tool
  BY <1>0, <1>1 DEF ToolOK
<1>2. CASE tool' = NoTool
  <2>1. tool'.name = "none" /\ tool'.todo = {} /\ tool' = [name |-> tool'.name, todo |-> tool'.todo]
    BY <1>2 DEF NoTool
  <2> QED  BY <1>0, <2>1 DEF ToolOK
<1>3. ASSUME NEW name \in scene.tools, NEW missed,
             tool' = [name |-> name, todo |-> Plan(name, chain \ missed)]
      PROVE  ToolOK'
  <2>1. name \in Tools /\ scene.name \in DOMAIN Scenes /\ scene.manifest = Scenes[scene.name].manifest
    BY SettingsOf
  <2>2. chain \ missed \in SUBSET Facts /\ IsFiniteSet(chain \ missed)
    BY FS_Subset DEF ChainOK
  <2> DEFINE todo == Plan(name, chain \ missed)
  <2>3. /\ name # "revoke" => todo \in SUBSET Gifts(scene.name)
        /\ name = "revoke" => todo \in SUBSET Retractions(scene.name) /\ IsFiniteSet(todo)
    BY <2>1, <2>2, PlansAreKnown
  <2> HIDE DEF todo
  <2>4. tool' = [name |-> name, todo |-> todo]
    BY <1>3 DEF todo
  <2> QED  BY <1>0, <2>3, <2>4 DEF ToolOK
<1>4. ASSUME NEW tx, tool' = Without(tx), tool # NoTool
      PROVE  ToolOK'
  <2>1. CASE tool' = [tool EXCEPT !.todo = @ \ {tx}]
    <3>1. tool'.name = tool.name /\ tool'.todo = tool.todo \ {tx}
          /\ tool' = [name |-> tool'.name, todo |-> tool'.todo]
      BY <2>1 DEF ToolOK
    <3> QED  BY <1>0, <3>1, FS_Subset DEF ToolOK
  <2> QED  BY <1>2, <1>4, <2>1 DEF Without
<1>5. CASE \E name \in scene.tools : Scan(name, {})
  BY <1>3, <1>5 DEF Scan
<1>6. CASE \E name \in scene.tools, f \in Answers : Scan(name, {f})
  BY <1>3, <1>6 DEF Scan
<1>7. CASE CallDirectly \/ \E sent \in BOOLEAN : ToolFault(sent)
  <2>1. tool # NoTool
    BY <1>7 DEF CallDirectly, ToolFault, NoTool
  <2> QED  BY <1>4, <1>7, <2>1 DEF CallDirectly, ToolFault
<1>8. CASE PrepareBatch \/ KillTool
  BY <1>2, <1>8 DEF PrepareBatch, KillTool
<1>9. CASE UNCHANGED tool
  BY <1>1, <1>9
<1> QED  BY <1>5, <1>6, <1>7, <1>8, <1>9 DEF ToolNext, ToolStep, toolVars
-----------------------------------------------------------------------------
(* The invariant is kept *)

LEMMA CallsKept ==
  ASSUME IInv, [ToolNext]_toolVars
  PROVE  CallsOK'
<1> DEFINE s == scene.name
<1>0. /\ SceneOK /\ PlaceOK /\ CallsOK /\ ToolOK /\ HandoverOK /\ scene' = scene
  BY SceneStays DEF IInv, TypeOK
<1>1. mempool' \in Seq(Sendable(s))
  <2>1. mempool \in Seq(Sendable(s))
    BY <1>0 DEF CallsOK
  <2> HIDE DEF s
  <2>2. CASE \E tx : SendsOne(tx)
    <3>1. PICK tx : tx \in Sendable(s) /\ mempool' = Append(mempool, tx)
      BY <2>2 DEF SendsOne, s
    <3> QED  BY <2>1, <3>1
  <2>3. CASE MinesFirst
    BY <2>1, <2>3 DEF MinesFirst
  <2> QED  BY <1>0, <2>1, <2>2, <2>3, QueueSteps
<1>2. batch' \in Seq(Batchable(s))
  <2>1. batch \in Seq(Batchable(s))
    BY <1>0 DEF CallsOK
  <2>2. CASE Passes
    <3>1. /\ AtStep
          /\ \/ batch' = batch
             \/ Here.op \in {"queue", "queueWait"} /\ batch' = Append(batch, Here.tx)
      BY <2>2 DEF Passes
    <3>2. Here.op \in {"queue", "queueWait"} => Here.tx \in Batchable(s)
      BY <1>0, <3>1, AtTheStep
    <3> HIDE DEF s
    <3> QED  BY <2>1, <3>1, <3>2
  <2> HIDE DEF s
  <2>3. CASE Stays \/ Skips
    BY <2>1, <2>3 DEF Stays, Skips
  <2>4. CASE Stops \/ Starts
    <3>1. batch' = <<>>
      BY <2>4 DEF Stops, Starts
    <3> QED  BY <3>1
  <2> QED  BY <1>0, <2>2, <2>3, <2>4, Moves
<1>3. proposals' \in SUBSET Seq(Batchable(s))
  <2>1. proposals \in SUBSET Seq(Batchable(s)) /\ batch \in Seq(Batchable(s))
    BY <1>0 DEF CallsOK
  <2>2. CASE tool.name = "revoke" /\ proposals' = proposals \cup {SetToSeq(tool.todo)}
    <3>1. tool.todo \in SUBSET Batchable(s) /\ IsFiniteSet(tool.todo)
      BY <1>0, <2>2 DEF ToolOK, Retractions
    <3>2. SetToSeq(tool.todo) \in Seq(Batchable(s))
      BY <3>1, BatchOf
    <3> QED  BY <2>1, <2>2, <3>2
  <2> QED  BY <1>0, <2>1, <2>2, ProposalSteps
<1> QED  BY <1>0, <1>1, <1>2, <1>3 DEF CallsOK

LEMMA QueueKept ==
  ASSUME IInv, [ToolNext]_toolVars
  PROVE  QueueOK'
<1> DEFINE s == scene.name
<1>0. /\ SceneOK /\ PlaceOK /\ CallsOK /\ ToolOK /\ QueueOK /\ HandoverOK
      /\ mempool \in Seq(Sendable(s)) /\ Len(mempool) \in Nat
      /\ Keeps(s, chain, chain') /\ (MakesNothingNew(chain, chain') \/ DeploysNow)
  BY ChainKept DEF IInv, TypeOK, CallsOK
<1> HIDE DEF s
<1>1. CASE DeploysNow
  <2>1. Len(mempool') = 0
    BY <1>1 DEF DeploysNow
  <2>2. ~ \E n \in 1..0 : TRUE
    OBVIOUS
  <2> QED  BY <2>1, <2>2 DEF QueueOK
<1>2. CASE MakesNothingNew(chain, chain') /\ mempool' = mempool
  <2>1. ASSUME NEW n \in 1..Len(mempool), NEW c \in STRING, GivesUp(mempool[n], c)
        PROVE  Handed(chain', mempool, n - 1, c)
    <3> DEFINE k == n - 1
    <3>1. Handed(chain, mempool, k, c)
      BY <1>0, <2>1 DEF QueueOK
    <3>2. k \in Nat /\ k <= k
      BY <1>0
    <3>3. Keeps(s, chain, chain') /\ MakesNothingNew(chain, chain')
      BY <1>0, <1>2
    <3> HIDE DEF k
    <3>4. Handed(chain', mempool, k, c)
      BY <3>1, <3>2, <3>3, HandedStays
    <3> QED  BY <3>4 DEF k
  <2> QED  BY <1>2, <2>1 DEF QueueOK
<1>3. CASE \E tx : SendsOne(tx)
  <2>1. PICK tx : SendsOne(tx)
    BY <1>3
  <2>2. /\ tx \in Sendable(s) /\ mempool' = Append(mempool, tx) /\ chain' = chain
        /\ \A c \in STRING : GivesUp(tx, c) => Handed(chain, mempool, Len(mempool), c)
    BY <2>1 DEF SendsOne, s
  <2>3. /\ Len(mempool') = Len(mempool) + 1 /\ mempool'[Len(mempool) + 1] = tx
        /\ \A m \in 1..Len(mempool) : mempool'[m] = mempool[m]
    BY <1>0, <2>2
  <2>4. ASSUME NEW n \in 1..(Len(mempool) + 1), NEW c \in STRING, GivesUp(mempool'[n], c)
        PROVE  Handed(chain, mempool', n - 1, c)
    <3>1. Handed(chain, mempool, n - 1, c)
      <4>1. CASE n = Len(mempool) + 1
        <5>1. n - 1 = Len(mempool)
          BY <1>0, <4>1
        <5>2. GivesUp(tx, c)
          BY <2>3, <2>4, <4>1
        <5> QED  BY <2>2, <5>1, <5>2
      <4>2. CASE n \in 1..Len(mempool)
        <5>1. GivesUp(mempool[n], c)
          BY <2>3, <2>4, <4>2
        <5> QED  BY <1>0, <4>2, <5>1 DEF QueueOK
      <4>3. n = Len(mempool) + 1 \/ n \in 1..Len(mempool)
        BY <1>0
      <4> QED  BY <4>1, <4>2, <4>3
    <3>2. \A m \in 1..(n - 1) : m \in 1..Len(mempool) /\ mempool'[m] = mempool[m]
      BY <1>0, <2>3
    <3> QED  BY <3>1, <3>2 DEF Handed
  <2> QED  BY <2>2, <2>3, <2>4 DEF QueueOK
<1>4. CASE MinesFirst /\ MakesNothingNew(chain, chain')
  <2>1. /\ mempool # <<>> /\ mempool' = Tail(mempool)
        /\ chain' = Mined(chain, Deployer, Head(mempool))
    BY <1>4 DEF MinesFirst
  <2>2. /\ Len(mempool') = Len(mempool) - 1
        /\ \A n \in 1..Len(mempool') : mempool'[n] = mempool[n + 1] /\ n + 1 \in 1..Len(mempool)
    BY <1>0, <2>1
  <2>3. mempool \in Seq(StepCalls(s))
    BY <1>0 DEF Sendable
  <2>4. ASSUME NEW n \in 1..Len(mempool'), NEW c \in STRING, GivesUp(mempool'[n], c)
        PROVE  Handed(chain', mempool', n - 1, c)
    <3>1. Handed(chain, mempool, n, c) /\ n \in 1..Len(mempool)
      <4>1. n + 1 \in 1..Len(mempool) /\ (n + 1) - 1 = n /\ GivesUp(mempool[n + 1], c)
        BY <2>2, <2>4 DEF GivesUp
      <4>2. Handed(chain, mempool, (n + 1) - 1, c)
        BY <1>0, <4>1 DEF QueueOK
      <4> QED  BY <1>0, <4>1, <4>2
    <3> QED  BY <1>0, <1>4, <2>1, <2>3, <3>1, HandedWhenMined
  <2> QED  BY <2>4 DEF QueueOK
<1>5. DeploysNow \/ mempool' = mempool \/ (\E tx : SendsOne(tx)) \/ MinesFirst
  BY <1>0, QueueSteps
<1> QED  BY <1>0, <1>1, <1>2, <1>3, <1>4, <1>5

\* What is handed over stays so, or on its way.
LEMMA HandedNext ==
  ASSUME IInv, [ToolNext]_toolVars, MakesNothingNew(chain, chain'), NEW c,
         Handed(chain, mempool, Len(mempool), c)
  PROVE  Handed(chain', mempool', Len(mempool'), c)
<1> DEFINE s == scene.name
           n == Len(mempool)
<1>0. /\ SceneOK /\ PlaceOK /\ CallsOK /\ ToolOK /\ HandoverOK
      /\ mempool \in Seq(Sendable(s)) /\ n \in Nat /\ n <= n
      /\ Keeps(s, chain, chain') /\ MakesNothingNew(chain, chain')
      /\ Handed(chain, mempool, n, c)
  BY ChainKept DEF IInv, TypeOK, CallsOK
<1> HIDE DEF s
<1>1. CASE mempool' = mempool
  <2>1. n = Len(mempool')
    BY <1>1
  <2> HIDE DEF n
  <2>2. Handed(chain', mempool, n, c)
    BY <1>0, HandedStays
  <2> QED  BY <1>1, <2>1, <2>2
<1>2. CASE \E tx : SendsOne(tx)
  <2>1. PICK tx : mempool' = Append(mempool, tx)
    BY <1>2 DEF SendsOne
  <2> DEFINE p == Append(mempool, tx)
             m == Len(p)
  <2>2. m \in Nat /\ n <= m /\ \A k \in 1..n : p[k] = mempool[k]
    BY <1>0
  <2> HIDE DEF p, m, n
  <2>3. Handed(chain', p, m, c)
    BY <1>0, <2>2, HandedStays
  <2> QED  BY <2>1, <2>3 DEF p, m
<1>3. CASE MinesFirst
  <2>1. /\ mempool # <<>> /\ mempool' = Tail(mempool)
        /\ chain' = Mined(chain, Deployer, Head(mempool))
    BY <1>3 DEF MinesFirst
  <2>2. n \in 1..Len(mempool) /\ Len(Tail(mempool)) = n - 1 /\ mempool \in Seq(StepCalls(s))
    BY <1>0, <2>1 DEF Sendable
  <2> HIDE DEF n
  <2>3. Handed(Mined(chain, Deployer, Head(mempool)), Tail(mempool), n - 1, c)
    BY <1>0, <2>1, <2>2, HandedWhenMined
  <2> QED  BY <2>1, <2>2, <2>3
<1> QED  BY <1>0, <1>1, <1>2, <1>3, QueueSteps

\* Only where the run stays, or goes on in its block, is there a step behind it.
LEMMA Behind ==
  ASSUME SceneOK, PlaceOK, [ToolNext]_toolVars, NEW j \in 1..(pc'[3] - 1)
  PROVE  /\ \/ Stays
            \/ Passes /\ pc'[3] = pc[3] + 1
         /\ Block' = Block
<1>1. pc'[3] # 1
  OBVIOUS
<1>2. ~Skips /\ ~Stops /\ ~Starts
  BY <1>1 DEF Skips, NextBlock, Stops, Stop, Starts
<1>3. CASE Stays
  BY <1>3 DEF Stays, Block
<1>4. CASE Passes
  <2>1. AtStep /\ running' = running /\ pc' = NextStep
    BY <1>4 DEF Passes
  <2>2. pc' = <<pc[1], pc[2], pc[3] + 1>>
    BY <1>1, <2>1 DEF NextStep, NextBlock
  <2> QED  BY <1>4, <2>1, <2>2 DEF Block
<1> QED  BY <1>2, <1>3, <1>4, Moves

LEMMA HandoverKept ==
  ASSUME IInv, [ToolNext]_toolVars
  PROVE  HandoverOK'
<1> DEFINE steps == Block.steps
<1> SUFFICES ASSUME AtStep', NEW j \in 1..(pc'[3] - 1), NEW c \in STRING,
                    Secures(Block'.steps[j], c),
                    \A l \in j..(pc'[3] - 1) : Block'.steps[l].op # "deploy",
                    Block'.steps[j].when \subseteq chain'
             PROVE  Handed(chain', mempool', Len(mempool'), c)
  BY DEF HandoverOK
<1>0. SceneOK /\ PlaceOK /\ CallsOK /\ HandoverOK
  BY DEF IInv, TypeOK
<1>1. Block' = Block /\ (Stays \/ (Passes /\ pc'[3] = pc[3] + 1))
  BY <1>0, Behind
<1>2. AtStep
  BY <1>1 DEF Stays, Passes, AtStep, Idle
<1>3. pc[3] \in Nat /\ pc[1] \in Nat /\ pc[2] \in Nat
  BY <1>0, <1>2, AtTheStep
<1>4. /\ Secures(steps[j], c) /\ steps[j].when \subseteq chain'
      /\ \A l \in j..(pc'[3] - 1) : steps[l].op # "deploy"
  BY <1>1
<1>5. MakesNothingNew(chain, chain')
  <2>1. CASE Stays
    <3>1. pc' # NextStep
      BY <1>3, <2>1 DEF Stays, NextStep, NextBlock
    <3> QED  BY <3>1, ChainKept DEF DeploysNow
  <2>2. CASE pc'[3] = pc[3] + 1
    <3>1. pc[3] \in j..(pc'[3] - 1)
      BY <1>3, <2>2
    <3>2. Here.op # "deploy"
      BY <1>4, <3>1 DEF Here
    <3> QED  BY <3>2, ChainKept DEF DeploysNow
  <2> QED  BY <1>1, <2>1, <2>2
<1>6. \A f \in steps[j].when : f \in chain
  <2> SUFFICES ASSUME NEW f \in steps[j].when PROVE f \in chain
    OBVIOUS
  <2>1. f \in chain' /\ f[2] = "deployed"
    BY <1>4 DEF Secures
  <2> QED  BY <1>5, <2>1 DEF MakesNothingNew
<1>7. CASE j \in 1..(pc[3] - 1)
  <2>1. \A l \in j..(pc[3] - 1) : l \in j..(pc'[3] - 1)
    BY <1>1, <1>3 DEF Stays
  <2>2. Handed(chain, mempool, Len(mempool), c)
    BY <1>0, <1>2, <1>4, <1>6, <1>7, <2>1 DEF HandoverOK
  <2> QED  BY <1>5, <2>2, HandedNext
<1>8. CASE j = pc[3] /\ Passes
  <2>1. /\ \A f \in Here.when : f \in chain
        /\ Here.unless \subseteq {<<c, Admin, Gov>>}
        /\ \/ Here.op \in {"expect", "confirm"} /\ Here.fact = <<c, Admin, Gov>>
           \/ Here.op = "send" /\ Hands(Here.tx, c)
    BY <1>4, <1>6, <1>8 DEF Here, Secures
  <2>2. CASE <<c, Admin, Gov>> \in chain
    <3>1. Handed(chain, mempool, Len(mempool), c)
      BY <2>2 DEF Handed
    <3> QED  BY <1>5, <3>1, HandedNext
  <2>3. CASE ~Applies
    BY <2>1, <2>2, <2>3 DEF Applies
  <2>4. CASE Here.op \in {"expect", "confirm"} /\ Here.fact \in chain
    BY <2>1, <2>2, <2>4
  <2>5. CASE Here.op = "send" /\ mempool' = Append(mempool, Here.tx)
    <3>1. Hands(Here.tx, c)
      BY <2>1, <2>5
    <3>2. Len(mempool') \in 1..Len(mempool') /\ mempool'[Len(mempool')] = Here.tx
      BY <1>0, <2>5 DEF CallsOK
    <3> QED  BY <3>1, <3>2 DEF Handed
  <2> QED  BY <1>8, <2>1, <2>3, <2>4, <2>5 DEF Passes
<1>9. j \in 1..(pc[3] - 1) \/ (j = pc[3] /\ Passes)
  BY <1>1, <1>3 DEF Stays
<1> QED  BY <1>7, <1>8, <1>9

LEMMA PaidStays ==
  ASSUME NEW s, NEW F, NEW G, Keeps(s, F, G), NEW d \in ToSet(DStables), Paid(s, F, d)
  PROVE  Paid(s, G, d)
BY DEF Keeps, Paid

LEMMA CoveredStays ==
  ASSUME NEW s, NEW F, NEW G, Keeps(s, F, G), NEW b, Covered(s, F, b)
  PROVE  Covered(s, G, b)
<1> SUFFICES ASSUME NEW n \in DOMAIN b, NEW d \in ToSet(DStables), TakesPayout(b[n], d)
             PROVE  Paid(s, G, d) \/ \E m \in 1..(n - 1) : GivesPayout(s, b[m], d)
  BY DEF Covered
<1>1. Paid(s, F, d) \/ \E m \in 1..(n - 1) : GivesPayout(s, b[m], d)
  BY DEF Covered
<1>2. Paid(s, F, d) => Paid(s, G, d)
  BY PaidStays
<1> QED  BY <1>1, <1>2

\* A batch grows by a call that takes nothing, or gives first.
LEMMA CoveredAppend ==
  ASSUME NEW s, NEW F, NEW b, b \in Seq(Batchable(s)), Covered(s, F, b), NEW tx \in Batchable(s),
         \A d \in ToSet(DStables) : TakesPayout(tx, d) =>
           Paid(s, F, d) \/ \E m \in 1..Len(b) : GivesPayout(s, b[m], d)
  PROVE  Covered(s, F, Append(b, tx))
<1> DEFINE a == Append(b, tx)
           L == Len(b)
<1>1. /\ L \in Nat /\ Len(a) = L + 1 /\ DOMAIN a = 1..(L + 1) /\ DOMAIN b = 1..L
      /\ a[L + 1] = tx /\ \A m \in 1..L : a[m] = b[m]
  OBVIOUS
<1> HIDE DEF a
<1> SUFFICES ASSUME NEW n \in DOMAIN a, NEW d \in ToSet(DStables), TakesPayout(a[n], d)
             PROVE  Paid(s, F, d) \/ \E m \in 1..(n - 1) : GivesPayout(s, a[m], d)
  BY DEF Covered, a
<1>2. Paid(s, F, d) \/ \E m \in 1..(n - 1) : GivesPayout(s, b[m], d)
  <2>1. CASE n = L + 1
    <3>1. TakesPayout(tx, d)
      BY <1>1, <2>1
    <3>2. Paid(s, F, d) \/ \E m \in 1..L : GivesPayout(s, b[m], d)
      BY <3>1
    <3>3. n - 1 = L
      BY <1>1, <2>1
    <3> QED  BY <3>2, <3>3
  <2>2. CASE n \in 1..L
    <3>1. TakesPayout(b[n], d) /\ n \in DOMAIN b
      BY <1>1, <2>2
    <3> QED  BY <3>1 DEF Covered
  <2>3. n = L + 1 \/ n \in 1..L
    BY <1>1
  <2> QED  BY <2>1, <2>2, <2>3
<1>3. CASE \E m \in 1..(n - 1) : GivesPayout(s, b[m], d)
  <2>1. PICK m \in 1..(n - 1) : GivesPayout(s, b[m], d)
    BY <1>3
  <2>2. a[m] = b[m]
    BY <1>1
  <2>3. GivesPayout(s, a[m], d)
    BY <2>1, <2>2
  <2> QED  BY <2>3
<1> QED  BY <1>2, <1>3

\* What a redeemer is replaced by is in the batch, or has the role.
LEMMA ReplacedBehind ==
  ASSUME IInv, AtStep, UseSafe, NEW d \in ToSet(DStables), TakesPayout(Here.tx, d)
  PROVE  Paid(scene.name, chain, d) \/ \E m \in 1..Len(batch) : GivesPayout(scene.name, batch[m], d)
<1>1. SceneOK /\ PlaceOK /\ RedeemersOK
  BY DEF IInv, TypeOK
<1>2. ReplacesFirst(scene.name, Block.steps) /\ pc[3] \in DOMAIN Block.steps
      /\ Here \in StepsOf(scene.name)
  BY <1>1, AtTheStep
<1>3. PICK j \in 1..(pc[3] - 1) : Replaces(scene.name, Block.steps[j], d)
  BY <1>2 DEF ReplacesFirst, Here
<1>4. d \in TakenFrom(scene.name)
  BY <1>2 DEF TakenFrom
<1> QED  BY <1>1, <1>3, <1>4 DEF RedeemersOK

LEMMA BatchKept ==
  ASSUME IInv, [ToolNext]_toolVars
  PROVE  Covered(scene.name, chain', batch')
<1> DEFINE s == scene.name
<1>0. /\ SceneOK /\ PlaceOK /\ Covered(s, chain, batch) /\ Keeps(s, chain, chain')
      /\ batch \in Seq(Batchable(s))
  BY ChainKept DEF IInv, TypeOK, RedeemersOK, CallsOK
<1>1. Covered(s, chain', batch)
  BY <1>0, CoveredStays
<1>2. CASE Stays \/ Skips
  BY <1>1, <1>2 DEF Stays, Skips
<1>3. CASE Stops \/ Starts
  <2>1. batch' = <<>>
    BY <1>3 DEF Stops, Starts
  <2> QED  BY <2>1 DEF Covered
<1>4. CASE Passes
  <2>1. CASE batch' = batch
    BY <1>1, <2>1
  <2>2. CASE Here.op \in {"queue", "queueWait"} /\ UseSafe /\ batch' = Append(batch, Here.tx)
    <3>1. AtStep /\ Here.tx \in Batchable(s)
      BY <1>0, <1>4, <2>2, AtTheStep DEF Passes
    <3>2. \A d \in ToSet(DStables) : TakesPayout(Here.tx, d) =>
            Paid(s, chain, d) \/ \E m \in 1..Len(batch) : GivesPayout(s, batch[m], d)
      BY <2>2, <3>1, ReplacedBehind
    <3> HIDE DEF s
    <3>3. Covered(s, chain, Append(batch, Here.tx))
      BY <1>0, <3>1, <3>2, CoveredAppend
    <3>4. Covered(s, chain', Append(batch, Here.tx))
      BY <1>0, <3>3, CoveredStays
    <3> QED  BY <2>2, <3>4 DEF s
  <2>3. \/ batch' = batch
        \/ Here.op \in {"queue", "queueWait"} /\ UseSafe /\ batch' = Append(batch, Here.tx)
    BY <1>4 DEF Passes
  <2> QED  BY <2>1, <2>2, <2>3
<1> QED  BY <1>0, <1>2, <1>3, <1>4, Moves

LEMMA ProposalsKept ==
  ASSUME IInv, [ToolNext]_toolVars
  PROVE  \A b \in proposals' : Covered(scene.name, chain', b)
<1> DEFINE s == scene.name
<1>0. /\ ToolOK /\ Covered(s, chain, batch) /\ \A b \in proposals : Covered(s, chain, b)
      /\ Keeps(s, chain, chain')
  BY ChainKept DEF IInv, TypeOK, RedeemersOK
<1>1. \A b \in proposals \cup {batch} : Covered(s, chain', b)
  BY <1>0, CoveredStays
<1>2. CASE tool.name = "revoke" /\ proposals' = proposals \cup {SetToSeq(tool.todo)}
  <2>1. tool.todo \in SUBSET Retractions(s) /\ IsFiniteSet(tool.todo)
    BY <1>0, <1>2 DEF ToolOK
  <2>2. SetToSeq(tool.todo) \in Seq(Retractions(s))
    BY <2>1, BatchOf
  <2> HIDE DEF s
  <2>3. \A n \in DOMAIN SetToSeq(tool.todo) : SetToSeq(tool.todo)[n] \in Retractions(s)
    BY <2>2
  <2>4. Covered(s, chain', SetToSeq(tool.todo))
    BY <2>3 DEF Covered, Retractions
  <2> QED  BY <1>1, <1>2, <2>4 DEF s
<1> QED  BY <1>1, <1>2, ProposalSteps

LEMMA RedeemersKept ==
  ASSUME IInv, [ToolNext]_toolVars
  PROVE  RedeemersOK'
<1> DEFINE s == scene.name
<1>0. /\ scene' = scene /\ SceneOK /\ PlaceOK /\ RedeemersOK /\ Keeps(s, chain, chain')
      /\ batch \in Seq(Batchable(s))
  BY ChainKept, SceneStays DEF IInv, TypeOK, CallsOK
<1>1. \A d \in TakenFrom(s) : <<Vault(d), Admin, Deployer>> \notin chain'
  BY <1>0 DEF RedeemersOK, Keeps
<1>2. ASSUME AtStep', UseSafe', NEW j \in 1..(pc'[3] - 1), NEW d \in TakenFrom(s),
             Replaces(s, Block'.steps[j], d)
      PROVE  Paid(s, chain', d) \/ \E m \in 1..Len(batch') : GivesPayout(s, batch'[m], d)
  <2>0. d \in ToSet(DStables) /\ UseSafe
    BY <1>0, <1>2 DEF TakenFrom, UseSafe
  <2>1. Block' = Block /\ (Stays \/ (Passes /\ pc'[3] = pc[3] + 1))
    BY <1>0, Behind
  <2>2. AtStep
    BY <2>1, <1>2 DEF Stays, Passes, AtStep, Idle
  <2>3. pc[3] \in Nat
    BY <1>0, <2>2, AtTheStep
  <2>4. batch' = batch \/ (Passes /\ batch' = Append(batch, Here.tx))
    BY <2>1 DEF Stays, Passes
  <2>5. ASSUME Paid(s, chain, d) PROVE Paid(s, chain', d)
    BY <1>0, <2>0, <2>5, PaidStays
  <2>6. ASSUME NEW m \in 1..Len(batch), GivesPayout(s, batch[m], d)
        PROVE  \E n \in 1..Len(batch') : GivesPayout(s, batch'[n], d)
    <3>1. m \in 1..Len(batch') /\ batch'[m] = batch[m]
      BY <1>0, <2>4
    <3>2. GivesPayout(s, batch'[m], d)
      BY <2>6, <3>1
    <3> QED  BY <3>1, <3>2
  <2>7. CASE j \in 1..(pc[3] - 1)
    <3>1. Paid(s, chain, d) \/ \E m \in 1..Len(batch) : GivesPayout(s, batch[m], d)
      BY <1>0, <1>2, <2>0, <2>1, <2>2, <2>7 DEF RedeemersOK
    <3> QED  BY <2>5, <2>6, <3>1
  <2>8. CASE j = pc[3] /\ Passes
    <3>1. Replaces(s, Here, d)
      BY <1>2, <2>1, <2>8 DEF Here
    <3>2. PICK r \in Lasting(s, d) : Payout(d, r) \in Here.tx.add /\ Here.unless \subseteq {Payout(d, r)}
      BY <3>1 DEF Replaces
    <3>3. /\ Here.op \in {"queue", "queueWait"} /\ <<Vault(d), Admin>> \in Here.tx.need
          /\ Here.when = {}
      BY <3>1 DEF Replaces, ByGovernance
    <3>4. ~Allowed(chain, Deployer, Here.tx)
      <4> DEFINE k == <<Vault(d), Admin>>
      <4>1. k \in Here.tx.need /\ k[1] = Vault(d) /\ k[2] = Admin
        BY <3>3
      <4> HIDE DEF k
      <4>2. <<Vault(d), Admin, Deployer>> \notin chain
        BY <1>0 DEF RedeemersOK
      <4> QED  BY <4>1, <4>2 DEF Allowed
    <3>5. CASE ~Applies
      <4>1. Payout(d, r) \in chain
        BY <3>2, <3>3, <3>5 DEF Applies
      <4> QED  BY <2>5, <4>1 DEF Paid
    <3>6. CASE batch' = Append(batch, Here.tx)
      <4>1. Len(batch') \in 1..Len(batch') /\ batch'[Len(batch')] = Here.tx
        BY <1>0, <3>6
      <4>2. GivesPayout(s, Here.tx, d)
        BY <3>2 DEF GivesPayout
      <4> QED  BY <4>1, <4>2
    <3> QED  BY <2>0, <2>8, <3>3, <3>4, <3>5, <3>6 DEF Passes
  <2>9. j \in 1..(pc[3] - 1) \/ (j = pc[3] /\ Passes)
    BY <2>1, <2>3 DEF Stays
  <2> QED  BY <2>7, <2>8, <2>9
<1>3. Covered(s, chain', batch') /\ \A b \in proposals' : Covered(s, chain', b)
  BY BatchKept, ProposalsKept
<1> QED  BY <1>0, <1>1, <1>2, <1>3 DEF RedeemersOK
-----------------------------------------------------------------------------
(* The invariant, and what follows from it *)

LEMMA ToolInitOK == ToolInit => IInv
<1> SUFFICES ASSUME ToolInit PROVE IInv
  OBVIOUS
<1>1. PICK s \in DOMAIN Scenes : scene = Settings(s) /\ chain = Scenes[s].chain
  BY DEF ToolInit, Init
<1>2. scene.name = s
  BY <1>1 DEF Settings
<1>3. /\ mempool = <<>> /\ pc = <<0, 1, 1>> /\ batch = <<>> /\ proposals = {} /\ tool = NoTool
  BY DEF ToolInit, Init
<1>4. SceneOK
  BY <1>1, <1>2 DEF SceneOK
<1>5. Idle /\ pc \in Nat \X Nat \X Nat
  BY <1>3 DEF Idle
<1>6. PlaceOK /\ ~AtStep
  BY <1>5 DEF PlaceOK, AtStep
<1>7. CallsOK
  BY <1>3 DEF CallsOK
<1>8. ToolOK
  BY <1>3 DEF NoTool, ToolOK
<1>9. ChainOK
  BY <1>1, ChainsAssumption DEF ChainOK, Administered
<1>10. QueueOK
  <2>1. Len(mempool) = 0
    BY <1>3
  <2>2. ~ \E n \in 1..0 : TRUE
    OBVIOUS
  <2> QED  BY <2>1, <2>2 DEF QueueOK
<1>11. RedeemersOK
  <2>1. \A d \in TakenFrom(s) : <<Vault(d), Admin, Deployer>> \notin chain
    BY <1>1, ChainsAssumption
  <2>2. Covered(s, chain, <<>>)
    BY DEF Covered
  <2> QED  BY <1>2, <1>3, <1>6, <2>1, <2>2 DEF RedeemersOK
<1> QED  BY <1>4, <1>6, <1>7, <1>8, <1>9, <1>10, <1>11 DEF IInv, TypeOK, HandoverOK

LEMMA StepKeepsIInv == IInv /\ [ToolNext]_toolVars => IInv'
<1> SUFFICES ASSUME IInv, [ToolNext]_toolVars PROVE IInv'
  OBVIOUS
<1>1. SceneOK'
  BY SceneStays DEF IInv, TypeOK, SceneOK
<1>2. PlaceOK'
  BY PlaceKept DEF IInv, TypeOK
<1>3. ToolOK'
  BY ToolKept DEF IInv, TypeOK
<1>4. ChainOK'
  BY ChainKept DEF Keeps, ChainOK
<1> QED  BY <1>1, <1>2, <1>3, <1>4, CallsKept, QueueKept, HandoverKept, RedeemersKept
         DEF IInv, TypeOK

LEMMA DeploymentInvariant == ToolSpec => []IInv
<1> QED  BY ToolInitOK, StepKeepsIInv, PTL DEF ToolSpec

\* Every fact on the chain names a contract, a key and a value; every call that is
\* sent, queued or proposed is one that a script of the scene or a tool makes,
\* where the run is there is a step of a script, and every contract that has an
\* admin has the deployer or governance as one.
THEOREM DeploymentTypes == ToolSpec => []TypeOK
<1>1. IInv => TypeOK
  BY DEF IInv
<1> QED  BY <1>1, DeploymentInvariant, PTL

\* No sequence of runs, failures, kills, tools and Safe batches leaves a contract
\* without an admin: when the deployer's call that gives up the role is mined, the
\* one that makes governance admin has been mined before it.
THEOREM DeploymentNeverLocksOut == ToolSpec => NoLockout
<1>1. IInv /\ [ToolNext]_toolVars => [\A f \in chain : f[2] = Admin => HasAdmin(chain', f[1])]_vars
  BY ChainKept DEF Keeps
<1> QED  BY <1>1, DeploymentInvariant, PTL DEF ToolSpec, NoLockout

\* What the manifest exempts and no override enables by itself stays with the
\* deployer, whatever the tools read wrongly and whenever the Safe executes what
\* they prepared.
THEOREM OptedOutStays == ToolSpec => OptedOutIsKept
<1>1. ASSUME IInv, [ToolNext]_toolVars
      PROVE  Manifest.safe =>
               \A f \in HeldByDeployer(chain) : LeftAlone(Manifest, f) => f \in chain'
  <2>1. SceneOK
    BY <1>1 DEF IInv, TypeOK
  <2>2. Manifest = Scenes[scene.name].manifest
    BY <2>1, SettingsOf DEF Manifest
  <2>3. Keeps(scene.name, chain, chain')
    BY <1>1, ChainKept
  <2> HIDE DEF Manifest
  <2> QED  BY <2>2, <2>3 DEF Keeps
<1>2. IInv /\ [ToolNext]_toolVars =>
        [Manifest.safe =>
           \A f \in HeldByDeployer(chain) : LeftAlone(Manifest, f) => f \in chain']_vars
  BY <1>1
<1> QED  BY <1>2, DeploymentInvariant, PTL DEF ToolSpec, OptedOutIsKept

\* Where a redeemer can pay out collateral, after every step one can: also when a
\* batch that replaces redeemers is made in pieces, by several scripts, and
\* executed in any order.
THEOREM RedemptionStays == ToolSpec => RedemptionNeverCutOff
<1>1. IInv /\ [ToolNext]_toolVars =>
        [\A d \in ToSet(DStables) : MayWithdraw(chain, d) => MayWithdraw(chain', d)]_vars
  BY PayoutsKept
<1> QED  BY <1>1, DeploymentInvariant, PTL DEF ToolSpec, RedemptionNeverCutOff
-----------------------------------------------------------------------------
(* What a script promises                                                  *)
(*                                                                         *)
(* That a recorded script has done, or is about to do, all it had to do is *)
(* not inductive either.  The invariant PromisesOK says of each script     *)
(* that is not recorded yet that nothing but calls of the scripts up to it *)
(* is sent, queued or proposed, and of the one that runs, that each step   *)
(* behind it has done its part or sent the call that does.                 *)

\* A fact holds, or a sent call that nothing makes revert adds it.
Coming(calls, F, queue, f) ==
  f \in F \/ \E k \in 1..Len(queue) : Sturdy(calls, queue[k], f) /\ Allowed(F, Deployer, queue[k])

Open(n) ==
  /\ n \in DOMAIN Orders[scene.name] /\ Unconditional(Orders[scene.name][n])
  /\ Orders[scene.name][n].id \notin recorded

RunOK ==
  /\ ~Idle => pc[1] \in DOMAIN Orders[scene.name] /\ running = Orders[scene.name][pc[1]]
  /\ scene.tools = {} => tool = NoTool

\* Nothing is on its way that a script behind the n-th one sent.
OnlyUpTo(n) ==
  LET calls == CallsUpTo(scene.name, n)
  IN  /\ pc[1] <= n
      /\ mempool \in Seq(calls) /\ batch \in Seq(calls) /\ proposals \in SUBSET Seq(calls)

\* Where a call is passed over, what it promises is there.
AccompaniedOK(n) ==
  \A f \in Promised(Orders[scene.name][n]) : \A u \in chain :
    Accompanied(scene.name, CallsUpTo(scene.name, n), u, f) => f \in chain

\* What the steps behind the run were to establish is there, or on its way.
BehindOK(n) ==
  pc[1] = n =>
    \A f \in Promised(Orders[scene.name][n]) : \A p \in Places(Orders[scene.name][n]) :
      /\ Earlier(p, <<pc[2], pc[3]>>)
      /\ Establishes(scene.name, CallsUpTo(scene.name, n), StepAt(Orders[scene.name][n], p), f)
      => Coming(CallsUpTo(scene.name, n), chain, mempool, f)

PromisesOK == RunOK /\ \A n \in Nat : Open(n) => OnlyUpTo(n) /\ AccompaniedOK(n) /\ BehindOK(n)
-----------------------------------------------------------------------------
(* What calls up to a script leave true *)

LEMMA FirmStays ==
  ASSUME NEW F, NEW who, NEW tx, NEW f \in F, ~Removes(tx, f)
  PROVE  f \in Mined(F, who, tx)
<1>1. f \in Effect(F, tx)
  BY EffectKeeps, EffectAdds DEF Removes
<1> QED  BY <1>1 DEF Mined

LEMMA AccompaniedStays ==
  ASSUME NEW s, NEW calls, NEW u, NEW f, Accompanied(s, calls, u, f), Firm(calls, f),
         NEW F, u \in F => f \in F, NEW who, NEW tx \in calls, u \in Mined(F, who, tx)
  PROVE  f \in Mined(F, who, tx)
<1>1. CASE u \in F
  <2>1. f \in F /\ ~Removes(tx, f)
    BY <1>1 DEF Firm
  <2> QED  BY <2>1, FirmStays
<1>2. CASE u \notin F
  <2>1. Allowed(F, who, tx) /\ u \in Effect(F, tx)
    BY <1>2 DEF Mined
  <2>2. u \in Adds(tx)
    BY <1>2, <2>1, EffectOrigin
  <2>3. f \in tx.add
    BY <2>2 DEF Accompanied
  <2> QED  BY <2>1, <2>3, EffectAdds DEF Mined
<1> QED  BY <1>1, <1>2

\* Nothing makes a sturdy call revert that has not done what it was for.
LEMMA SturdyStays ==
  ASSUME NEW calls, NEW f, NEW t, Sturdy(calls, t, f), Firm(calls, f),
         NEW F, f \in F \/ Allowed(F, Deployer, t), NEW who, NEW tx \in calls
  PROVE  f \in Mined(F, who, tx) \/ Allowed(Mined(F, who, tx), Deployer, t)
<1> DEFINE G == Mined(F, who, tx)
<1>1. CASE f \in F
  BY <1>1, FirmStays DEF Firm
<1>2. CASE Allowed(F, Deployer, t) /\ f \notin G
  <2>1. \A k \in t.need : <<k[1], k[2], Deployer>> \in G
    <3> SUFFICES ASSUME NEW k \in t.need PROVE <<k[1], k[2], Deployer>> \in G
      OBVIOUS
    <3> DEFINE h == <<k[1], k[2], Deployer>>
    <3>1. h \in F
      BY <1>2 DEF Allowed
    <3>2. Firm(calls, h)
      BY DEF Sturdy
    <3> HIDE DEF h
    <3>3. ~Removes(tx, h)
      BY <3>2 DEF Firm
    <3>4. h \in G
      BY <3>1, <3>3, FirmStays
    <3> QED  BY <3>4 DEF h
  <2>2. t.has \subseteq G
    <3> SUFFICES ASSUME NEW h \in t.has PROVE h \in G
      OBVIOUS
    <3>1. h \in F /\ ~Removes(tx, h)
      BY <1>2 DEF Allowed, Sturdy, Firm
    <3> QED  BY <3>1, FirmStays
  <2>3. \A k \in t.unset : ~IsSet(G, k[1], k[2])
    <3> SUFFICES ASSUME NEW k \in t.unset, NEW g \in G, g[1] = k[1], g[2] = k[2] PROVE FALSE
      BY DEF IsSet
    <3>1. g \notin F
      BY <1>2 DEF Allowed, IsSet
    <3>2. Allowed(F, who, tx) /\ g \in Effect(F, tx) /\ G = Effect(F, tx)
      BY <3>1 DEF Mined
    <3>3. g \in Adds(tx)
      BY <3>1, <3>2, EffectOrigin
    <3>4. f \in tx.add
      BY <3>3 DEF Sturdy
    <3>5. f \in G
      BY <3>2, <3>4, EffectAdds
    <3> QED  BY <1>2, <3>5
  <2> QED  BY <2>1, <2>2, <2>3 DEF Allowed
<1> QED  BY <1>1, <1>2

\* What is on its way is there once everything sent is mined.
LEMMA ComingIsMined ==
  ASSUME NEW calls, NEW f, Firm(calls, f), NEW F, NEW q \in Seq(calls), Coming(calls, F, q, f)
  PROVE  f \in AllMined(F, Deployer, q)
<1>1. PICK after : IsMining(F, Deployer, q, after)
  BY MiningExists
<1>2. Len(q) \in Nat /\ (\A n \in 1..Len(q) : q[n] \in calls /\ n - 1 \in 0..Len(q) /\ n \in 0..Len(q))
  OBVIOUS
<1>3. ASSUME NEW m \in 0..Len(q), f \in after[m]
      PROVE  f \in AllMined(F, Deployer, q)
  <2> DEFINE Has(n) == f \in after[n]
             Bad == {n \in m..Len(q) : ~Has(n)}
  <2>1. Bad = {}
    <3> SUFFICES ASSUME Bad # {} PROVE FALSE
      OBVIOUS
    <3>0. Bad \subseteq Nat
      OBVIOUS
    <3> HIDE DEF Bad
    <3>1. PICK k \in Bad : \A j \in Bad : k <= j
      BY <3>0, LeastOf
    <3> USE DEF Bad
    <3>2. k # m
      BY <1>3, <3>1
    <3>3. k \in 1..Len(q) /\ k - 1 \in m..Len(q) /\ ~(k <= k - 1)
      BY <1>2, <3>1, <3>2
    <3>4. f \in after[k - 1]
      BY <3>1, <3>3
    <3>5. after[k] = Mined(after[k - 1], Deployer, q[k])
      BY <1>1, <3>3 DEF IsMining
    <3>6. ~Removes(q[k], f)
      BY <1>2, <3>3 DEF Firm
    <3>7. f \in after[k]
      BY <3>4, <3>5, <3>6, FirmStays
    <3> QED  BY <3>1, <3>7
  <2>2. f \in after[Len(q)]
    BY <1>2, <2>1
  <2> QED  BY <1>1, <2>2, AllMinedDef
<1>4. CASE f \in F
  <2>1. after[0] = F /\ 0 \in 0..Len(q)
    BY <1>1, <1>2 DEF IsMining
  <2> QED  BY <1>3, <1>4, <2>1
<1>5. CASE \E k \in 1..Len(q) : Sturdy(calls, q[k], f) /\ Allowed(F, Deployer, q[k])
  <2>1. PICK k \in 1..Len(q) : Sturdy(calls, q[k], f) /\ Allowed(F, Deployer, q[k])
    BY <1>5
  <2> DEFINE t == q[k]
             Good(n) == f \in after[n] \/ Allowed(after[n], Deployer, t)
             Bad == {n \in 0..Len(q) : ~Good(n)}
  <2>2. Bad = {}
    <3> SUFFICES ASSUME Bad # {} PROVE FALSE
      OBVIOUS
    <3>0. Bad \subseteq Nat
      OBVIOUS
    <3> HIDE DEF Bad
    <3>1. PICK m \in Bad : \A j \in Bad : m <= j
      BY <3>0, LeastOf
    <3> USE DEF Bad
    <3>2. after[0] = F
      BY <1>1 DEF IsMining
    <3>3. m # 0
      BY <2>1, <3>1, <3>2
    <3>4. m \in 1..Len(q) /\ m - 1 \in 0..Len(q) /\ ~(m <= m - 1)
      BY <1>2, <3>1, <3>3
    <3>5. Good(m - 1)
      BY <3>1, <3>4
    <3>6. after[m] = Mined(after[m - 1], Deployer, q[m]) /\ q[m] \in calls
      BY <1>1, <1>2, <3>4 DEF IsMining
    <3>7. Sturdy(calls, t, f)
      BY <2>1
    <3> HIDE DEF t
    <3>8. Good(m)
      BY <3>5, <3>6, <3>7, SturdyStays
    <3> QED  BY <3>1, <3>8
  <2>3. Good(k - 1) /\ after[k] = Mined(after[k - 1], Deployer, t)
    BY <1>1, <1>2, <2>1, <2>2 DEF IsMining
  <2>4. t \in calls /\ k \in 0..Len(q) /\ f \in t.add /\ ~Removes(t, f)
    BY <1>2, <2>1 DEF Sturdy, Removes
  <2> HIDE DEF t
  <2>5. f \in after[k]
    <3>1. CASE f \in after[k - 1]
      BY <2>3, <2>4, <3>1, FirmStays
    <3>2. CASE Allowed(after[k - 1], Deployer, t)
      BY <2>3, <2>4, <3>2, EffectAdds DEF Mined
    <3> QED  BY <2>3, <3>1, <3>2
  <2> QED  BY <1>3, <2>4, <2>5
<1> QED  BY <1>4, <1>5 DEF Coming
-----------------------------------------------------------------------------
(* What a step does while a script is open *)

LEMMA CallsUpToType ==
  ASSUME NEW s \in DOMAIN Scenes, NEW n \in DOMAIN Orders[s]
  PROVE  /\ CallsUpTo(s, n) \in SUBSET Calls
         /\ \A m \in 1..n : \A block \in ToSet(Orders[s][m].blocks) : \A step \in ToSet(block.steps) :
              step.tx \in CallsUpTo(s, n)
<1>1. Orders[s] \in Seq(Scripts)
  BY OrdersAssumption
<1>2. n \in Nat /\ \A m \in 1..n : Orders[s][m] \in ToSet(Orders[s])
  BY <1>1 DEF ToSet
<1>3. ASSUME NEW m \in 1..n, NEW block \in ToSet(Orders[s][m].blocks), NEW step \in ToSet(block.steps)
      PROVE  step.tx \in Calls
  <2>1. PICK k \in DOMAIN block.steps : step = block.steps[k]
    BY DEF ToSet
  <2>2. block.steps[k].tx \in StepCalls(s)
    BY <1>2, ScriptCalls
  <2> QED  BY <2>1, <2>2 DEF StepCalls
<1> QED  BY <1>3 DEF CallsUpTo

LEMMA PlacesOf ==
  ASSUME NEW s \in DOMAIN Scenes, NEW script \in ToSet(Orders[s]), NEW p \in Places(script)
  PROVE  /\ p[1] \in 1..Len(script.blocks) /\ Len(script.blocks) \in Nat
         /\ p[2] \in 1..Len(script.blocks[p[1]].steps) /\ Len(script.blocks[p[1]].steps) \in Nat
<1>1. script \in Scripts
  BY OrdersAssumption DEF ToSet
<1>2. script.blocks \in Seq(ScriptBlocks)
  BY <1>1 DEF Scripts
<1>3. PICK b \in DOMAIN script.blocks : p \in {<<b, k>> : k \in DOMAIN script.blocks[b].steps}
  BY DEF Places
<1>4. PICK k \in DOMAIN script.blocks[b].steps : p = <<b, k>>
  BY <1>3
<1>5. script.blocks[b].steps \in Seq(ScriptSteps)
  <2>1. script.blocks[b] \in ScriptBlocks
    BY <1>2
  <2> QED  BY <2>1 DEF ScriptBlocks
<1>6. p[1] = b /\ p[2] = k
  BY <1>4
<1>7. b \in 1..Len(script.blocks) /\ Len(script.blocks) \in Nat
  BY <1>2
<1>8. k \in 1..Len(script.blocks[b].steps) /\ Len(script.blocks[b].steps) \in Nat
  BY <1>5
<1> QED  BY <1>6, <1>7, <1>8

LEMMA ThisPlace ==
  ASSUME SceneOK, PlaceOK, AtStep
  PROVE  <<pc[2], pc[3]>> \in Places(running) /\ StepAt(running, <<pc[2], pc[3]>>) = Here
<1>1. running \in Scripts
  BY OrdersAssumption DEF PlaceOK, SceneOK, AtStep, ToSet
<1>2. running.blocks \in Seq(ScriptBlocks)
  BY <1>1 DEF Scripts
<1>3. pc[2] \in Nat /\ pc[2] >= 1 /\ pc[2] <= Len(running.blocks)
  BY AtTheStep DEF PlaceOK, AtStep
<1>4. pc[2] \in DOMAIN running.blocks
  BY <1>2, <1>3
<1>5. pc[3] \in DOMAIN running.blocks[pc[2]].steps
  BY AtTheStep DEF Block
<1> QED  BY <1>4, <1>5 DEF Places, StepAt, Here, Block

LEMMA OpenBefore ==
  ASSUME [ToolNext]_toolVars, NEW n, Open(n)'
  PROVE  Open(n) /\ Orders[scene.name][n].id \notin recorded'
<1>1. scene' = scene
  BY SceneStays
<1>2. recorded \subseteq recorded'
  BY DEF ToolNext, ToolStep, Scan, CallDirectly, PrepareBatch, ToolFault, KillTool, Next, Progress,
         Start, PassOver, ReadStep, SendStep, WaitStep, Finish, Mine, Kill, SafeExecute, SafeReject,
         CallFault, toolVars, vars
<1> QED  BY <1>1, <1>2 DEF Open

LEMMA OpenPromises ==
  ASSUME SceneOK, NEW n, Open(n)
  PROVE  /\ scene.name \in DOMAIN Scenes /\ n \in DOMAIN Orders[scene.name] /\ n \in Nat
         /\ n \in 1..Len(Orders[scene.name]) /\ Len(Orders[scene.name]) \in Nat
         /\ Orders[scene.name][n] \in ToSet(Orders[scene.name])
         /\ KeepsPromises(scene.name, n) /\ scene.tools = {}
<1> DEFINE s == scene.name
<1>1. s \in DOMAIN Scenes /\ n \in DOMAIN Orders[s] /\ Unconditional(Orders[s][n])
  BY DEF SceneOK, Open
<1>2. Orders[s] \in Seq(Scripts)
  BY <1>1, OrdersAssumption
<1>3. KeepsPromises(s, n)
  BY <1>1, PromisesAssumption
<1>4. scene.tools = Scenes[s].tools
  BY SettingsOf
<1> HIDE DEF s
<1> QED  BY <1>1, <1>2, <1>3, <1>4 DEF KeepsPromises, ToSet, s

\* No tool runs in a scene without tools.
LEMMA NoToolRuns ==
  ASSUME scene.tools = {}, tool = NoTool, [ToolNext]_toolVars
  PROVE  ~ToolStep /\ tool' = NoTool
BY DEF ToolNext, ToolStep, Scan, CallDirectly, PrepareBatch, ToolFault, KillTool, NoTool, toolVars

LEMMA HereIsACall ==
  ASSUME SceneOK, PlaceOK, RunOK, AtStep, NEW n \in DOMAIN Orders[scene.name], pc[1] <= n
  PROVE  Here.tx \in CallsUpTo(scene.name, n)
<1> DEFINE s == scene.name
<1>1. s \in DOMAIN Scenes /\ pc[1] \in DOMAIN Orders[s] /\ running = Orders[s][pc[1]]
  BY DEF SceneOK, RunOK, AtStep
<1>2. Orders[s] \in Seq(Scripts)
  BY <1>1, OrdersAssumption
<1>3. pc[1] \in 1..n /\ running \in Scripts
  BY <1>1, <1>2
<1>4. running.blocks \in Seq(ScriptBlocks)
  BY <1>3 DEF Scripts
<1>5. pc[2] \in Nat /\ pc[2] >= 1 /\ pc[2] <= Len(running.blocks) /\ pc[3] \in DOMAIN Block.steps
  BY AtTheStep DEF PlaceOK, AtStep
<1>6. Block \in ToSet(running.blocks)
  BY <1>4, <1>5 DEF ToSet, Block
<1>7. Here \in ToSet(Block.steps)
  BY <1>5 DEF ToSet, Here
<1> QED  BY <1>1, <1>3, <1>6, <1>7, CallsUpToType

\* What changes the chain and the queues while no tool runs.
LEMMA RunSteps ==
  ASSUME ~ToolStep, [ToolNext]_toolVars
  PROVE  /\ \/ mempool' = mempool
            \/ MinesFirst
            \/ AtStep /\ mempool' = Append(mempool, Here.tx) /\ chain' = chain
         /\ \/ chain' = chain
            \/ MinesFirst
            \/ AtStep /\ chain' = Mined(chain, Deployer, Here.tx) /\ mempool' = mempool
            \/ \E b \in proposals : chain' = AllMined(chain, Gov, b) /\ mempool' = mempool
         /\ proposals' \subseteq proposals \cup {batch}
<1>1. CASE Mine
  BY <1>1 DEF Mine, MinesFirst
<1>2. CASE SendStep
  BY <1>2 DEF SendStep
<1>3. CASE WaitStep
  BY <1>3 DEF WaitStep, Mined
<1>4. CASE \E sent \in BOOLEAN : CallFault(sent)
  BY <1>4 DEF CallFault
<1>5. CASE \E b \in proposals : SafeExecute(b) \/ SafeReject(b)
  BY <1>5 DEF SafeExecute, SafeReject
<1>6. CASE Finish
  BY <1>6 DEF Finish, Proposed
<1>7. CASE Start \/ PassOver \/ ReadStep \/ Kill
  BY <1>7 DEF Start, PassOver, ReadStep, Kill
<1>8. CASE UNCHANGED toolVars
  BY <1>8 DEF toolVars, vars
<1> QED  BY <1>1, <1>2, <1>3, <1>4, <1>5, <1>6, <1>7, <1>8 DEF ToolNext, Next, Progress

\* What every call up to an open script leaves true, stays true.
LEMMA OpenChain ==
  ASSUME IInv, PromisesOK, [ToolNext]_toolVars, NEW n, Open(n)',
         NEW Q, chain \in Q,
         \A tx \in CallsUpTo(scene.name, n) : \A G \in Q : \A who : Mined(G, who, tx) \in Q
  PROVE  chain' \in Q
<1> DEFINE calls == CallsUpTo(scene.name, n)
<1>0. /\ SceneOK /\ PlaceOK /\ RunOK /\ Open(n) /\ n \in DOMAIN Orders[scene.name]
      /\ OnlyUpTo(n) /\ ~ToolStep
  <2>1. SceneOK /\ PlaceOK /\ RunOK /\ Open(n)
    BY OpenBefore DEF IInv, TypeOK, PromisesOK
  <2>2. n \in Nat /\ n \in DOMAIN Orders[scene.name] /\ scene.tools = {}
    BY <2>1, OpenPromises
  <2>3. ~ToolStep
    BY <2>1, <2>2, NoToolRuns DEF RunOK
  <2> QED  BY <2>1, <2>2, <2>3 DEF PromisesOK
<1>1. mempool \in Seq(calls) /\ proposals \in SUBSET Seq(calls) /\ pc[1] <= n
  BY <1>0 DEF OnlyUpTo
<1>2. CASE MinesFirst
  <2>1. Head(mempool) \in calls /\ chain' = Mined(chain, Deployer, Head(mempool))
    BY <1>1, <1>2 DEF MinesFirst
  <2> QED  BY <2>1
<1>3. CASE AtStep /\ chain' = Mined(chain, Deployer, Here.tx)
  <2>1. Here.tx \in calls
    BY <1>0, <1>1, <1>3, HereIsACall
  <2> QED  BY <1>3, <2>1
<1>4. CASE \E b \in proposals : chain' = AllMined(chain, Gov, b)
  <2>1. PICK b \in Seq(calls) : chain' = AllMined(chain, Gov, b)
    BY <1>1, <1>4
  <2> HIDE DEF calls
  <2>2. PICK after : IsMining(chain, Gov, b, after)
    BY MiningExists
  <2>3. after[0] \in Q /\ 0 \in 0..Len(b) /\ Len(b) \in 0..Len(b)
    BY <2>2 DEF IsMining
  <2>4. \A m \in 1..Len(b) : \A G \in Q : Mined(G, Gov, b[m]) \in Q
    BY DEF calls
  <2>5. \A m \in 0..Len(b) : after[m] \in Q
    BY <2>2, <2>3, <2>4, AlongQueue
  <2> QED  BY <2>1, <2>2, <2>3, <2>5, AllMinedDef
<1> QED  BY <1>0, <1>2, <1>3, <1>4, RunSteps

LEMMA FirmChain ==
  ASSUME IInv, PromisesOK, [ToolNext]_toolVars, NEW n, Open(n)',
         NEW f \in chain, Firm(CallsUpTo(scene.name, n), f)
  PROVE  f \in chain'
<1> DEFINE Q == {G \in SUBSET Facts : f \in G}
           calls == CallsUpTo(scene.name, n)
<1>1. calls \in SUBSET Calls /\ chain \in Q
  BY OpenBefore, OpenPromises, CallsUpToType DEF IInv, TypeOK, ChainOK
<1>2. ASSUME NEW tx \in calls, NEW G \in Q, NEW who PROVE Mined(G, who, tx) \in Q
  <2>1. f \in Mined(G, who, tx)
    BY FirmStays DEF Firm
  <2>2. Mined(G, who, tx) \in SUBSET Facts
    BY <1>1, EffectFacts DEF Mined
  <2> QED  BY <2>1, <2>2
<1> HIDE DEF Q
<1>3. chain' \in Q
  BY <1>1, <1>2, OpenChain
<1> QED  BY <1>3 DEF Q
-----------------------------------------------------------------------------
(* The promises are kept *)

LEMMA RunKept ==
  ASSUME IInv, RunOK, [ToolNext]_toolVars
  PROVE  RunOK'
<1>0. scene' = scene /\ SceneOK /\ PlaceOK
  BY SceneStays DEF IInv, TypeOK
<1>1. scene.tools = {} => tool' = NoTool
  BY NoToolRuns DEF RunOK
<1>2. ASSUME ~Idle' PROVE pc'[1] \in DOMAIN Orders[scene.name] /\ running' = Orders[scene.name][pc'[1]]
  <2>1. CASE Stays
    BY <1>2, <2>1 DEF Stays, RunOK, Idle
  <2>2. CASE Passes \/ Skips
    <3>1. ~Idle /\ running' = running /\ pc'[1] = pc[1]
      BY <2>2 DEF Passes, Skips, AtStep, NextStep, NextBlock
    <3> QED  BY <3>1 DEF RunOK
  <2>3. CASE Stops
    BY <1>2, <2>3 DEF Stops, Stop, Idle
  <2>4. CASE Starts
    <3>1. PICK k \in 1..Len(Orders[scene.name]) : pc' = <<k, 1, 1>> /\ running' = Orders[scene.name][k]
      BY <2>4 DEF Starts
    <3>2. Orders[scene.name] \in Seq(Scripts)
      BY <1>0, OrdersAssumption DEF SceneOK
    <3> QED  BY <3>1, <3>2
  <2> QED  BY <1>0, <2>1, <2>2, <2>3, <2>4, Moves
<1> QED  BY <1>0, <1>1, <1>2 DEF RunOK

\* The script that runs ends where it throws, and is recorded when it ends.
LEMMA OpenMoves ==
  ASSUME IInv, PromisesOK, [ToolNext]_toolVars, NEW n, Open(n)'
  PROVE  /\ pc'[1] \in Nat /\ pc'[1] <= n
         /\ pc'[1] = n => \/ Stays \/ Passes \/ (pc[1] < n /\ pc' = <<n, 1, 1>>)
<1>0. /\ SceneOK /\ PlaceOK /\ RunOK /\ Open(n) /\ scene' = scene
      /\ Orders[scene.name][n].id \notin recorded'
  BY OpenBefore, SceneStays DEF IInv, TypeOK, PromisesOK
<1>1. /\ n \in Nat /\ n \in 1..Len(Orders[scene.name]) /\ Len(Orders[scene.name]) \in Nat
      /\ KeepsPromises(scene.name, n) /\ Unconditional(Orders[scene.name][n])
  BY <1>0, OpenPromises DEF Open
<1>2. pc[1] \in Nat /\ pc[1] <= n /\ pc \in Nat \X Nat \X Nat
  BY <1>0, <1>1 DEF PlaceOK, PromisesOK, OnlyUpTo
<1>3. ASSUME pc[1] = n, AtStep
      PROVE  Block.kind = "plain" /\ Here.op \notin {"confirm", "leave", "return"}
  <2>1. running = Orders[scene.name][n] /\ pc[2] >= 1 /\ pc[2] <= Len(running.blocks)
    BY <1>0, <1>3 DEF RunOK, PlaceOK, AtStep
  <2>2. pc[3] \in DOMAIN Block.steps /\ pc[2] \in Nat
    BY <1>0, <1>3, AtTheStep
  <2>3. pc[2] \in DOMAIN running.blocks
    <3>1. running \in Scripts
      BY <1>0, <1>3, OrdersAssumption DEF PlaceOK, SceneOK, AtStep, ToSet
    <3>2. running.blocks \in Seq(ScriptBlocks)
      BY <3>1 DEF Scripts
    <3> QED  BY <2>1, <2>2, <3>2
  <2>4. Block.kind = "plain"
    BY <1>1, <2>1, <2>3 DEF KeepsPromises, Block
  <2>5. <<pc[2], pc[3]>> \in Places(running) /\ StepAt(running, <<pc[2], pc[3]>>) = Here
    BY <1>0, <1>3, ThisPlace
  <2>6. Here.op \in {"expect", "send", "sendWait", "attempt", "deploy", "rethrow"}
    BY <1>1, <2>1, <2>5 DEF Unconditional
  <2> QED  BY <2>4, <2>6
<1>4. CASE Stays
  BY <1>2, <1>4 DEF Stays
<1>5. CASE Passes
  <2>1. pc'[1] = pc[1]
    BY <1>2, <1>5 DEF Passes, NextStep, NextBlock
  <2> QED  BY <1>2, <1>5, <2>1
<1>6. CASE Skips
  <2>1. pc'[1] = pc[1] /\ AtStep /\ (Block.kind # "plain" \/ Here.op \in {"confirm", "leave"})
    BY <1>2, <1>6 DEF Skips, NextBlock
  <2> QED  BY <1>2, <1>3, <2>1
<1>7. CASE Stops
  <2>1. pc'[1] = 0
    BY <1>7 DEF Stops, Stop
  <2>2. n # 0
    BY <1>1
  <2> QED  BY <1>1, <2>1, <2>2
<1>8. CASE Starts
  <2>1. PICK k \in 1..Len(Orders[scene.name]) :
          /\ pc' = <<k, 1, 1>>
          /\ \A l \in (pc[1] + 1)..Len(Orders[scene.name]) :
               Orders[scene.name][l].id \notin recorded' => k <= l
    BY <1>8 DEF Starts
  <2>2. pc[1] # n
    <3> SUFFICES ASSUME pc[1] = n PROVE FALSE
      OBVIOUS
    <3>1. ~Idle /\ ~(AtStep /\ Here.op = "return")
      BY <1>1, <1>3 DEF Idle
    <3>2. AtFinish /\ (Succeeds => running.id \in recorded')
      BY <1>8, <3>1 DEF Starts
    <3>3. running = Orders[scene.name][n]
      BY <1>0, <3>1 DEF RunOK
    <3>4. Succeeds
      BY <1>1, <3>3 DEF Unconditional, Succeeds
    <3> QED  BY <1>0, <3>2, <3>3, <3>4
  <2>3. n \in (pc[1] + 1)..Len(Orders[scene.name]) /\ pc[1] < n
    BY <1>1, <1>2, <2>2
  <2>4. k <= n /\ pc'[1] = k /\ k \in Nat
    BY <1>0, <2>1, <2>3
  <2> QED  BY <2>1, <2>3, <2>4
<1> QED  BY <1>0, <1>4, <1>5, <1>6, <1>7, <1>8, Moves

LEMMA OnlyUpToKept ==
  ASSUME IInv, PromisesOK, [ToolNext]_toolVars, NEW n, Open(n)'
  PROVE  OnlyUpTo(n)'
<1> DEFINE calls == CallsUpTo(scene.name, n)
<1>0. /\ SceneOK /\ PlaceOK /\ RunOK /\ Open(n) /\ scene' = scene
      /\ n \in Nat /\ n \in DOMAIN Orders[scene.name] /\ OnlyUpTo(n) /\ ~ToolStep
  <2>1. SceneOK /\ PlaceOK /\ RunOK /\ Open(n) /\ scene' = scene
    BY OpenBefore, SceneStays DEF IInv, TypeOK, PromisesOK
  <2>2. n \in Nat /\ n \in DOMAIN Orders[scene.name] /\ scene.tools = {}
    BY <2>1, OpenPromises
  <2>3. ~ToolStep
    BY <2>1, <2>2, NoToolRuns DEF RunOK
  <2> QED  BY <2>1, <2>2, <2>3 DEF PromisesOK
<1>1. pc[1] <= n /\ mempool \in Seq(calls) /\ batch \in Seq(calls) /\ proposals \in SUBSET Seq(calls)
  BY <1>0 DEF OnlyUpTo
<1>2. AtStep => Here.tx \in calls
  BY <1>0, <1>1, HereIsACall
<1>3. pc'[1] <= n
  BY OpenMoves
<1> HIDE DEF calls
<1>4. mempool' \in Seq(calls)
  <2>1. CASE MinesFirst
    BY <1>1, <2>1 DEF MinesFirst
  <2>2. CASE AtStep /\ mempool' = Append(mempool, Here.tx)
    BY <1>1, <1>2, <2>2
  <2> QED  BY <1>0, <1>1, <2>1, <2>2, RunSteps
<1>5. batch' \in Seq(calls)
  <2>1. CASE Stays \/ Skips
    BY <1>1, <2>1 DEF Stays, Skips
  <2>2. CASE Stops \/ Starts
    <3>1. batch' = <<>>
      BY <2>2 DEF Stops, Starts
    <3> QED  BY <3>1
  <2>3. CASE Passes
    <3>1. AtStep /\ (batch' = batch \/ batch' = Append(batch, Here.tx))
      BY <2>3 DEF Passes
    <3> QED  BY <1>1, <1>2, <3>1
  <2> QED  BY <1>0, <2>1, <2>2, <2>3, Moves
<1>6. proposals' \in SUBSET Seq(calls)
  BY <1>0, <1>1, RunSteps
<1> QED  BY <1>0, <1>3, <1>4, <1>5, <1>6 DEF OnlyUpTo, calls

LEMMA AccompaniedKept ==
  ASSUME IInv, PromisesOK, [ToolNext]_toolVars, NEW n, Open(n)'
  PROVE  AccompaniedOK(n)'
<1> DEFINE s == scene.name
           calls == CallsUpTo(s, n)
<1>0. /\ SceneOK /\ Open(n) /\ scene' = scene /\ ChainOK
  BY OpenBefore, SceneStays DEF IInv, TypeOK
<1>1. /\ n \in Nat /\ n \in DOMAIN Orders[s] /\ s \in DOMAIN Scenes /\ KeepsPromises(s, n)
      /\ calls \in SUBSET Calls
  BY <1>0, OpenPromises, CallsUpToType
<1>2. AccompaniedOK(n)
  BY <1>0, <1>1 DEF PromisesOK
<1>3. ASSUME NEW f \in Promised(Orders[s][n]), NEW u \in chain', Accompanied(s, calls, u, f)
      PROVE  f \in chain'
  <2> DEFINE Q == {G \in SUBSET Facts : u \in G => f \in G}
  <2>1. Firm(calls, f)
    BY <1>1 DEF KeepsPromises
  <2>2. chain \in Q
    BY <1>0, <1>2, <1>3 DEF AccompaniedOK, ChainOK
  <2>3. ASSUME NEW tx \in calls, NEW G \in Q, NEW who PROVE Mined(G, who, tx) \in Q
    <3>1. u \in Mined(G, who, tx) => f \in Mined(G, who, tx)
      BY <1>3, <2>1, AccompaniedStays
    <3>2. Mined(G, who, tx) \in SUBSET Facts
      BY <1>1, EffectFacts DEF Mined
    <3> QED  BY <3>1, <3>2
  <2> HIDE DEF Q
  <2>4. chain' \in Q
    BY <2>2, <2>3, OpenChain
  <2> QED  BY <1>3, <2>4 DEF Q
<1> QED  BY <1>0, <1>3 DEF AccompaniedOK

\* What is on its way stays so, or arrives.
LEMMA ComingStays ==
  ASSUME IInv, PromisesOK, [ToolNext]_toolVars, NEW n, Open(n)', NEW f,
         Firm(CallsUpTo(scene.name, n), f), Coming(CallsUpTo(scene.name, n), chain, mempool, f)
  PROVE  Coming(CallsUpTo(scene.name, n), chain', mempool', f)
<1> DEFINE calls == CallsUpTo(scene.name, n)
<1>0. /\ SceneOK /\ PlaceOK /\ RunOK /\ Open(n) /\ ChainOK
      /\ calls \in SUBSET Calls /\ mempool \in Seq(calls) /\ ~ToolStep
  <2>1. SceneOK /\ PlaceOK /\ RunOK /\ Open(n) /\ ChainOK
    BY OpenBefore DEF IInv, TypeOK, PromisesOK
  <2>2. /\ n \in Nat /\ n \in DOMAIN Orders[scene.name] /\ scene.tools = {}
        /\ scene.name \in DOMAIN Scenes
    BY <2>1, OpenPromises
  <2>3. ~ToolStep
    BY <2>1, <2>2, NoToolRuns DEF RunOK
  <2>4. OnlyUpTo(n)
    BY <2>1, <2>2 DEF PromisesOK
  <2> QED  BY <2>1, <2>2, <2>3, <2>4, CallsUpToType DEF OnlyUpTo
<1>1. CASE f \in chain
  BY <1>1, FirmChain DEF Coming
<1>2. CASE \E k \in 1..Len(mempool) : Sturdy(calls, mempool[k], f) /\ Allowed(chain, Deployer, mempool[k])
  <2>1. PICK k \in 1..Len(mempool) :
          Sturdy(calls, mempool[k], f) /\ Allowed(chain, Deployer, mempool[k])
    BY <1>2
  <2> DEFINE t == mempool[k]
             Q == {G \in SUBSET Facts : f \in G \/ Allowed(G, Deployer, t)}
  <2>2. f \in chain' \/ Allowed(chain', Deployer, t)
    <3>1. chain \in Q
      BY <1>0, <2>1 DEF ChainOK
    <3>2. ASSUME NEW tx \in calls, NEW G \in Q, NEW who PROVE Mined(G, who, tx) \in Q
      <4>1. Sturdy(calls, t, f) /\ Firm(calls, f) /\ (f \in G \/ Allowed(G, Deployer, t))
        BY <2>1
      <4> HIDE DEF t
      <4>2. f \in Mined(G, who, tx) \/ Allowed(Mined(G, who, tx), Deployer, t)
        BY <4>1, SturdyStays
      <4>3. Mined(G, who, tx) \in SUBSET Facts
        BY <1>0, EffectFacts DEF Mined
      <4> QED  BY <4>2, <4>3
    <3> HIDE DEF Q
    <3>3. chain' \in Q
      BY <3>1, <3>2, OpenChain
    <3> QED  BY <3>3 DEF Q
  <2>3. CASE f \in chain'
    BY <2>3 DEF Coming
  <2>4. CASE f \notin chain'
    <3>1. Sturdy(calls, t, f) /\ Allowed(chain', Deployer, t)
      BY <2>1, <2>2, <2>4
    <3>2. \E m \in 1..Len(mempool') : mempool'[m] = t
      <4>1. CASE MinesFirst
        <5>1. mempool' = Tail(mempool) /\ chain' = Mined(chain, Deployer, mempool[1])
          BY <1>0, <4>1 DEF MinesFirst
        <5>2. k # 1
          <6> SUFFICES ASSUME k = 1 PROVE FALSE
            OBVIOUS
          <6>1. chain' = Effect(chain, t) /\ f \in t.add
            BY <2>1, <5>1 DEF Mined, Sturdy
          <6> QED  BY <2>4, <6>1, EffectAdds
        <5>3. k - 1 \in 1..Len(mempool') /\ mempool'[k - 1] = t
          BY <1>0, <5>1, <5>2
        <5> QED  BY <5>3
      <4>2. CASE mempool' = mempool \/ mempool' = Append(mempool, Here.tx)
        <5>1. k \in 1..Len(mempool') /\ mempool'[k] = t
          BY <1>0, <4>2
        <5> QED  BY <5>1
      <4> QED  BY <1>0, <4>1, <4>2, RunSteps
    <3> HIDE DEF t
    <3> QED  BY <3>1, <3>2 DEF Coming
  <2> QED  BY <2>3, <2>4
<1> QED  BY <1>1, <1>2 DEF Coming

\* The step that the run passes now has done its part.
LEMMA PassedIsComing ==
  ASSUME IInv, PromisesOK, [ToolNext]_toolVars, NEW n, Open(n)', Passes, pc[1] = n,
         NEW f \in Promised(Orders[scene.name][n]),
         Establishes(scene.name, CallsUpTo(scene.name, n), Here, f)
  PROVE  Coming(CallsUpTo(scene.name, n), chain', mempool', f)
<1> DEFINE calls == CallsUpTo(scene.name, n)
<1>0. Open(n) /\ AccompaniedOK(n) /\ CallsOK /\ AtStep
  <2>1. SceneOK /\ Open(n) /\ CallsOK
    BY OpenBefore DEF IInv, TypeOK
  <2> QED  BY <2>1, OpenPromises DEF PromisesOK, Passes
<1>1. CASE ~Applies /\ chain' = chain
  <2>1. PICK u \in chain : u \in Here.unless
    BY <1>1 DEF Applies, Establishes
  <2>2. f \in chain
    BY <1>0, <2>1 DEF AccompaniedOK, Establishes
  <2> QED  BY <1>1, <2>2 DEF Coming
<1>2. CASE Here.op \in {"expect", "confirm"} /\ Here.fact \in chain /\ chain' = chain
  BY <1>2 DEF Establishes, Coming
<1>3. CASE /\ Here.op \in {"send", "attempt", "queue"} /\ Allowed(chain, Deployer, Here.tx)
           /\ mempool' = Append(mempool, Here.tx) /\ chain' = chain
  <2>1. Sturdy(calls, Here.tx, f)
    BY <1>3 DEF Establishes
  <2>2. Len(mempool') \in 1..Len(mempool') /\ mempool'[Len(mempool')] = Here.tx
    BY <1>0, <1>3 DEF CallsOK
  <2> QED  BY <1>3, <2>1, <2>2 DEF Coming
<1>4. CASE /\ Here.op \in {"sendWait", "queueWait", "deploy"} /\ Allowed(chain, Deployer, Here.tx)
           /\ chain' = Effect(chain, Here.tx)
  BY <1>4, EffectAdds DEF Establishes, Coming
<1>5. CASE Here.op \in {"queue", "queueWait", "attempt", "rethrow"}
  BY <1>5 DEF Establishes
<1> QED  BY <1>1, <1>2, <1>3, <1>4, <1>5 DEF Passes

LEMMA BehindKept ==
  ASSUME IInv, PromisesOK, [ToolNext]_toolVars, NEW n, Open(n)'
  PROVE  BehindOK(n)'
<1> DEFINE s == scene.name
           calls == CallsUpTo(s, n)
           script == Orders[s][n]
<1>0. /\ SceneOK /\ PlaceOK /\ RunOK /\ Open(n) /\ scene' = scene
  BY OpenBefore, SceneStays DEF IInv, TypeOK, PromisesOK
<1>1. /\ n \in Nat /\ n \in DOMAIN Orders[s] /\ s \in DOMAIN Scenes /\ KeepsPromises(s, n)
      /\ script \in ToSet(Orders[s])
  BY <1>0, OpenPromises
<1>2. BehindOK(n)
  BY <1>0, <1>1 DEF PromisesOK
<1> SUFFICES ASSUME pc'[1] = n, NEW f \in Promised(script), NEW p \in Places(script),
                    Earlier(p, <<pc'[2], pc'[3]>>), Establishes(s, calls, StepAt(script, p), f)
             PROVE  Coming(calls, chain', mempool', f)
  BY <1>0 DEF BehindOK
<1>3. Firm(calls, f)
  BY <1>1 DEF KeepsPromises
<1> DEFINE b == p[1]
           k == p[2]
<1>6. /\ b \in Nat /\ k \in Nat /\ b >= 1 /\ k >= 1
      /\ k <= Len(script.blocks[b].steps) /\ Len(script.blocks[b].steps) \in Nat
  <2> HIDE DEF script
  <2>1. /\ p[1] \in 1..Len(script.blocks) /\ Len(script.blocks) \in Nat
        /\ p[2] \in 1..Len(script.blocks[p[1]].steps) /\ Len(script.blocks[p[1]].steps) \in Nat
    BY <1>1, PlacesOf
  <2> QED  BY <2>1
<1>7. p[1] = b /\ p[2] = k
  OBVIOUS
<1> HIDE DEF b, k
<1>8. ASSUME pc[1] = n, Earlier(p, <<pc[2], pc[3]>>) PROVE Coming(calls, chain', mempool', f)
  <2>1. Coming(calls, chain, mempool, f)
    BY <1>2, <1>8 DEF BehindOK
  <2> QED  BY <1>3, <2>1, ComingStays
<1>9. CASE Stays
  BY <1>8, <1>9 DEF Stays
<1>10. CASE Passes
  <2>1. AtStep /\ running' = running /\ pc' = NextStep /\ pc \in Nat \X Nat \X Nat
    BY <1>0, <1>10 DEF Passes, PlaceOK
  <2>2. pc[1] = n
    BY <2>1 DEF NextStep, NextBlock
  <2>3. running = script
    BY <1>0, <2>1, <2>2 DEF RunOK, AtStep
  <2>4. pc[2] \in Nat /\ pc[3] \in Nat /\ pc[3] >= 1 /\ pc[3] <= Len(Block.steps)
    BY <1>0, <2>1, AtTheStep
  <2>5. b = pc[2] => Block = script.blocks[b]
    BY <2>3 DEF Block
  <2>6. Earlier(p, <<pc[2], pc[3]>>) \/ (b = pc[2] /\ k = pc[3])
    <3>1. CASE pc[3] < Len(Block.steps)
      <4>1. pc'[2] = pc[2] /\ pc'[3] = pc[3] + 1
        BY <2>1, <3>1 DEF NextStep
      <4> QED  BY <1>6, <1>7, <2>4, <4>1 DEF Earlier
    <3>2. CASE ~(pc[3] < Len(Block.steps))
      <4>1. pc'[2] = pc[2] + 1 /\ pc'[3] = 1
        BY <2>1, <3>2 DEF NextStep, NextBlock
      <4>2. b < pc[2] + 1
        BY <1>6, <1>7, <4>1 DEF Earlier
      <4>3. b = pc[2] => k <= Len(Block.steps) /\ Len(Block.steps) \in Nat
        BY <1>6, <2>5
      <4> QED  BY <1>6, <1>7, <2>4, <3>2, <4>2, <4>3 DEF Earlier
    <3> QED  BY <3>1, <3>2
  <2>7. CASE b = pc[2] /\ k = pc[3]
    <3>1. StepAt(script, p) = Here
      BY <1>7, <2>3, <2>7 DEF StepAt, Here, Block
    <3> QED  BY <1>10, <2>2, <3>1, PassedIsComing
  <2> QED  BY <1>8, <2>2, <2>6, <2>7
<1>11. CASE pc' = <<n, 1, 1>>
  <2>1. pc'[2] = 1 /\ pc'[3] = 1
    BY <1>11
  <2> QED  BY <1>6, <1>7, <2>1 DEF Earlier
<1> QED  BY <1>9, <1>10, <1>11, OpenMoves

LEMMA ToolInitPromises == ToolInit => PromisesOK
<1> SUFFICES ASSUME ToolInit PROVE PromisesOK
  OBVIOUS
<1>1. PICK s \in DOMAIN Scenes : scene = Settings(s) /\ chain = Scenes[s].chain
  BY DEF ToolInit, Init
<1>2. scene.name = s
  BY <1>1 DEF Settings
<1>3. /\ mempool = <<>> /\ pc = <<0, 1, 1>> /\ batch = <<>> /\ proposals = {} /\ tool = NoTool
  BY DEF ToolInit, Init
<1>4. pc[1] = 0 /\ RunOK
  BY <1>3 DEF RunOK, Idle
<1>5. ASSUME NEW n \in Nat, Open(n) PROVE OnlyUpTo(n) /\ AccompaniedOK(n) /\ BehindOK(n)
  <2>1. n # 0
    <3>1. Orders[s] \in Seq(Scripts) /\ n \in DOMAIN Orders[s]
      BY <1>2, <1>5, OrdersAssumption DEF Open
    <3> QED  BY <3>1
  <2>2. OnlyUpTo(n)
    <3> DEFINE calls == CallsUpTo(scene.name, n)
    <3> HIDE DEF calls
    <3>1. <<>> \in Seq(calls)
      OBVIOUS
    <3> QED  BY <1>3, <1>4, <3>1 DEF OnlyUpTo, calls
  <2>3. AccompaniedOK(n)
    BY <1>1, <1>2 DEF AccompaniedOK, Accompanied
  <2>4. BehindOK(n)
    BY <1>4, <2>1 DEF BehindOK
  <2> QED  BY <2>2, <2>3, <2>4
<1> QED  BY <1>4, <1>5 DEF PromisesOK

LEMMA StepKeepsPromises == IInv /\ PromisesOK /\ [ToolNext]_toolVars => PromisesOK'
<1> SUFFICES ASSUME IInv, PromisesOK, [ToolNext]_toolVars PROVE PromisesOK'
  OBVIOUS
<1>1. RunOK'
  BY RunKept DEF PromisesOK
<1>2. ASSUME NEW n \in Nat, Open(n)' PROVE (OnlyUpTo(n) /\ AccompaniedOK(n) /\ BehindOK(n))'
  BY <1>2, OnlyUpToKept, AccompaniedKept, BehindKept
<1> QED  BY <1>1, <1>2 DEF PromisesOK

\* A script of deploy/ that ends with "return true", and may end in no other way
\* but an exception, is recorded in .migrations.json only when all that its calls
\* add is there, or will be when what was sent is mined: for all scripts that keep
\* to PromisesAssumption, whatever fails, lags or is killed in earlier runs.
THEOREM RecordedIsDone == ToolSpec => RecordedMeansDone
<1>1. ASSUME IInv, PromisesOK, [ToolNext]_toolVars, recorded' # recorded
      PROVE  Promises[scene.name][pc[1]] \subseteq AllMined(chain', Deployer, mempool')
  <2> DEFINE s == scene.name
             n == pc[1]
             script == Orders[s][n]
             calls == CallsUpTo(s, n)
  <2>0. SceneOK /\ PlaceOK /\ RunOK /\ s \in DOMAIN Scenes
    BY <1>1 DEF IInv, TypeOK, PromisesOK, SceneOK
  <2>1. \/ AtStep /\ Here.op = "return" /\ recorded' \subseteq recorded \cup {running.id}
        \/ AtFinish /\ recorded' \subseteq recorded \cup {running.id} /\ UNCHANGED <<chain, mempool>>
    BY <1>1 DEF ToolNext, ToolStep, Scan, CallDirectly, PrepareBatch, ToolFault, KillTool, Next,
       Progress, Start, PassOver, ReadStep, SendStep, WaitStep, Finish, Mine, Kill, SafeExecute,
       SafeReject, CallFault, toolVars, vars
  <2>2. ~Idle /\ n \in DOMAIN Orders[s] /\ running = script /\ n \in Nat
    BY <2>0, <2>1 DEF AtStep, AtFinish, RunOK, PlaceOK
  <2>3. Promises[s][n] = IF Unconditional(script) THEN Promised(script) ELSE {}
    BY <2>0, <2>2 DEF Promises
  <2>4. CASE ~Unconditional(script)
    BY <2>3, <2>4
  <2>5. CASE Unconditional(script)
    <3>1. Open(n) /\ OnlyUpTo(n) /\ BehindOK(n)
      <4>1. running.id \notin recorded
        <5>1. recorded \subseteq recorded'
          BY <1>1 DEF ToolNext, ToolStep, Scan, CallDirectly, PrepareBatch, ToolFault, KillTool,
             Next, Progress, Start, PassOver, ReadStep, SendStep, WaitStep, Finish, Mine, Kill,
             SafeExecute, SafeReject, CallFault, toolVars, vars
        <5> QED  BY <1>1, <2>1, <5>1
      <4> QED  BY <1>1, <2>2, <2>5, <4>1 DEF Open, PromisesOK
    <3>2. KeepsPromises(s, n) /\ script \in ToSet(Orders[s])
      BY <2>0, <3>1, OpenPromises
    <3>3. AtFinish /\ chain' = chain /\ mempool' = mempool
      <4>1. ASSUME AtStep PROVE Here.op # "return"
        <5>1. <<pc[2], pc[3]>> \in Places(running) /\ StepAt(running, <<pc[2], pc[3]>>) = Here
          BY <2>0, <4>1, ThisPlace
        <5> QED  BY <2>2, <2>5, <5>1 DEF Unconditional
      <4> QED  BY <2>1, <4>1
    <3>4. ASSUME NEW f \in Promised(script) PROVE f \in AllMined(chain, Deployer, mempool)
      <4>1. Firm(calls, f)
        BY <3>2 DEF KeepsPromises
      <4>2. PICK p \in Places(script) : Establishes(s, calls, StepAt(script, p), f)
        BY <3>2 DEF KeepsPromises
      <4>3. Earlier(p, <<pc[2], pc[3]>>)
        <5> DEFINE pos == <<pc[2], pc[3]>>
        <5>1. p[1] \in 1..Len(running.blocks) /\ Len(running.blocks) \in Nat
          BY <2>0, <2>2, <3>2, <4>2, PlacesOf
        <5>2. pc[2] > Len(running.blocks) /\ pc[2] \in Nat /\ pos[1] = pc[2]
          BY <2>0, <2>2, <3>3 DEF AtFinish, PlaceOK
        <5> HIDE DEF pos
        <5>3. p[1] < pos[1]
          BY <5>1, <5>2
        <5>4. Earlier(p, pos)
          BY <5>3 DEF Earlier
        <5> QED  BY <5>4 DEF pos
      <4>4. Coming(calls, chain, mempool, f)
        BY <3>1, <4>2, <4>3 DEF BehindOK
      <4>5. mempool \in Seq(calls)
        BY <3>1 DEF OnlyUpTo
      <4> QED  BY <4>1, <4>4, <4>5, ComingIsMined
    <3> QED  BY <2>3, <2>5, <3>3, <3>4
  <2> QED  BY <2>4, <2>5
<1>2. IInv /\ PromisesOK /\ [ToolNext]_toolVars =>
        [recorded' # recorded =>
           Promises[scene.name][pc[1]] \subseteq AllMined(chain', Deployer, mempool')]_vars
  BY <1>1
<1> QED  BY <1>2, DeploymentInvariant, ToolInitPromises, StepKeepsPromises, PTL
         DEF ToolSpec, RecordedMeansDone
-----------------------------------------------------------------------------
(* What assets are priced from                                             *)
(*                                                                         *)
(* The invariant PricesOK.  FeedsOK says of the batches of the Safe that   *)
(* they set a feed again that they unset, and ReadsOK and OrderOK of the   *)
(* calls under way that what they rely on is there when they are mined:    *)
(* ReadsOK, because it was there when they were sent and stays, in scenes  *)
(* where batches are executed in any order; OrderOK, because it was sent   *)
(* before them, in scenes where everything is mined in the order in which  *)
(* it was sent.                                                            *)

FedIn(b) == \A n \in 1..Len(b) : \A k \in Unfed(b[n]) : \E m \in (n + 1)..Len(b) : Feeds(b[m], k)
\* The run is at the step that sets the feed again.
Refeeds(k) ==
  /\ AtStep /\ Block.kind = "plain" /\ SetByGovernance(Here, k)
  /\ Here.when = {} /\ Here.unless = {} /\ Feeds(Here.tx, k)
FeedsOK ==
  /\ \A k \in UnfedIn[scene.name] : <<k[1], OracleManager, Deployer>> \notin chain
  /\ \A b \in proposals : FedIn(b)
  /\ batch # <<>> => UseSafe
  /\ \A n \in 1..Len(batch) : \A k \in Unfed(batch[n]) :
       Refeeds(k) \/ \E m \in (n + 1)..Len(batch) : Feeds(batch[m], k)

LEMMA EffectFeeds ==
  ASSUME NEW F, NEW tx, NEW w \in FeedWrappers, NEW a, a # Owner,
         HasFeed(F, <<w, a>>), <<w, a>> \notin Unfed(tx)
  PROVE  HasFeed(Effect(F, tx), <<w, a>>)
<1> DEFINE k == <<w, a>>
<1>1. k[1] = w /\ k[2] = a
  OBVIOUS
<1>2. CASE HasFeed(tx.add, k)
  BY <1>2, EffectAdds DEF HasFeed
<1>3. CASE ~HasFeed(tx.add, k)
  <2>1. PICK v \in FeedValues : <<w, a, v>> \in F
    BY DEF HasFeed
  <2> DEFINE f == <<w, a, v>>
  <2>2. f \in F /\ <<f[1], f[2]>> = k /\ f[3] \in FeedValues
    BY <2>1
  <2>3. k \notin tx.clear
    BY <1>1, <1>3 DEF Unfed, Feeds
  <2>4. f \notin tx.del
    <3> HIDE DEF f
    <3>1. f \in tx.del => k \in {<<h[1], h[2]>> : h \in {g \in tx.del : g[3] \in FeedValues}}
      BY <2>2
    <3> QED  BY <1>1, <1>3, <3>1 DEF Unfed, Feeds
  <2> HIDE DEF f
  <2>5. f \in Effect(F, tx)
    BY <2>2, <2>3, <2>4, EffectKeeps
  <2> QED  BY <2>5 DEF HasFeed, f
<1> QED  BY <1>2, <1>3

\* What is fed stays so in the execution of a batch, as seen from outside.
LEMMA BatchFeeds ==
  ASSUME NEW F, NEW T, NEW b \in Seq(T), BatchAllowed(F, Gov, b), FedIn(b),
         NEW w \in FeedWrappers, NEW a, a # Owner, HasFeed(F, <<w, a>>)
  PROVE  HasFeed(AllMined(F, Gov, b), <<w, a>>)
<1> DEFINE k == <<w, a>>
<1>1. PICK after : IsMining(F, Gov, b, after)
  BY MiningExists
<1>2. Len(b) \in Nat
  OBVIOUS
<1> DEFINE Due(n) == HasFeed(after[n], k)
                     \/ \E i \in 1..n : k \in Unfed(b[i]) /\ \A j \in (i + 1)..n : ~Feeds(b[j], k)
           Bad == {n \in 0..Len(b) : ~Due(n)}
<1>3. Bad = {}
  <2> SUFFICES ASSUME Bad # {} PROVE FALSE
    OBVIOUS
  <2>0. Bad \subseteq Nat
    OBVIOUS
  <2> HIDE DEF Bad
  <2>1. PICK n \in Bad : \A j \in Bad : n <= j
    BY <2>0, LeastOf
  <2> USE DEF Bad
  <2>2. n # 0
    <3>1. after[0] = F
      BY <1>1 DEF IsMining
    <3> QED  BY <2>1, <3>1
  <2>3. n \in 1..Len(b) /\ n - 1 \in 0..Len(b) /\ ~(n <= n - 1)
    BY <1>2, <2>1, <2>2
  <2>4. Due(n - 1)
    BY <2>1, <2>3
  <2>5. after[n] = Effect(after[n - 1], b[n])
    BY <1>1, <2>3, BatchTurns DEF IsMining, Mined
  <2> HIDE DEF k
  <2>6. ~HasFeed(after[n], k) /\ \A i \in 1..n : k \in Unfed(b[i]) => \E j \in (i + 1)..n : Feeds(b[j], k)
    BY <2>1
  <2>7. ~Feeds(b[n], k)
    <3>1. b[n].add \subseteq after[n]
      BY <2>5, EffectAdds
    <3> QED  BY <2>6, <3>1 DEF Feeds, HasFeed
  <2>8. k \notin Unfed(b[n])
    BY <2>3, <2>6
  <2>9. ~HasFeed(after[n - 1], k)
    BY <2>5, <2>6, <2>8, EffectFeeds DEF k
  <2>10. PICK i \in 1..(n - 1) : k \in Unfed(b[i]) /\ \A j \in (i + 1)..(n - 1) : ~Feeds(b[j], k)
    BY <2>4, <2>9
  <2>11. PICK j \in (i + 1)..n : Feeds(b[j], k)
    BY <2>3, <2>6, <2>10
  <2> QED  BY <2>3, <2>7, <2>10, <2>11
<1> HIDE DEF k
<1>4. Due(Len(b))
  BY <1>2, <1>3
<1>5. \A i \in 1..Len(b) : k \in Unfed(b[i]) => \E j \in (i + 1)..Len(b) : Feeds(b[j], k)
  BY DEF FedIn
<1>6. HasFeed(after[Len(b)], k)
  BY <1>4, <1>5
<1> QED  BY <1>1, <1>6, AllMinedDef DEF k

\* Nobody but governance unsets a feed, and by a batch that sets another one.
LEMMA FeedStays ==
  ASSUME IInv, FeedsOK, [ToolNext]_toolVars,
         NEW w \in FeedWrappers, NEW a, a # Owner, HasFeed(chain, <<w, a>>)
  PROVE  HasFeed(chain', <<w, a>>)
<1> DEFINE k == <<w, a>>
<1>1. CASE chain' = chain
  BY <1>1
<1>2. ASSUME NEW tx, CallNow(tx) PROVE HasFeed(chain', k)
  <2>1. /\ KeepsFeeds(scene.name, tx) /\ Allowed(chain, Deployer, tx) /\ chain' = Effect(chain, tx)
    BY <1>2 DEF CallNow, StepCalls
  <2> HIDE DEF k
  <2>2. k \notin Unfed(tx)
    <3> SUFFICES ASSUME k \in Unfed(tx) PROVE FALSE
      OBVIOUS
    <3> DEFINE n == <<k[1], OracleManager>>
    <3>1. n \in tx.need /\ k \in UnfedIn[scene.name]
      BY <2>1 DEF KeepsFeeds
    <3>2. <<n[1], n[2], Deployer>> \in chain
      BY <2>1, <3>1 DEF Allowed
    <3> QED  BY <3>1, <3>2 DEF FeedsOK
  <2> QED  BY <2>1, <2>2, EffectFeeds DEF k
<1>3. ASSUME NEW b \in proposals, BatchAllowed(chain, Gov, b), chain' = AllMined(chain, Gov, b)
      PROVE  HasFeed(chain', k)
  <2>1. FedIn(b) /\ b \in Seq(Batchable(scene.name))
    BY <1>3 DEF FeedsOK, IInv, TypeOK, CallsOK
  <2> QED  BY <1>3, <2>1, BatchFeeds
<1> QED  BY <1>1, <1>2, <1>3, ChainSteps DEF IInv, TypeOK

LEMMA FeedRightsKept ==
  ASSUME IInv, FeedsOK, [ToolNext]_toolVars, NEW k \in UnfedIn[scene.name]
  PROVE  <<k[1], OracleManager, Deployer>> \notin chain'
<1> DEFINE f == <<k[1], OracleManager, Deployer>>
<1>0. f \notin chain
  BY DEF FeedsOK
<1>1. ASSUME NEW tx \in StepCalls(scene.name), NEW G, f \notin G PROVE f \notin Effect(G, tx)
  <2>1. f \notin Adds(tx)
    BY DEF StepCalls, KeepsFeeds
  <2> QED  BY <1>1, <2>1, EffectOrigin
<1> HIDE DEF f
<1>2. CASE chain' = chain
  BY <1>0, <1>2 DEF f
<1>3. CASE \E tx : CallNow(tx)
  BY <1>0, <1>1, <1>3 DEF CallNow, f
<1>4. ASSUME NEW b \in proposals, chain' = AllMined(chain, Gov, b) PROVE f \notin chain'
  <2> DEFINE Q == {G \in SUBSET (chain \cup chain' \cup Facts) : f \notin G}
  <2>1. b \in Seq(Batchable(scene.name)) /\ chain \in SUBSET Facts
    BY <1>4 DEF IInv, TypeOK, CallsOK, ChainOK
  <2>2. PICK after : IsMining(chain, Gov, b, after)
    BY <2>1, MiningExists
  <2>3. Len(b) \in Nat /\ 0 \in 0..Len(b) /\ after[0] \in Q
    BY <1>0, <2>1, <2>2 DEF IsMining
  <2>4. ASSUME NEW n \in 1..Len(b), NEW G \in Q PROVE Mined(G, Gov, b[n]) \in Q
    <3>1. b[n] \in StepCalls(scene.name)
      BY <2>1 DEF Batchable, Sendable
    <3>2. Effect(G, b[n]) \subseteq G \cup Facts
      BY <3>1, EffectOrigin, AddsType DEF StepCalls
    <3> QED  BY <1>1, <3>1, <3>2 DEF Mined
  <2> HIDE DEF Q
  <2>5. \A n \in 0..Len(b) : after[n] \in Q
    BY <2>1, <2>2, <2>3, <2>4, AlongQueue
  <2>6. chain' \in Q
    BY <1>4, <2>1, <2>2, <2>3, <2>5, AllMinedDef
  <2> QED  BY <2>6 DEF Q
<1> QED  BY <1>2, <1>3, <1>4, ChainSteps DEF IInv, TypeOK, f

LEMMA ThisBlock ==
  ASSUME SceneOK, PlaceOK, AtStep
  PROVE  /\ running \in ToSet(Orders[scene.name]) /\ running.blocks \in Seq(ScriptBlocks)
         /\ pc[2] \in 1..Len(running.blocks) /\ Block \in ToSet(running.blocks)
         /\ Block.steps \in Seq(ScriptSteps)
         /\ pc[3] \in 1..Len(Block.steps) /\ pc[3] \in DOMAIN Block.steps
<1>1. running \in ToSet(Orders[scene.name]) /\ running \in Scripts
  BY OrdersAssumption DEF PlaceOK, SceneOK, AtStep, ToSet
<1>2. running.blocks \in Seq(ScriptBlocks)
  BY <1>1 DEF Scripts
<1>3. pc[2] \in Nat /\ pc[2] >= 1 /\ pc[2] <= Len(running.blocks)
  BY AtTheStep DEF PlaceOK, AtStep
<1>4. pc[2] \in DOMAIN running.blocks /\ pc[2] \in 1..Len(running.blocks)
  BY <1>2, <1>3
<1>5. Block \in ScriptBlocks /\ Block \in ToSet(running.blocks)
  BY <1>2, <1>4 DEF ToSet, Block
<1>6. Block.steps \in Seq(ScriptSteps)
  BY <1>5 DEF ScriptBlocks
<1>7. pc[3] \in DOMAIN Block.steps
  BY AtTheStep
<1> QED  BY <1>1, <1>2, <1>4, <1>5, <1>6, <1>7

\* What is proposed to the Safe was complete.
LEMMA ProposalsFeed ==
  ASSUME IInv, FeedsOK, [ToolNext]_toolVars, NEW b \in proposals'
  PROVE  FedIn(b)
<1>1. CASE b \in proposals
  BY <1>1 DEF FeedsOK
<1>2. CASE AtFinish /\ b = batch
  <2>1. ~AtStep
    BY <1>2 DEF AtFinish, AtStep, IInv, TypeOK, PlaceOK
  <2> QED  BY <1>2, <2>1 DEF FeedsOK, FedIn, Refeeds
<1>3. CASE tool.name = "revoke" /\ b = SetToSeq(tool.todo)
  <2>1. SetToSeq(tool.todo) \in Seq(Retractions(scene.name))
    BY <1>3, BatchOf DEF IInv, TypeOK, ToolOK
  <2>2. \A n \in 1..Len(b) : Unfed(b[n]) = {}
    BY <1>3, <2>1 DEF Retractions, PricesNothing
  <2> QED  BY <2>2 DEF FedIn
<1> QED  BY <1>1, <1>2, <1>3, ProposalSteps

\* The run sets the feed again that it has just unset.
LEMMA BatchFed ==
  ASSUME IInv, FeedsOK, [ToolNext]_toolVars,
         NEW n \in 1..Len(batch'), NEW k \in Unfed(batch'[n])
  PROVE  Refeeds(k)' \/ \E m \in (n + 1)..Len(batch') : Feeds(batch'[m], k)
<1>0. /\ SceneOK /\ PlaceOK /\ scene' = scene /\ batch \in Seq(Batchable(scene.name))
      /\ Len(batch) \in Nat
  BY SceneStays DEF IInv, TypeOK, CallsOK
<1>1. ASSUME n \in 1..Len(batch), batch'[n] = batch[n]
      PROVE  \/ \E m \in (n + 1)..Len(batch) : Feeds(batch[m], k)
             \/ Refeeds(k) /\ UseSafe /\ ~Allowed(chain, Deployer, Here.tx)
  <2>1. Refeeds(k) \/ \E m \in (n + 1)..Len(batch) : Feeds(batch[m], k)
    BY <1>1 DEF FeedsOK
  <2>2. UseSafe
    BY <1>0, <1>1 DEF FeedsOK
  <2>3. batch[n] \in StepCalls(scene.name)
    BY <1>0, <1>1 DEF Batchable, Sendable
  <2>4. <<k[1], OracleManager, Deployer>> \notin chain
    BY <1>1, <2>3 DEF StepCalls, KeepsFeeds, FeedsOK
  <2>5. Refeeds(k) => ~Allowed(chain, Deployer, Here.tx)
    <3> DEFINE r == <<k[1], OracleManager>>
    <3>1. r[1] = k[1] /\ r[2] = OracleManager
      OBVIOUS
    <3>2. Refeeds(k) => r \in Here.tx.need
      BY DEF Refeeds, SetByGovernance
    <3> HIDE DEF r
    <3> QED  BY <2>4, <3>1, <3>2 DEF Allowed
  <2> QED  BY <2>1, <2>2, <2>5
<1>2. CASE Stays
  <2>1. batch' = batch /\ (Refeeds(k) => Refeeds(k)')
    BY <1>2 DEF Stays, Refeeds, AtStep, Idle, Block, Here, SetByGovernance
  <2> QED  BY <1>1, <2>1
<1>3. CASE Skips
  <2>1. batch' = batch /\ AtStep /\ (Block.kind # "plain" \/ Here.op \in {"confirm", "leave"})
    BY <1>3 DEF Skips
  <2>2. ~Refeeds(k)
    BY <2>1 DEF Refeeds, SetByGovernance
  <2> QED  BY <1>1, <2>1, <2>2
<1>4. CASE Stops \/ Starts
  <2>1. batch' = <<>>
    BY <1>4 DEF Stops, Starts
  <2> QED  BY <2>1
<1>5. CASE Passes
  <2>1. AtStep /\ pc' = NextStep /\ running' = running
    BY <1>5 DEF Passes
  <2>2. batch' = batch \/ (batch' = Append(batch, Here.tx) /\ Here.op \in {"queue", "queueWait"})
    BY <1>5 DEF Passes
  <2>3. ASSUME n \in 1..Len(batch), batch'[n] = batch[n]
        PROVE  \E m \in (n + 1)..Len(batch') : Feeds(batch'[m], k)
    <3>1. CASE \E m \in (n + 1)..Len(batch) : Feeds(batch[m], k)
      <4>1. \A m \in (n + 1)..Len(batch) : m \in (n + 1)..Len(batch') /\ batch'[m] = batch[m]
        <5>1. CASE batch' = batch
          BY <5>1
        <5>2. CASE batch' = Append(batch, Here.tx)
          BY <1>0, <2>3, <5>2
        <5> QED  BY <2>2, <5>1, <5>2
      <4> QED  BY <3>1, <4>1
    <3>2. CASE Refeeds(k) /\ UseSafe /\ ~Allowed(chain, Deployer, Here.tx)
      <4>1. Here.op \in {"queue", "queueWait"} /\ Here.when = {} /\ Here.unless = {} /\ Feeds(Here.tx, k)
        BY <3>2 DEF Refeeds, SetByGovernance
      <4>2. Applies
        BY <4>1 DEF Applies
      <4>3. batch' = Append(batch, Here.tx)
        <5>1. batch' = IF Here.op \in {"queue", "queueWait"} /\ UseSafe THEN Append(batch, Here.tx) ELSE batch
          BY <1>5, <3>2, <4>1, <4>2 DEF Passes
        <5> QED  BY <3>2, <4>1, <5>1
      <4>4. Len(batch') \in (n + 1)..Len(batch') /\ batch'[Len(batch')] = Here.tx
        BY <1>0, <2>3, <4>3
      <4> QED  BY <4>1, <4>4
    <3> QED  BY <1>1, <2>3, <3>1, <3>2
  <2>4. ASSUME ~(n \in 1..Len(batch) /\ batch'[n] = batch[n]) PROVE Refeeds(k)'
    <3>1. batch'[n] = Here.tx
      BY <1>0, <2>2, <2>4
    <3>2. FeedsNext(Block) /\ pc[3] \in DOMAIN Block.steps /\ Block.steps \in Seq(ScriptSteps)
      BY <1>0, <2>1, ThisBlock, PricesAssumption DEF SceneOK
    <3> DEFINE j == pc[3]
               next == Block.steps[j + 1]
    <3>3. /\ Block.kind = "plain" /\ j + 1 \in DOMAIN Block.steps
          /\ SetByGovernance(next, k) /\ next.when = {} /\ next.unless = {} /\ Feeds(next.tx, k)
      BY <3>1, <3>2 DEF FeedsNext, Here
    <3>4. pc[1] \in Nat /\ pc[2] \in Nat /\ pc[3] \in Nat /\ j + 1 <= Len(Block.steps) /\ Len(Block.steps) \in Nat
      BY <1>0, <2>1, <3>2, <3>3, AtTheStep
    <3>5. pc' = <<pc[1], pc[2], pc[3] + 1>>
      BY <2>1, <3>4 DEF NextStep
    <3>6. pc'[1] = pc[1] /\ pc'[2] = pc[2] /\ pc'[3] = j + 1
      BY <3>5
    <3>7. Block' = Block /\ AtStep' /\ Here' = next
      BY <2>1, <3>6 DEF Block, AtStep, Idle, Here
    <3> QED  BY <3>3, <3>7 DEF Refeeds, SetByGovernance
  <2> QED  BY <2>3, <2>4
<1> QED  BY <1>0, <1>2, <1>3, <1>4, <1>5, Moves

LEMMA FeedsKept ==
  ASSUME IInv, FeedsOK, [ToolNext]_toolVars
  PROVE  FeedsOK'
<1>0. scene' = scene /\ PlaceOK
  BY SceneStays DEF IInv, TypeOK
<1>1. batch' # <<>> => UseSafe'
  <2>1. UseSafe' = UseSafe
    BY <1>0 DEF UseSafe
  <2>2. CASE Stays \/ Skips \/ Stops \/ Starts
    BY <2>1, <2>2 DEF Stays, Skips, Stops, Starts, FeedsOK
  <2>3. CASE Passes
    <3>1. batch' = batch \/ UseSafe
      BY <2>3 DEF Passes
    <3> QED  BY <2>1, <3>1 DEF FeedsOK
  <2> QED  BY <1>0, <2>2, <2>3, Moves
<1> QED  BY <1>0, <1>1, FeedRightsKept, ProposalsFeed, BatchFed DEF FeedsOK
-----------------------------------------------------------------------------
(* Calls that have what they rely on *)

Ready(F, tx)    == ReliesOn(tx) \subseteq F
Supplied(F, tx) ==
  /\ \A f \in Adds(tx) : Points(f) => HasFeed(F, <<f[3], f[2]>>)
  /\ \A i \in ToSet(Instances) : HasAdapter(i) \notin Adds(tx)
Priced(F)   == \A f \in F : Points(f) => HasFeed(F, <<f[3], f[2]>>)
Equipped(F) == \A i \in ToSet(Instances) : HasAdapter(i) \in F => Supported(i) \in F

LEMMA ReliesOnNothing ==
  ASSUME NEW tx, ReliesOn(tx) = {}, NEW F
  PROVE  Ready(F, tx) /\ Supplied(F, tx)
<1>1. ASSUME NEW f \in Adds(tx) PROVE ~Points(f)
  BY <1>1 DEF ReliesOn
<1>2. ASSUME NEW i \in ToSet(Instances) PROVE HasAdapter(i) \notin Adds(tx)
  BY <1>2 DEF ReliesOn
<1> QED  BY <1>1, <1>2 DEF Ready, Supplied

\* A fact of a feed is a feed.
LEMMA FactIsFeed ==
  ASSUME NEW F, NEW w, NEW a, <<w, a, "feed">> \in F
  PROVE  HasFeed(F, <<w, a>>)
<1> DEFINE k == <<w, a>>
<1>1. "feed" \in FeedValues
  BY Zenon DEF FeedValues
<1>2. k[1] = w /\ k[2] = a
  OBVIOUS
<1> HIDE DEF k
<1>3. \E v \in FeedValues : <<k[1], k[2], v>> \in F
  BY <1>1, <1>2
<1> QED  BY <1>3 DEF HasFeed, k

LEMMA ReadyHasFeed ==
  ASSUME NEW F, NEW tx, Ready(F, tx), NEW f \in Adds(tx), Points(f)
  PROVE  HasFeed(F, <<f[3], f[2]>>)
<1>1. <<f[3], f[2], "feed">> \in F
  BY DEF Ready, ReliesOn
<1> QED  BY <1>1, FactIsFeed

\* What a call of the deployer that is ready, or supplied, makes of a chain where
\* everything is priced and equipped.
LEMMA ReadyPrices ==
  ASSUME NEW F, NEW tx, Ready(F, tx) \/ Supplied(F, tx), KeepsAssets(tx), Priced(F), Equipped(F),
         \A w \in FeedWrappers : \A a : a # Owner /\ HasFeed(F, <<w, a>>) => HasFeed(Effect(F, tx), <<w, a>>)
  PROVE  Priced(Effect(F, tx)) /\ Equipped(Effect(F, tx))
<1> DEFINE G == Effect(F, tx)
<1>1. ASSUME NEW f \in G, Points(f) PROVE HasFeed(G, <<f[3], f[2]>>)
  <2>1. HasFeed(F, <<f[3], f[2]>>)
    <3>1. CASE f \in F
      BY <1>1, <3>1 DEF Priced
    <3>2. CASE f \in Adds(tx)
      BY <1>1, <3>2, ReadyHasFeed DEF Supplied
    <3> QED  BY <3>1, <3>2, EffectOrigin
  <2>2. f[3] \in FeedWrappers /\ f[2] # Owner
    BY <1>1 DEF Points
  <2> QED  BY <2>1, <2>2
<1>2. ASSUME NEW i \in ToSet(Instances), HasAdapter(i) \in G PROVE Supported(i) \in G
  <2>1. CASE HasAdapter(i) \in F
    <3>1. Supported(i) \in F /\ ~Removes(tx, Supported(i))
      BY <2>1 DEF Equipped, KeepsAssets
    <3> QED  BY <3>1, EffectKeeps, EffectAdds DEF Removes
  <2>2. CASE HasAdapter(i) \in Adds(tx)
    <3>1. RouterRole(i) \in F
      <4>1. Ready(F, tx)
        BY <2>2 DEF Supplied
      <4>2. RouterRole(i) \in ReliesOn(tx)
        BY <2>2 DEF ReliesOn
      <4> QED  BY <4>1, <4>2 DEF Ready
    <3>2. PICK t \in tx.tries : t.has \subseteq {RouterRole(i)} /\ Supported(i) \in t.add
      BY <2>2 DEF KeepsAssets
    <3> QED  BY <3>1, <3>2 DEF Effect
  <2> QED  BY <1>2, <2>1, <2>2, EffectOrigin
<1> HIDE DEF G
<1> QED  BY <1>1, <1>2 DEF Priced, Equipped, G

\* A batch of supplied calls points to nothing new that has no feed.
LEMMA BatchPrices ==
  ASSUME NEW s, NEW F, NEW b \in Seq(Batchable(s)), \A n \in 1..Len(b) : Supplied(F, b[n]),
         Priced(F), Equipped(F),
         \A w \in FeedWrappers : \A a :
           a # Owner /\ HasFeed(F, <<w, a>>) => HasFeed(AllMined(F, Gov, b), <<w, a>>)
  PROVE  Priced(AllMined(F, Gov, b)) /\ Equipped(AllMined(F, Gov, b))
<1> DEFINE H == AllMined(F, Gov, b)
           Fed(G) == \A f \in G : Points(f) => HasFeed(F, <<f[3], f[2]>>)
           Same(G) == \A i \in ToSet(Instances) :
                        /\ HasAdapter(i) \in G => HasAdapter(i) \in F
                        /\ Supported(i) \in F => Supported(i) \in G
<1>1. PICK after : IsMining(F, Gov, b, after)
  BY MiningExists
<1>2. Len(b) \in Nat /\ after[0] = F /\ H = after[Len(b)]
  <2>1. H = after[Len(b)]
    BY <1>1, AllMinedDef
  <2>2. after[0] = F
    BY <1>1 DEF IsMining
  <2> QED  BY <2>1, <2>2
<1>3. Fed(F) /\ Same(F)
  BY DEF Priced
<1>4. ASSUME NEW n \in 1..Len(b), NEW G, Fed(G), Same(G) PROVE Fed(Mined(G, Gov, b[n])) /\ Same(Mined(G, Gov, b[n]))
  <2>1. KeepsAssets(b[n]) /\ Supplied(F, b[n])
    BY DEF Batchable, Sendable, StepCalls
  <2>2. Fed(Effect(G, b[n]))
    BY <1>4, <2>1, EffectOrigin DEF Supplied
  <2>3. Same(Effect(G, b[n]))
    <3> SUFFICES ASSUME NEW i \in ToSet(Instances)
                 PROVE  /\ HasAdapter(i) \in Effect(G, b[n]) => HasAdapter(i) \in F
                        /\ Supported(i) \in F => Supported(i) \in Effect(G, b[n])
      OBVIOUS
    <3>1. HasAdapter(i) \notin Adds(b[n]) /\ ~Removes(b[n], Supported(i))
      BY <2>1 DEF Supplied, KeepsAssets
    <3> QED  BY <1>4, <3>1, EffectOrigin, EffectKeeps, EffectAdds DEF Removes
  <2> QED  BY <1>4, <2>2, <2>3 DEF Mined
<1> HIDE DEF Fed, Same, H
<1> DEFINE Bad == {n \in 0..Len(b) : ~(Fed(after[n]) /\ Same(after[n]))}
<1>5. Bad = {}
  <2> SUFFICES ASSUME Bad # {} PROVE FALSE
    OBVIOUS
  <2>0. Bad \subseteq Nat
    OBVIOUS
  <2> HIDE DEF Bad
  <2>1. PICK n \in Bad : \A j \in Bad : n <= j
    BY <2>0, LeastOf
  <2> USE DEF Bad
  <2>2. n # 0
    BY <1>2, <1>3, <2>1
  <2>3. n \in 1..Len(b) /\ n - 1 \in 0..Len(b) /\ ~(n <= n - 1)
    BY <1>2, <2>1, <2>2
  <2>4. Fed(after[n - 1]) /\ Same(after[n - 1])
    BY <2>1, <2>3
  <2>5. after[n] = Mined(after[n - 1], Gov, b[n])
    BY <1>1, <2>3 DEF IsMining
  <2>6. Fed(after[n]) /\ Same(after[n])
    BY <1>4, <2>3, <2>4, <2>5
  <2> QED  BY <2>1, <2>6
<1>6. Fed(H) /\ Same(H)
  BY <1>2, <1>5
<1>7. Priced(H)
  <2> SUFFICES ASSUME NEW f \in H, Points(f) PROVE HasFeed(H, <<f[3], f[2]>>)
    BY DEF Priced
  <2>1. HasFeed(F, <<f[3], f[2]>>) /\ f[3] \in FeedWrappers /\ f[2] # Owner
    BY <1>6 DEF Fed, Points
  <2> QED  BY <2>1 DEF H
<1>8. Equipped(H)
  BY <1>6 DEF Same, Equipped
<1> QED  BY <1>7, <1>8 DEF H

\* Whose calls the chain sees.
LEMMA ChainCalls ==
  ASSUME IInv, [ToolNext]_toolVars
  PROVE  \/ chain' = chain
         \/ \E tx \in StepCalls(scene.name) :
              /\ chain' = Effect(chain, tx)
              /\ \/ mempool # <<>> /\ tx = mempool[1] /\ 1 \in 1..Len(mempool)
                 \/ AtStep /\ tx = Here.tx /\ mempool = <<>>
                 \/ ReliesOn(tx) = {}
         \/ \E b \in proposals : chain' = AllMined(chain, Gov, b)
<1>0. SceneOK /\ PlaceOK /\ CallsOK /\ ToolOK
  BY DEF IInv, TypeOK
<1>1. CASE Mine
  <2>1. /\ mempool # <<>> /\ Head(mempool) = mempool[1] /\ mempool[1] \in StepCalls(scene.name)
        /\ 1 \in 1..Len(mempool)
    BY <1>0, <1>1, FirstInQueue DEF Mine, Sendable
  <2>2. chain' = chain \/ chain' = Effect(chain, mempool[1])
    BY <1>1, <2>1 DEF Mine, Mined
  <2> QED  BY <2>1, <2>2
<1>2. CASE WaitStep
  <2>1. AtStep /\ (chain' = chain \/ (mempool = <<>> /\ chain' = Effect(chain, Here.tx)))
    BY <1>2 DEF WaitStep
  <2>2. Here.tx \in StepCalls(scene.name)
    BY <1>0, <2>1, AtTheStep
  <2> QED  BY <2>1, <2>2
<1>3. CASE CallDirectly
  <2>1. PICK tx \in tool.todo : chain' = Mined(chain, Deployer, tx)
    BY <1>3 DEF CallDirectly
  <2>2. tx \in Gifts(scene.name)
    BY <1>0, <1>3, <2>1 DEF ToolOK, CallDirectly
  <2>3. tx \in StepCalls(scene.name) /\ ReliesOn(tx) = {}
    BY <2>2 DEF Gifts, Sendable, PricesNothing
  <2> QED  BY <2>1, <2>3 DEF Mined
<1>4. CASE \E b \in proposals : SafeExecute(b)
  BY <1>4 DEF SafeExecute
<1>5. CASE \E b \in proposals : SafeReject(b)
  BY <1>5 DEF SafeReject
<1>6. CASE Start \/ PassOver \/ ReadStep \/ SendStep \/ Finish \/ Kill
           \/ \E sent \in BOOLEAN : CallFault(sent)
  BY <1>6 DEF Start, PassOver, ReadStep, SendStep, Finish, Kill, CallFault
<1>7. CASE ToolStep /\ ~CallDirectly
  BY <1>7 DEF ToolStep, Scan, PrepareBatch, ToolFault, KillTool
<1>8. CASE UNCHANGED toolVars
  BY <1>8 DEF toolVars, vars
<1> QED  BY <1>1, <1>2, <1>3, <1>4, <1>5, <1>6, <1>7, <1>8 DEF ToolNext, Next, Progress, ToolStep
-----------------------------------------------------------------------------
(* Where batches are executed in any order                                 *)

\* A feed that a step behind the run has read is there.
ReadBehind(j) ==
  \A w \in FeedWrappers : \A a :
    a # Owner /\ Reads(Block.steps[j], <<w, a, "feed">>) => HasFeed(chain, <<w, a>>)
ReadsOK ==
  ReadsBefore(scene.name) =>
    /\ \A n \in 1..Len(mempool) : Supplied(chain, mempool[n])
    /\ \A n \in 1..Len(batch) : Supplied(chain, batch[n])
    /\ \A b \in proposals : \A n \in 1..Len(b) : Supplied(chain, b[n])
    /\ AtStep => \A j \in 1..(pc[3] - 1) : ReadBehind(j)

LEMMA SuppliedStays ==
  ASSUME IInv, FeedsOK, [ToolNext]_toolVars, NEW tx, Supplied(chain, tx)
  PROVE  Supplied(chain', tx)
<1>1. ASSUME NEW f \in Adds(tx), Points(f) PROVE HasFeed(chain', <<f[3], f[2]>>)
  <2>1. HasFeed(chain, <<f[3], f[2]>>) /\ f[3] \in FeedWrappers /\ f[2] # Owner
    BY <1>1 DEF Supplied, Points
  <2> QED  BY <2>1, FeedStays
<1> QED  BY <1>1 DEF Supplied

\* What a step relies on was read behind the run.
LEMMA HereIsSupplied ==
  ASSUME IInv, ReadsOK, ReadsBefore(scene.name), AtStep
  PROVE  Supplied(chain, Here.tx)
<1>1. /\ SceneOK /\ PlaceOK
  BY DEF IInv, TypeOK
<1>2. ReadsFirst(Block.steps) /\ pc[3] \in DOMAIN Block.steps
  BY <1>1, ThisBlock DEF ReadsBefore
<1>3. \A i \in ToSet(Instances) : HasAdapter(i) \notin Adds(Here.tx)
  BY <1>2 DEF ReadsFirst, Here
<1>4. ASSUME NEW f \in Adds(Here.tx), Points(f) PROVE HasFeed(chain, <<f[3], f[2]>>)
  <2>1. <<f[3], f[2], "feed">> \in ReliesOn(Here.tx)
    BY <1>4 DEF ReliesOn
  <2>2. PICK j \in 1..(pc[3] - 1) : Reads(Block.steps[j], <<f[3], f[2], "feed">>)
    BY <1>2, <2>1 DEF ReadsFirst, Here
  <2>3. ReadBehind(j) /\ f[3] \in FeedWrappers /\ f[2] # Owner
    BY <1>4 DEF ReadsOK, Points
  <2> QED  BY <2>2, <2>3 DEF ReadBehind
<1> QED  BY <1>3, <1>4 DEF Supplied

LEMMA ReadsKept ==
  ASSUME IInv, FeedsOK, ReadsOK, [ToolNext]_toolVars
  PROVE  ReadsOK'
<1> SUFFICES ASSUME ReadsBefore(scene.name)
             PROVE  /\ \A n \in 1..Len(mempool') : Supplied(chain', mempool'[n])
                    /\ \A n \in 1..Len(batch') : Supplied(chain', batch'[n])
                    /\ \A b \in proposals' : \A n \in 1..Len(b) : Supplied(chain', b[n])
                    /\ AtStep' => \A j \in 1..(pc'[3] - 1) : ReadBehind(j)'
  BY SceneStays DEF ReadsOK
<1>0. /\ SceneOK /\ PlaceOK /\ ToolOK /\ HandoverOK
      /\ mempool \in Seq(Sendable(scene.name)) /\ batch \in Seq(Batchable(scene.name))
  BY DEF IInv, TypeOK, CallsOK
<1>1. /\ \A n \in 1..Len(mempool) : Supplied(chain', mempool[n])
      /\ \A n \in 1..Len(batch) : Supplied(chain', batch[n])
      /\ \A b \in proposals : \A n \in 1..Len(b) : Supplied(chain', b[n])
      /\ AtStep => Supplied(chain', Here.tx)
  BY SuppliedStays, HereIsSupplied DEF ReadsOK
<1>2. ASSUME NEW n \in 1..Len(mempool') PROVE Supplied(chain', mempool'[n])
  <2>1. CASE mempool' = mempool
    BY <1>1, <2>1
  <2>2. CASE MinesFirst
    <3>1. mempool'[n] = mempool[n + 1] /\ n + 1 \in 1..Len(mempool)
      BY <1>0, <2>2 DEF MinesFirst
    <3> QED  BY <1>1, <3>1
  <2>3. ASSUME NEW tx, SendsOne(tx) PROVE Supplied(chain', mempool'[n])
    <3>1. Supplied(chain', tx)
      BY <1>1, <2>3, ReliesOnNothing DEF SendsOne, PricesNothing
    <3>2. mempool'[n] = tx \/ (n \in 1..Len(mempool) /\ mempool'[n] = mempool[n])
      BY <1>0, <2>3 DEF SendsOne
    <3> QED  BY <1>1, <3>1, <3>2
  <2> QED  BY <1>0, <2>1, <2>2, <2>3, QueueSteps
<1>3. ASSUME NEW n \in 1..Len(batch') PROVE Supplied(chain', batch'[n])
  <2>1. CASE Stays \/ Skips
    BY <1>1, <2>1 DEF Stays, Skips
  <2>2. CASE Stops \/ Starts
    <3>1. batch' = <<>>
      BY <2>2 DEF Stops, Starts
    <3> QED  BY <3>1
  <2>3. CASE Passes
    <3>1. AtStep /\ (batch' = batch \/ batch' = Append(batch, Here.tx))
      BY <2>3 DEF Passes
    <3>2. batch'[n] = Here.tx \/ (n \in 1..Len(batch) /\ batch'[n] = batch[n])
      BY <1>0, <3>1
    <3> QED  BY <1>1, <3>1, <3>2
  <2> QED  BY <1>0, <2>1, <2>2, <2>3, Moves
<1>4. ASSUME NEW b \in proposals', NEW n \in 1..Len(b) PROVE Supplied(chain', b[n])
  <2>1. CASE b \in proposals \/ b = batch
    BY <1>1, <2>1
  <2>2. CASE tool.name = "revoke" /\ b = SetToSeq(tool.todo)
    <3>1. SetToSeq(tool.todo) \in Seq(Retractions(scene.name))
      BY <1>0, <2>2, BatchOf DEF ToolOK
    <3>2. ReliesOn(b[n]) = {}
      BY <2>2, <3>1 DEF Retractions, PricesNothing
    <3> QED  BY <3>2, ReliesOnNothing
  <2> QED  BY <2>1, <2>2, ProposalSteps
<1>5. ASSUME AtStep', NEW j \in 1..(pc'[3] - 1) PROVE ReadBehind(j)'
  <2> SUFFICES ASSUME NEW w \in FeedWrappers, NEW a, a # Owner, Reads(Block'.steps[j], <<w, a, "feed">>)
               PROVE  HasFeed(chain', <<w, a>>)
    BY DEF ReadBehind
  <2>1. Block' = Block /\ (Stays \/ (Passes /\ pc'[3] = pc[3] + 1)) /\ pc[3] \in Nat
    BY <1>0, Behind DEF PlaceOK
  <2>2. AtStep
    BY <1>5, <2>1 DEF Stays, Passes, AtStep, Idle
  <2>3. CASE j \in 1..(pc[3] - 1)
    <3>1. HasFeed(chain, <<w, a>>)
      BY <2>1, <2>2, <2>3 DEF ReadsOK, ReadBehind
    <3> QED  BY <3>1, FeedStays
  <2>4. CASE j \notin 1..(pc[3] - 1)
    <3> DEFINE g == <<w, a, "feed">>
    <3>1. Passes /\ j = pc[3]
      BY <2>1, <2>4 DEF Stays
    <3> HIDE DEF g
    <3>2. Reads(Here, g)
      BY <2>1, <3>1 DEF Here, g
    <3>3. g \in chain
      BY <3>1, <3>2 DEF Reads, Passes, Applies
    <3>4. HasFeed(chain, <<w, a>>)
      BY <3>3, FactIsFeed DEF g
    <3> QED  BY <3>4, FeedStays
  <2> QED  BY <2>3, <2>4
<1> QED  BY <1>2, <1>3, <1>4, <1>5
-----------------------------------------------------------------------------
(* Where everything is mined in the order in which it was sent             *)

\* A fact is there, or one of the first n calls of the queue adds it, which none
\* before that call waits for.
Due(s, F, q, n, g) ==
  \/ g \in F
  \/ \E m \in 1..n : /\ Adding(q[m], g) /\ Allowed(F, Deployer, q[m])
                     /\ \A l \in 1..(m - 1) : ~WaitsFor(s, q[l], g)

LEMMA DueLater ==
  ASSUME NEW s, NEW F, NEW T, NEW q \in Seq(T), NEW n \in 0..Len(q), NEW g, Due(s, F, q, n, g)
  PROVE  /\ \A k \in n..Len(q) : Due(s, F, q, k, g)
         /\ \A tx \in T : \A k \in n..(Len(q) + 1) : Due(s, F, Append(q, tx), k, g)
<1>1. CASE g \in F
  BY <1>1 DEF Due
<1>2. CASE \E m \in 1..n : /\ Adding(q[m], g) /\ Allowed(F, Deployer, q[m])
                           /\ \A l \in 1..(m - 1) : ~WaitsFor(s, q[l], g)
  <2>1. PICK m \in 1..n : /\ Adding(q[m], g) /\ Allowed(F, Deployer, q[m])
                          /\ \A l \in 1..(m - 1) : ~WaitsFor(s, q[l], g)
    BY <1>2
  <2>2. \A k \in n..Len(q) : Due(s, F, q, k, g)
    BY <2>1 DEF Due
  <2>3. ASSUME NEW tx \in T, NEW k \in n..(Len(q) + 1) PROVE Due(s, F, Append(q, tx), k, g)
    <3> DEFINE p == Append(q, tx)
    <3>1. m \in 1..k /\ p[m] = q[m] /\ \A l \in 1..(m - 1) : p[l] = q[l]
      OBVIOUS
    <3> HIDE DEF p
    <3>2. Due(s, F, p, k, g)
      BY <2>1, <3>1 DEF Due
    <3> QED  BY <3>2 DEF p
  <2> QED  BY <2>2, <2>3
<1> QED  BY <1>1, <1>2 DEF Due

\* When the first call is mined, what is due in front of a call stays so.
LEMMA DueWhenMined ==
  ASSUME NEW s \in DOMAIN Scenes, NEW F, NEW q \in Seq(CallsIn[s]), q # <<>>, NEW n \in 1..Len(q),
         NEW g \in ReliedOn[s], Firm(CallsIn[s], g), Due(s, F, q, n, g)
  PROVE  Due(s, Mined(F, Deployer, Head(q)), Tail(q), n - 1, g)
<1> DEFINE tx == Head(q)
           G  == Mined(F, Deployer, tx)
           p  == Tail(q)
<1>1. /\ tx = q[1] /\ tx \in CallsIn[s] /\ ~Removes(tx, g) /\ Len(q) \in Nat
      /\ \A m \in 2..Len(q) : p[m - 1] = q[m]
  BY DEF Firm
<1> HIDE DEF tx, p
<1>2. g \in F => Due(s, G, p, n - 1, g)
  BY <1>1, FirmStays DEF Due
<1>3. ASSUME Adding(q[1], g), Allowed(F, Deployer, q[1]) PROVE Due(s, G, p, n - 1, g)
  <2>1. g \in G
    BY <1>1, <1>3, EffectAdds DEF Adding, Mined
  <2> QED  BY <2>1 DEF Due
<1>4. ASSUME NEW m \in 2..n, Adding(q[m], g), Allowed(F, Deployer, q[m]),
             \A l \in 1..(m - 1) : ~WaitsFor(s, q[l], g)
      PROVE  Due(s, G, p, n - 1, g)
  <2> DEFINE t == q[m]
  <2>1. t \in CallsIn[s] /\ ~WaitsFor(s, tx, g) /\ p[m - 1] = t /\ m - 1 \in 1..(n - 1)
    BY <1>1, <1>4
  <2>2. t.has = {} /\ t.unset = {} /\ Adding(t, g) /\ Allowed(F, Deployer, t)
    BY <1>4 DEF Adding
  <2> HIDE DEF t, G
  <2>3. \A k \in t.need : <<k[1], k[2], Deployer>> \in G
    <3> SUFFICES ASSUME NEW k \in t.need PROVE <<k[1], k[2], Deployer>> \in G
      OBVIOUS
    <3> DEFINE h == <<k[1], k[2], Deployer>>
    <3>1. h \in F
      BY <2>2 DEF Allowed
    <3>2. RightsFor[s][g] = UNION {x.need : x \in {y \in CallsIn[s] : Adding(y, g)}}
      BY DEF RightsFor
    <3>3. k \in RightsFor[s][g]
      BY <2>1, <2>2, <3>2
    <3>4. ~Removes(tx, h)
      BY <2>1, <3>3 DEF WaitsFor
    <3> HIDE DEF h
    <3>5. h \in G
      BY <3>1, <3>4, FirmStays DEF G
    <3> QED  BY <3>5 DEF h
  <2>4. Allowed(G, Deployer, t)
    BY <2>2, <2>3 DEF Allowed
  <2>5. \A l \in 1..((m - 1) - 1) : ~WaitsFor(s, p[l], g)
    <3> SUFFICES ASSUME NEW l \in 1..((m - 1) - 1) PROVE ~WaitsFor(s, p[l], g)
      OBVIOUS
    <3>1. l + 1 \in 1..(m - 1) /\ p[l] = q[l + 1]
      <4>1. l + 1 \in 2..Len(q) /\ l + 1 \in 1..(m - 1) /\ (l + 1) - 1 = l
        BY <1>1
      <4> QED  BY <1>1, <4>1
    <3> QED  BY <1>4, <3>1
  <2> QED  BY <2>1, <2>2, <2>4, <2>5 DEF Due
<1> HIDE DEF G
<1>5. \A m \in 1..n : m = 1 \/ m \in 2..n
  OBVIOUS
<1>6. Due(s, G, p, n - 1, g)
  <2>1. CASE g \in F
    BY <1>2, <2>1
  <2>2. ASSUME NEW m \in 1..n, Adding(q[m], g), Allowed(F, Deployer, q[m]),
               \A l \in 1..(m - 1) : ~WaitsFor(s, q[l], g)
        PROVE  Due(s, G, p, n - 1, g)
    BY <1>3, <1>4, <1>5, <2>2
  <2> QED  BY <2>1, <2>2 DEF Due
<1> QED  BY <1>6 DEF G, tx, p

LEMMA NothingQueued ==
  ASSUME NEW s, NEW F, NEW q, q = <<>>, NEW g, Due(s, F, q, Len(q), g)
  PROVE  g \in F
<1>1. Len(q) = 0
  OBVIOUS
<1>2. ~ \E m \in 1..0 : TRUE
  OBVIOUS
<1> QED  BY <1>1, <1>2 DEF Due

\* What is there, or on its way, of what the scene relies on.
OnTheWay(g) == Due(scene.name, chain, mempool, Len(mempool), g)
\* A script has no steps left.
Over == (AtStep /\ Here.op = "return" /\ Applies) \/ AtFinish

QueuedInOrder ==
  /\ mempool \in Seq(CallsIn[scene.name]) /\ batch = <<>> /\ proposals = {}
  /\ \A n \in 1..Len(mempool) : \A g \in ReliedOn[scene.name] :
       WaitsFor(scene.name, mempool[n], g) => Due(scene.name, chain, mempool, n - 1, g)
  /\ \A g \in ReliedOn[scene.name] : \A u \in chain :
       Accompanied(scene.name, CallsIn[scene.name], u, g) => g \in chain
StepsProvided ==
  AtStep => \A g \in ReliedOn[scene.name] : \A j \in 1..(pc[3] - 1) :
    Provides(scene.name, Block.steps[j], g) => OnTheWay(g)
BlocksProvided ==
  ~Idle => \A g \in ReliedOn[scene.name] : \A b \in 1..(pc[2] - 1) :
    b \in DOMAIN running.blocks /\ BlockProvides(scene.name, running.blocks[b], g) => OnTheWay(g)
ScriptsProvided ==
  \A g \in ReliedOn[scene.name] : \A m \in DOMAIN Orders[scene.name] :
    m < pc[1] \/ Orders[scene.name][m].id \in recorded =>
      (g \in Provided[scene.name][m] => OnTheWay(g))
OrderOK == InOrder(scene.name) => QueuedInOrder /\ StepsProvided /\ BlocksProvided /\ ScriptsProvided

LEMMA OrderedScene ==
  ASSUME SceneOK, InOrder(scene.name)
  PROVE  /\ scene.name \in DOMAIN Scenes /\ scene.tools = {}
         /\ \A g \in ReliedOn[scene.name] : Firm(CallsIn[scene.name], g)
         /\ \A tx \in CallsIn[scene.name] : ReliesOn(tx) \subseteq ReliedOn[scene.name]
<1> DEFINE s == scene.name
<1>1. s \in DOMAIN Scenes /\ scene.tools = Scenes[s].tools
  BY SettingsOf
<1> HIDE DEF s
<1>2. ReliedOn[s] = UNION {ReliesOn(tx) : tx \in CallsIn[s]}
  BY <1>1 DEF ReliedOn
<1> QED  BY <1>1, <1>2 DEF InOrder, s

LEMMA OrderedHere ==
  ASSUME SceneOK, PlaceOK, InOrder(scene.name), AtStep
  PROVE  Here.tx \in CallsIn[scene.name] /\ Here.op \notin {"queue", "queueWait"}
<1>1. Here \in StepsOf(scene.name)
  BY AtTheStep
<1>2. CallsIn[scene.name] = {step.tx : step \in StepsOf(scene.name)}
  BY DEF CallsIn, SceneOK
<1> QED  BY <1>1, <1>2 DEF InOrder

\* Only the deployer's calls change the chain there.
LEMMA OrderedSteps ==
  ASSUME IInv, RunOK, InOrder(scene.name), batch = <<>>, proposals = {}, [ToolNext]_toolVars
  PROVE  /\ batch' = <<>> /\ proposals' = {}
         /\ \/ chain' = chain /\ mempool' = mempool
            \/ MinesFirst
            \/ AtStep /\ chain' = chain /\ mempool' = Append(mempool, Here.tx)
            \/ /\ AtStep /\ mempool = <<>> /\ mempool' = <<>>
               /\ Allowed(chain, Deployer, Here.tx) /\ chain' = Effect(chain, Here.tx)
<1>0. SceneOK /\ PlaceOK
  BY DEF IInv, TypeOK
<1>1. ~ToolStep
  BY <1>0, OrderedScene, NoToolRuns DEF RunOK
<1>2. batch' = <<>>
  <2>1. CASE Stays \/ Skips
    BY <2>1 DEF Stays, Skips
  <2>2. CASE Stops \/ Starts
    BY <2>2 DEF Stops, Starts
  <2>3. CASE Passes
    <3>1. Here.op \notin {"queue", "queueWait"}
      BY <1>0, <2>3, OrderedHere DEF Passes
    <3> QED  BY <2>3, <3>1 DEF Passes
  <2> QED  BY <1>0, <2>1, <2>2, <2>3, Moves
<1>3. CASE Mine
  BY <1>2, <1>3 DEF Mine, MinesFirst
<1>4. CASE SendStep
  BY <1>2, <1>4 DEF SendStep
<1>5. CASE WaitStep
  BY <1>2, <1>5 DEF WaitStep
<1>6. CASE \E sent \in BOOLEAN : CallFault(sent)
  BY <1>2, <1>6 DEF CallFault
<1>7. CASE Finish
  BY <1>2, <1>7 DEF Finish, Proposed
<1>8. CASE Start \/ PassOver \/ ReadStep \/ Kill
  BY <1>2, <1>8 DEF Start, PassOver, ReadStep, Kill
<1>9. CASE UNCHANGED toolVars
  BY <1>2, <1>9 DEF toolVars, vars
<1> QED  BY <1>1, <1>3, <1>4, <1>5, <1>6, <1>7, <1>8, <1>9 DEF ToolNext, Next, Progress

\* What is on its way stays so, or is there.
LEMMA OnTheWayStays ==
  ASSUME IInv, RunOK, InOrder(scene.name), QueuedInOrder, [ToolNext]_toolVars,
         NEW g \in ReliedOn[scene.name], OnTheWay(g)
  PROVE  OnTheWay(g)'
<1> DEFINE s == scene.name
           D(F, q) == Due(s, F, q, Len(q), g)
<1>0. /\ SceneOK /\ PlaceOK /\ scene' = scene /\ batch = <<>> /\ proposals = {}
      /\ mempool \in Seq(CallsIn[s]) /\ D(chain, mempool)
  BY SceneStays DEF IInv, TypeOK, QueuedInOrder, OnTheWay
<1>1. s \in DOMAIN Scenes /\ Firm(CallsIn[s], g)
  BY <1>0, OrderedScene
<1> HIDE DEF s
<1>2. CASE chain' = chain /\ mempool' = mempool
  BY <1>0, <1>2 DEF OnTheWay, s
<1>3. CASE MinesFirst
  <2>1. mempool # <<>> /\ mempool' = Tail(mempool) /\ chain' = Mined(chain, Deployer, Head(mempool))
    BY <1>3 DEF MinesFirst
  <2>2. Len(mempool) \in 1..Len(mempool) /\ Len(Tail(mempool)) = Len(mempool) - 1
    BY <1>0, <2>1
  <2>3. D(chain', mempool')
    BY <1>0, <1>1, <2>1, <2>2, DueWhenMined DEF s
  <2> QED  BY <1>0, <2>3 DEF OnTheWay, s
<1>4. CASE AtStep /\ chain' = chain /\ mempool' = Append(mempool, Here.tx)
  <2>1. Here.tx \in CallsIn[s]
    BY <1>0, <1>4, OrderedHere DEF s
  <2>2. Len(mempool) \in 0..Len(mempool) /\ Len(mempool') \in Len(mempool)..(Len(mempool) + 1)
    BY <1>0, <1>4, <2>1
  <2>3. D(chain', mempool')
    BY <1>0, <1>4, <2>1, <2>2, DueLater
  <2> QED  BY <1>0, <2>3 DEF OnTheWay, s
<1>5. CASE /\ AtStep /\ mempool = <<>> /\ Allowed(chain, Deployer, Here.tx)
           /\ chain' = Effect(chain, Here.tx)
  <2>1. g \in chain
    BY <1>0, <1>5, NothingQueued
  <2>2. Here.tx \in CallsIn[s]
    BY <1>0, <1>5, OrderedHere DEF s
  <2>3. g \in Mined(chain, Deployer, Here.tx)
    BY <1>1, <2>1, <2>2, FirmStays DEF Firm
  <2>4. g \in chain'
    BY <1>5, <2>3 DEF Mined
  <2> QED  BY <2>4 DEF OnTheWay, Due
<1> QED  BY <1>0, <1>2, <1>3, <1>4, <1>5, OrderedSteps

\* What a step relies on, or the right to provide which it takes, is on its way.
LEMMA HereIsProvided ==
  ASSUME IInv, RunOK, InOrder(scene.name), StepsProvided, BlocksProvided, ScriptsProvided,
         AtStep, NEW g \in ReliedOn[scene.name], WaitsFor(scene.name, Here.tx, g)
  PROVE  OnTheWay(g)
<1> DEFINE s == scene.name
           n == pc[1]
           p == <<pc[2], pc[3]>>
<1>1. SceneOK /\ PlaceOK
  BY DEF IInv, TypeOK
<1>2. /\ s \in DOMAIN Scenes /\ n \in DOMAIN Orders[s] /\ running = Orders[s][n] /\ ~Idle
      /\ pc[2] \in Nat /\ pc[3] \in Nat /\ n \in Nat
  BY <1>1 DEF SceneOK, RunOK, AtStep, PlaceOK
<1>3. p \in Places(Orders[s][n]) /\ StepAt(Orders[s][n], p) = Here
  BY <1>1, <1>2, ThisPlace
<1>4. p[1] = pc[2] /\ p[2] = pc[3]
  OBVIOUS
<1> HIDE DEF p, s
<1>5. ProvidedBefore(s, n, p, g)
  <2> HIDE DEF n
  <2> QED  BY <1>2, <1>3 DEF InOrder, s
<1>6. CASE \E j \in 1..(pc[3] - 1) : Provides(s, Block.steps[j], g)
  BY <1>6 DEF StepsProvided, s
<1>7. CASE \E b \in 1..(pc[2] - 1) : BlockProvides(s, running.blocks[b], g)
  <2>1. PICK b \in 1..(pc[2] - 1) : BlockProvides(s, running.blocks[b], g)
    BY <1>7
  <2>2. b \in DOMAIN running.blocks
    <3>1. pc[2] \in 1..Len(running.blocks) /\ running.blocks \in Seq(ScriptBlocks)
      BY <1>1, ThisBlock
    <3> QED  BY <1>2, <3>1
  <2> QED  BY <1>2, <2>1, <2>2 DEF BlocksProvided, s
<1>8. CASE \E m \in 1..(n - 1) : g \in Provided[s][m]
  <2>1. PICK m \in 1..(n - 1) : g \in Provided[s][m]
    BY <1>8
  <2>2. m \in DOMAIN Orders[s] /\ m < pc[1]
    <3>1. Orders[s] \in Seq(Scripts)
      BY <1>2, OrdersAssumption
    <3> QED  BY <1>2, <3>1
  <2> QED  BY <2>1, <2>2 DEF ScriptsProvided, s
<1>9. \/ \E j \in 1..(pc[3] - 1) : Provides(s, Block.steps[j], g)
      \/ \E b \in 1..(pc[2] - 1) : BlockProvides(s, running.blocks[b], g)
      \/ \E m \in 1..(n - 1) : g \in Provided[s][m]
  BY <1>2, <1>4, <1>5 DEF ProvidedBefore, Block
<1> QED  BY <1>6, <1>7, <1>8, <1>9

LEMMA QueuedKept ==
  ASSUME IInv, RunOK, InOrder(scene.name), OrderOK, [ToolNext]_toolVars
  PROVE  QueuedInOrder'
<1> DEFINE s == scene.name
<1>0. /\ SceneOK /\ PlaceOK /\ scene' = scene /\ batch = <<>> /\ proposals = {}
      /\ mempool \in Seq(CallsIn[s]) /\ QueuedInOrder
  BY SceneStays DEF IInv, TypeOK, QueuedInOrder, OrderOK
<1>1. /\ s \in DOMAIN Scenes /\ \A g \in ReliedOn[s] : Firm(CallsIn[s], g)
      /\ AtStep => Here.tx \in CallsIn[s]
  BY <1>0, OrderedScene, OrderedHere
<1>2. batch' = <<>> /\ proposals' = {}
  BY <1>0, OrderedSteps
<1>3. mempool' \in Seq(CallsIn[s])
  <2> DEFINE calls == CallsIn[s]
  <2>0. mempool \in Seq(calls) /\ (AtStep => Here.tx \in calls)
    BY <1>0, <1>1
  <2> HIDE DEF calls
  <2>1. CASE MinesFirst
    <3>1. mempool # <<>> /\ mempool' = Tail(mempool)
      BY <2>1 DEF MinesFirst
    <3>2. mempool' \in Seq(calls)
      BY <2>0, <3>1
    <3> QED  BY <3>2 DEF calls
  <2>2. CASE AtStep /\ mempool' = Append(mempool, Here.tx)
    <3>1. mempool' \in Seq(calls)
      BY <2>0, <2>2
    <3> QED  BY <3>1 DEF calls
  <2>3. CASE mempool' = <<>>
    <3>1. <<>> \in Seq(calls)
      OBVIOUS
    <3> QED  BY <2>3, <3>1 DEF calls
  <2> QED  BY <1>0, <2>1, <2>2, <2>3, OrderedSteps
<1>4. ASSUME NEW n \in 1..Len(mempool'), NEW g \in ReliedOn[s], WaitsFor(s, mempool'[n], g)
      PROVE  Due(s, chain', mempool', n - 1, g)
  <2>0. \A k \in 1..Len(mempool) : WaitsFor(s, mempool[k], g) => Due(s, chain, mempool, k - 1, g)
    BY <1>0 DEF QueuedInOrder
  <2>1. CASE chain' = chain /\ mempool' = mempool
    BY <1>4, <2>0, <2>1
  <2>2. CASE MinesFirst
    <3>1. /\ mempool # <<>> /\ mempool' = Tail(mempool)
          /\ chain' = Mined(chain, Deployer, Head(mempool))
      BY <2>2 DEF MinesFirst
    <3>2. n + 1 \in 1..Len(mempool) /\ mempool'[n] = mempool[n + 1] /\ (n + 1) - 1 = n
          /\ n \in 1..Len(mempool)
      BY <1>0, <3>1
    <3>3. Due(s, chain, mempool, n, g)
      BY <1>4, <2>0, <3>2
    <3> HIDE DEF s
    <3>4. Due(s, chain', mempool', n - 1, g)
      BY <1>0, <1>1, <3>1, <3>2, <3>3, DueWhenMined
    <3> QED  BY <3>4
  <2>3. CASE AtStep /\ chain' = chain /\ mempool' = Append(mempool, Here.tx)
    <3>1. Len(mempool) \in Nat /\ Len(mempool') = Len(mempool) + 1
      BY <1>0, <2>3
    <3>2. CASE n = Len(mempool) + 1
      <4>1. mempool'[n] = Here.tx /\ n - 1 = Len(mempool)
        BY <1>0, <2>3, <3>1, <3>2
      <4>2. OnTheWay(g)
        BY <1>4, <2>3, <4>1, HereIsProvided DEF OrderOK
      <4>3. Due(s, chain, mempool, n - 1, g) /\ n - 1 \in 0..Len(mempool) /\ n - 1 \in (n - 1)..(Len(mempool) + 1)
        BY <3>1, <4>1, <4>2 DEF OnTheWay
      <4> QED  BY <1>0, <1>1, <2>3, <4>3, DueLater
    <3>3. CASE n # Len(mempool) + 1
      <4>1. n \in 1..Len(mempool) /\ mempool'[n] = mempool[n]
        BY <1>0, <2>3, <3>1, <3>3
      <4>2. Due(s, chain, mempool, n - 1, g) /\ n - 1 \in 0..Len(mempool) /\ n - 1 \in (n - 1)..(Len(mempool) + 1)
        BY <1>4, <2>0, <3>1, <4>1
      <4> QED  BY <1>0, <1>1, <2>3, <4>2, DueLater
    <3> QED  BY <3>2, <3>3
  <2>4. CASE mempool' = <<>>
    BY <2>4
  <2> QED  BY <1>0, <2>1, <2>2, <2>3, <2>4, OrderedSteps
<1>5. ASSUME NEW g \in ReliedOn[s], NEW u \in chain', Accompanied(s, CallsIn[s], u, g)
      PROVE  g \in chain'
  <2>0. u \in chain => g \in chain
    BY <1>0, <1>5 DEF QueuedInOrder
  <2>1. CASE chain' = chain
    BY <1>5, <2>0, <2>1
  <2>2. ASSUME NEW tx \in CallsIn[s], chain' = Mined(chain, Deployer, tx) PROVE g \in chain'
    <3> HIDE DEF s
    <3> QED  BY <1>1, <1>5, <2>0, <2>2, AccompaniedStays
  <2>3. CASE MinesFirst
    <3>1. Head(mempool) \in CallsIn[s] /\ chain' = Mined(chain, Deployer, Head(mempool))
      BY <1>0, <2>3 DEF MinesFirst
    <3> QED  BY <2>2, <3>1
  <2>4. CASE AtStep /\ Allowed(chain, Deployer, Here.tx) /\ chain' = Effect(chain, Here.tx)
    <3>1. chain' = Mined(chain, Deployer, Here.tx)
      BY <2>4 DEF Mined
    <3> QED  BY <1>1, <2>2, <2>4, <3>1
  <2> QED  BY <1>0, <2>1, <2>3, <2>4, OrderedSteps
<1> QED  BY <1>0, <1>2, <1>3, <1>4, <1>5 DEF QueuedInOrder

\* The step that the run passes now has provided what it was to.
LEMMA PassedIsProvided ==
  ASSUME IInv, RunOK, InOrder(scene.name), QueuedInOrder, [ToolNext]_toolVars, Passes,
         NEW g \in ReliedOn[scene.name], Provides(scene.name, Here, g)
  PROVE  OnTheWay(g)'
<1> DEFINE s == scene.name
<1>0. /\ SceneOK /\ PlaceOK /\ AtStep /\ scene' = scene /\ mempool \in Seq(CallsIn[s])
  BY SceneStays DEF IInv, TypeOK, QueuedInOrder, Passes
<1>1. g \in chain' => OnTheWay(g)'
  BY DEF OnTheWay, Due
<1>2. CASE ~Applies /\ chain' = chain
  <2>1. PICK u \in chain : u \in Here.unless
    BY <1>2 DEF Applies, Provides
  <2>2. g \in chain
    BY <2>1 DEF QueuedInOrder, Provides
  <2> QED  BY <1>1, <1>2, <2>2
<1>3. CASE Here.op \in {"expect", "confirm"} /\ Here.fact \in chain /\ chain' = chain
  BY <1>1, <1>3 DEF Provides
<1>4. CASE /\ Here.op \in {"send", "attempt", "queue"} /\ Allowed(chain, Deployer, Here.tx)
           /\ mempool' = Append(mempool, Here.tx) /\ chain' = chain
  <2>1. Adding(Here.tx, g)
    BY <1>4 DEF Provides
  <2>2. Here.tx \in CallsIn[s]
    BY <1>0, OrderedHere
  <2> HIDE DEF s
  <2>3. Len(mempool) \in Nat /\ Len(mempool') = Len(mempool) + 1 /\ mempool'[Len(mempool) + 1] = Here.tx
        /\ \A l \in 1..Len(mempool) : mempool'[l] = mempool[l]
    BY <1>0, <1>4, <2>2
  <2>4. CASE \E l \in 1..Len(mempool) : WaitsFor(s, mempool[l], g)
    <3>1. PICK l \in 1..Len(mempool) : WaitsFor(s, mempool[l], g)
      BY <2>4
    <3>2. Due(s, chain, mempool, l - 1, g)
      BY <3>1 DEF QueuedInOrder, s
    <3>3. l - 1 \in 0..Len(mempool) /\ Len(mempool) + 1 \in (l - 1)..(Len(mempool) + 1)
      BY <2>3
    <3>4. Due(s, chain', mempool', Len(mempool'), g)
      BY <1>0, <1>4, <2>2, <2>3, <3>2, <3>3, DueLater
    <3> QED  BY <1>0, <3>4 DEF OnTheWay, s
  <2>5. CASE \A l \in 1..Len(mempool) : ~WaitsFor(s, mempool[l], g)
    <3> DEFINE q == mempool'
               m == Len(mempool) + 1
    <3>1. m \in 1..Len(q) /\ q[m] = Here.tx /\ \A l \in 1..(m - 1) : ~WaitsFor(s, q[l], g)
      BY <2>3, <2>5
    <3>2. Allowed(chain', Deployer, Here.tx)
      BY <1>4
    <3> HIDE DEF q, m
    <3>3. Due(s, chain', q, Len(q), g)
      BY <2>1, <3>1, <3>2 DEF Due
    <3> QED  BY <1>0, <3>3 DEF OnTheWay, s, q
  <2> QED  BY <2>4, <2>5
<1>5. CASE /\ Here.op \in {"sendWait", "queueWait", "deploy"} /\ Allowed(chain, Deployer, Here.tx)
           /\ chain' = Effect(chain, Here.tx)
  <2>1. g \in Here.tx.add
    BY <1>5 DEF Provides
  <2> QED  BY <1>1, <1>5, <2>1, EffectAdds
<1>6. CASE Here.op \in {"queue", "queueWait", "attempt", "rethrow"}
  BY <1>6 DEF Provides
<1> QED  BY <1>2, <1>3, <1>4, <1>5, <1>6 DEF Passes

LEMMA StepsKept ==
  ASSUME IInv, RunOK, InOrder(scene.name), OrderOK, [ToolNext]_toolVars
  PROVE  StepsProvided'
<1>0. /\ SceneOK /\ PlaceOK /\ scene' = scene /\ QueuedInOrder /\ StepsProvided
  BY SceneStays DEF IInv, TypeOK, OrderOK
<1> SUFFICES ASSUME AtStep', NEW g \in ReliedOn[scene.name], NEW j \in 1..(pc'[3] - 1),
                    Provides(scene.name, Block'.steps[j], g)
             PROVE  OnTheWay(g)'
  BY <1>0 DEF StepsProvided
<1>1. Block' = Block /\ (Stays \/ (Passes /\ pc'[3] = pc[3] + 1)) /\ pc[3] \in Nat
  BY <1>0, Behind DEF PlaceOK
<1>2. AtStep
  BY <1>1 DEF Stays, Passes, AtStep, Idle
<1>3. CASE j \in 1..(pc[3] - 1)
  <2>1. OnTheWay(g)
    BY <1>0, <1>1, <1>2, <1>3 DEF StepsProvided
  <2> QED  BY <1>0, <2>1, OnTheWayStays
<1>4. CASE j \notin 1..(pc[3] - 1)
  <2>1. Passes /\ j = pc[3]
    BY <1>1, <1>4 DEF Stays
  <2>2. Provides(scene.name, Here, g)
    BY <1>1, <2>1 DEF Here
  <2> QED  BY <1>0, <2>1, <2>2, PassedIsProvided
<1> QED  BY <1>3, <1>4

\* The run goes behind a block that provides something.
LEMMA BlockOver ==
  ASSUME IInv, RunOK, InOrder(scene.name), OrderOK, [ToolNext]_toolVars, AtStep, pc'[2] = pc[2] + 1,
         NEW g \in ReliedOn[scene.name], BlockProvides(scene.name, Block, g), Passes \/ Skips
  PROVE  OnTheWay(g)'
<1>0. /\ SceneOK /\ PlaceOK /\ QueuedInOrder /\ StepsProvided
  BY DEF IInv, TypeOK, OrderOK
<1>1. PICK j \in DOMAIN Block.steps :
        /\ Provides(scene.name, Block.steps[j], g)
        /\ \A l \in 1..(j - 1) : LeavesOver(Block.steps[l], g)
  BY DEF BlockProvides
<1>2. Block.steps \in Seq(ScriptSteps) /\ pc[3] \in 1..Len(Block.steps) /\ j \in 1..Len(Block.steps)
      /\ Len(Block.steps) \in Nat
  BY <1>0, <1>1, ThisBlock
<1>3. CASE j < pc[3]
  <2>1. j \in 1..(pc[3] - 1)
    BY <1>2, <1>3
  <2>2. OnTheWay(g)
    BY <1>0, <1>1, <2>1 DEF StepsProvided
  <2> QED  BY <1>0, <2>2, OnTheWayStays
<1>4. CASE Passes /\ ~(j < pc[3])
  <2>1. pc[2] \in Nat /\ pc' = NextStep
    BY <1>0, <1>4 DEF PlaceOK, Passes
  <2>2. ~(pc[3] < Len(Block.steps))
    <3> SUFFICES ASSUME pc[3] < Len(Block.steps) PROVE FALSE
      OBVIOUS
    <3>1. pc'[2] = pc[2]
      BY <2>1 DEF NextStep
    <3> QED  BY <2>1, <3>1
  <2>3. j = pc[3]
    BY <1>2, <1>4, <2>2
  <2>4. Provides(scene.name, Here, g)
    BY <1>1, <2>3 DEF Here
  <2> QED  BY <1>0, <1>4, <2>4, PassedIsProvided
<1>5. CASE Skips /\ ~(j < pc[3])
  <2>1. Here.op \in {"confirm", "leave"} /\ Here.when \subseteq chain
    BY <1>5 DEF Skips, BlockProvides, Applies
  <2>2. j # pc[3]
    BY <1>1, <2>1 DEF Provides, Here
  <2>3. pc[3] \in 1..(j - 1)
    BY <1>2, <1>5, <2>2
  <2>4. g \in Here.when
    BY <1>1, <2>1, <2>3 DEF LeavesOver, Here
  <2>5. OnTheWay(g)
    BY <2>1, <2>4 DEF OnTheWay, Due
  <2> QED  BY <1>0, <2>5, OnTheWayStays
<1> QED  BY <1>3, <1>4, <1>5

LEMMA BlocksKept ==
  ASSUME IInv, RunOK, InOrder(scene.name), OrderOK, [ToolNext]_toolVars
  PROVE  BlocksProvided'
<1>0. /\ SceneOK /\ PlaceOK /\ scene' = scene /\ QueuedInOrder /\ BlocksProvided
      /\ pc \in Nat \X Nat \X Nat
  BY SceneStays DEF IInv, TypeOK, OrderOK, PlaceOK
<1> SUFFICES ASSUME ~Idle', NEW g \in ReliedOn[scene.name], NEW b \in 1..(pc'[2] - 1),
                    b \in DOMAIN running'.blocks, BlockProvides(scene.name, running'.blocks[b], g)
             PROVE  OnTheWay(g)'
  BY <1>0 DEF BlocksProvided
<1>1. ASSUME ~Idle, running' = running, b \in 1..(pc[2] - 1) PROVE OnTheWay(g)'
  <2>1. OnTheWay(g)
    BY <1>0, <1>1 DEF BlocksProvided
  <2> QED  BY <1>0, <2>1, OnTheWayStays
<1>2. CASE Stays
  BY <1>1, <1>2 DEF Stays, Idle
<1>3. CASE Stops
  BY <1>3 DEF Stops, Stop, Idle
<1>4. CASE Starts
  <2>1. pc'[2] = 1
    BY <1>4 DEF Starts
  <2> QED  BY <2>1
<1>5. CASE Passes \/ Skips
  <2>1. AtStep /\ ~Idle /\ running' = running /\ (pc'[2] = pc[2] \/ pc'[2] = pc[2] + 1) /\ pc[2] \in Nat
    BY <1>0, <1>5 DEF Passes, Skips, AtStep, NextStep, NextBlock
  <2>2. CASE b = pc[2]
    <3>1. pc'[2] = pc[2] + 1 /\ BlockProvides(scene.name, Block, g)
      BY <2>1, <2>2 DEF Block
    <3> QED  BY <1>0, <1>5, <2>1, <3>1, BlockOver
  <2> QED  BY <1>1, <2>1, <2>2
<1> QED  BY <1>0, <1>2, <1>3, <1>4, <1>5, Moves

\* A script has provided what it was to, when it is over.
LEMMA ScriptOver ==
  ASSUME IInv, RunOK, InOrder(scene.name), OrderOK, Over, NEW g \in ReliedOn[scene.name],
         g \in Provided[scene.name][pc[1]]
  PROVE  OnTheWay(g)
<1> DEFINE s == scene.name
           n == pc[1]
<1>0. /\ SceneOK /\ PlaceOK /\ BlocksProvided /\ ~Idle /\ s \in DOMAIN Scenes
      /\ n \in DOMAIN Orders[s] /\ running = Orders[s][n]
  BY DEF IInv, TypeOK, OrderOK, Over, AtStep, AtFinish, RunOK, SceneOK
<1>1. ScriptProvides(s, running, g)
  <2> HIDE DEF s, n
  <2>1. Provided[s][n] = {h \in ReliedOn[s] : ScriptProvides(s, Orders[s][n], h)}
    BY <1>0 DEF Provided
  <2> QED  BY <1>0, <2>1 DEF s, n
<1>2. CASE AtStep /\ Here.op = "return" /\ Applies
  <2>1. <<pc[2], pc[3]>> \in Places(running) /\ StepAt(running, <<pc[2], pc[3]>>) = Here
    BY <1>0, <1>2, ThisPlace
  <2>2. LeavesOver(Here, g)
    BY <1>1, <1>2, <2>1 DEF ScriptProvides
  <2>3. g \in chain
    BY <1>2, <2>2 DEF LeavesOver, Applies
  <2> QED  BY <2>3 DEF OnTheWay, Due
<1>3. CASE AtFinish
  <2>1. PICK b \in DOMAIN running.blocks : BlockProvides(s, running.blocks[b], g)
    BY <1>1 DEF ScriptProvides
  <2>2. b \in 1..(pc[2] - 1)
    <3>1. running \in Scripts
      BY <1>0, OrdersAssumption DEF PlaceOK, ToSet
    <3>2. running.blocks \in Seq(ScriptBlocks)
      BY <3>1 DEF Scripts
    <3>3. pc[2] \in Nat /\ pc[2] > Len(running.blocks)
      BY <1>0, <1>3 DEF PlaceOK, AtFinish
    <3> QED  BY <2>1, <3>2, <3>3
  <2> QED  BY <1>0, <2>1, <2>2 DEF BlocksProvided
<1> QED  BY <1>2, <1>3 DEF Over

LEMMA RecordedSteps ==
  ASSUME [ToolNext]_toolVars
  PROVE  recorded' = recorded \/ (Over /\ recorded' = recorded \cup {running.id})
BY DEF ToolNext, ToolStep, Scan, CallDirectly, PrepareBatch, ToolFault, KillTool, Next, Progress,
       Start, PassOver, ReadStep, SendStep, WaitStep, Finish, Mine, Kill, SafeExecute, SafeReject,
       CallFault, toolVars, vars, Over

LEMMA ScriptsKept ==
  ASSUME IInv, RunOK, InOrder(scene.name), OrderOK, [ToolNext]_toolVars
  PROVE  ScriptsProvided'
<1> DEFINE s == scene.name
<1>0. /\ SceneOK /\ PlaceOK /\ scene' = scene /\ QueuedInOrder /\ ScriptsProvided
      /\ s \in DOMAIN Scenes /\ pc[1] \in Nat
  BY SceneStays DEF IInv, TypeOK, OrderOK, PlaceOK, SceneOK
<1> SUFFICES ASSUME NEW g \in ReliedOn[s], NEW m \in DOMAIN Orders[s],
                    m < pc'[1] \/ Orders[s][m].id \in recorded', g \in Provided[s][m]
             PROVE  OnTheWay(g)'
  BY <1>0 DEF ScriptsProvided
<1>1. ASSUME m < pc[1] \/ Orders[s][m].id \in recorded PROVE OnTheWay(g)'
  <2>1. OnTheWay(g)
    BY <1>0, <1>1 DEF ScriptsProvided
  <2> QED  BY <1>0, <2>1, OnTheWayStays
<1>2. ASSUME Over, m = pc[1] PROVE OnTheWay(g)'
  <2>1. OnTheWay(g)
    BY <1>2, ScriptOver
  <2> QED  BY <1>0, <2>1, OnTheWayStays
<1>3. CASE Orders[s][m].id \in recorded'
  <2>1. CASE recorded' = recorded
    BY <1>1, <1>3, <2>1
  <2>2. CASE Over /\ recorded' = recorded \cup {running.id}
    <3>1. pc[1] \in DOMAIN Orders[s] /\ running = Orders[s][pc[1]]
      BY <2>2 DEF Over, AtStep, AtFinish, RunOK
    <3> DEFINE n == pc[1]
    <3>2. Orders[s][m].id \in recorded \/ Orders[s][m].id = Orders[s][n].id
      BY <1>3, <2>2, <3>1
    <3>3. Orders[s][m].id = Orders[s][n].id => m = n
      <4> HIDE DEF s, n
      <4>1. n \in DOMAIN Orders[s]
        BY <3>1 DEF n
      <4> QED  BY <1>0, <4>1, PricesAssumption
    <3> QED  BY <1>1, <1>2, <2>2, <3>2, <3>3
  <2> QED  BY <2>1, <2>2, RecordedSteps
<1>4. CASE m < pc'[1] /\ Orders[s][m].id \notin recorded'
  <2>0. Orders[s] \in Seq(Scripts)
    BY <1>0, OrdersAssumption
  <2>1. m \in Nat /\ m >= 1 /\ m \in 1..Len(Orders[s])
    BY <2>0
  <2>2. CASE Stays
    BY <1>1, <1>4, <2>2 DEF Stays
  <2>3. CASE Passes \/ Skips
    <3>1. pc'[1] = pc[1]
      BY <2>3 DEF Passes, Skips, NextStep, NextBlock
    <3> QED  BY <1>1, <1>4, <3>1
  <2>4. CASE Stops
    <3>1. pc'[1] = 0
      BY <2>4 DEF Stops, Stop
    <3> QED  BY <1>4, <2>1, <3>1
  <2>5. CASE Starts
    <3>1. PICK k \in 1..Len(Orders[s]) :
            /\ pc' = <<k, 1, 1>>
            /\ \A l \in (pc[1] + 1)..Len(Orders[s]) : Orders[s][l].id \notin recorded' => k <= l
      BY <2>5 DEF Starts
    <3>2. m < k
      BY <1>4, <3>1
    <3>3. m \notin (pc[1] + 1)..Len(Orders[s])
      BY <1>4, <2>1, <3>1, <3>2
    <3>4. m < pc[1] \/ m = pc[1]
      BY <1>0, <2>1, <3>3
    <3>5. Idle \/ Over
      BY <2>5 DEF Starts, Over
    <3>6. ~Idle
      BY <2>1, <3>4 DEF Idle
    <3> QED  BY <1>1, <1>2, <3>4, <3>5, <3>6
  <2> QED  BY <1>0, <2>2, <2>3, <2>4, <2>5, Moves
<1> QED  BY <1>3, <1>4

LEMMA OrderKept ==
  ASSUME IInv, RunOK, OrderOK, [ToolNext]_toolVars
  PROVE  OrderOK'
<1>1. scene' = scene
  BY SceneStays
<1> QED  BY <1>1, QueuedKept, StepsKept, BlocksKept, ScriptsKept DEF OrderOK
-----------------------------------------------------------------------------
(* Prices and adapters                                                     *)

PricesOK == FeedsOK /\ ReadsOK /\ OrderOK /\ PricedFromAFeed /\ AdapterHasItsAsset

LEMMA EquippedAdapters == AdapterHasItsAsset <=> Equipped(chain)
BY DEF AdapterHasItsAsset, Equipped, ToSet

\* The deployer's calls rely on nothing that is not there.
LEMMA CallsAreReady ==
  ASSUME IInv, RunOK, PricesOK, [ToolNext]_toolVars
  PROVE  \/ chain' = chain
         \/ \E tx \in StepCalls(scene.name) :
              chain' = Effect(chain, tx) /\ (Ready(chain, tx) \/ Supplied(chain, tx))
         \/ \E b \in proposals : /\ chain' = AllMined(chain, Gov, b)
                                 /\ \A n \in 1..Len(b) : Supplied(chain, b[n])
<1> DEFINE s == scene.name
<1>0. SceneOK /\ PlaceOK /\ s \in DOMAIN Scenes
  BY DEF IInv, TypeOK, SceneOK
<1>1. CASE ReadsBefore(s)
  <2>1. /\ \A n \in 1..Len(mempool) : Supplied(chain, mempool[n])
        /\ \A b \in proposals : \A n \in 1..Len(b) : Supplied(chain, b[n])
        /\ AtStep => Supplied(chain, Here.tx)
    BY <1>1, HereIsSupplied DEF PricesOK, ReadsOK
  <2> QED  BY <2>1, ReliesOnNothing, ChainCalls
<1>2. CASE InOrder(s)
  <2>0. QueuedInOrder /\ StepsProvided /\ BlocksProvided /\ ScriptsProvided
    BY <1>2 DEF PricesOK, OrderOK
  <2>1. /\ proposals = {} /\ mempool \in Seq(CallsIn[s])
        /\ \A n \in 1..Len(mempool) : \A g \in ReliedOn[s] :
             WaitsFor(s, mempool[n], g) => Due(s, chain, mempool, n - 1, g)
    BY <2>0 DEF QueuedInOrder
  <2>2. ASSUME NEW tx \in CallsIn[s], \A g \in ReliedOn[s] : WaitsFor(s, tx, g) => g \in chain
        PROVE  Ready(chain, tx)
    <3>1. ReliesOn(tx) \subseteq ReliedOn[s]
      BY <1>0, <1>2, OrderedScene
    <3> QED  BY <2>2, <3>1 DEF Ready, WaitsFor
  <2>3. ASSUME mempool # <<>> PROVE Ready(chain, mempool[1])
    <3>1. 1 \in 1..Len(mempool) /\ mempool[1] \in CallsIn[s]
      BY <2>1, <2>3
    <3>2. ASSUME NEW g \in ReliedOn[s], WaitsFor(s, mempool[1], g) PROVE g \in chain
      <4>1. Due(s, chain, mempool, 1 - 1, g)
        BY <2>1, <3>1, <3>2
      <4>2. ~ \E m \in 1..(1 - 1) : TRUE
        OBVIOUS
      <4> QED  BY <4>1, <4>2 DEF Due
    <3> QED  BY <2>2, <3>1, <3>2
  <2>4. ASSUME AtStep, mempool = <<>> PROVE Ready(chain, Here.tx)
    <3>1. Here.tx \in CallsIn[s]
      BY <1>0, <1>2, <2>4, OrderedHere
    <3>2. ASSUME NEW g \in ReliedOn[s], WaitsFor(s, Here.tx, g) PROVE g \in chain
      <4>1. OnTheWay(g)
        BY <1>2, <2>0, <2>4, <3>2, HereIsProvided
      <4> QED  BY <2>4, <4>1, NothingQueued DEF OnTheWay
    <3> QED  BY <2>2, <3>1, <3>2
  <2> QED  BY <2>1, <2>3, <2>4, ReliesOnNothing, ChainCalls
<1> QED  BY <1>0, <1>1, <1>2, PricesAssumption

LEMMA StepKeepsPrices == IInv /\ RunOK /\ PricesOK /\ [ToolNext]_toolVars => PricesOK'
<1> SUFFICES ASSUME IInv, RunOK, PricesOK, [ToolNext]_toolVars PROVE PricesOK'
  OBVIOUS
<1>1. FeedsOK' /\ ReadsOK' /\ OrderOK'
  BY FeedsKept, ReadsKept, OrderKept DEF PricesOK
<1>2. Priced(chain) /\ Equipped(chain)
  BY EquippedAdapters DEF PricesOK, PricedFromAFeed, Priced
<1>3. \A w \in FeedWrappers : \A a : a # Owner /\ HasFeed(chain, <<w, a>>) => HasFeed(chain', <<w, a>>)
  BY FeedStays DEF PricesOK
<1>4. Priced(chain') /\ Equipped(chain')
  <2>1. CASE chain' = chain
    BY <1>2, <2>1
  <2>2. ASSUME NEW tx \in StepCalls(scene.name), chain' = Effect(chain, tx),
               Ready(chain, tx) \/ Supplied(chain, tx)
        PROVE  Priced(chain') /\ Equipped(chain')
    <3>1. KeepsAssets(tx)
      BY DEF StepCalls
    <3> QED  BY <1>2, <1>3, <2>2, <3>1, ReadyPrices
  <2>3. ASSUME NEW b \in proposals, chain' = AllMined(chain, Gov, b),
               \A n \in 1..Len(b) : Supplied(chain, b[n])
        PROVE  Priced(chain') /\ Equipped(chain')
    <3>1. b \in Seq(Batchable(scene.name))
      BY DEF IInv, TypeOK, CallsOK
    <3> QED  BY <1>2, <1>3, <2>3, <3>1, BatchPrices
  <2> QED  BY <2>1, <2>2, <2>3, CallsAreReady
<1>5. PricedFromAFeed' /\ AdapterHasItsAsset'
  BY <1>4 DEF Priced, Equipped, PricedFromAFeed, AdapterHasItsAsset, ToSet
<1> QED  BY <1>1, <1>5 DEF PricesOK

LEMMA ToolInitPrices == ToolInit => RunOK /\ PricesOK
<1> SUFFICES ASSUME ToolInit PROVE RunOK /\ PricesOK
  OBVIOUS
<1>1. PICK s \in DOMAIN Scenes : scene = Settings(s) /\ chain = Scenes[s].chain
  BY DEF ToolInit, Init
<1>2. scene.name = s
  BY <1>1 DEF Settings
<1>3. /\ mempool = <<>> /\ pc = <<0, 1, 1>> /\ batch = <<>> /\ proposals = {} /\ tool = NoTool
      /\ recorded = {}
  BY DEF ToolInit, Init
<1>4. pc[1] = 0 /\ Idle /\ ~AtStep /\ Len(mempool) = 0 /\ Len(batch) = 0
  BY <1>3 DEF Idle, AtStep
<1>5. ~ \E n \in 1..0 : TRUE
  OBVIOUS
<1>6. RunOK
  BY <1>3, <1>4 DEF RunOK
<1>7. PricedFromAFeed /\ AdapterHasItsAsset
  <2>1. Priced(chain) /\ Equipped(chain)
    BY <1>1, PricesAssumption DEF Priced, Equipped
  <2> QED  BY <2>1, EquippedAdapters DEF PricedFromAFeed, Priced
<1>8. FeedsOK
  BY <1>1, <1>2, <1>3, <1>4, <1>5, PricesAssumption DEF FeedsOK
<1>9. ReadsOK
  BY <1>3, <1>4, <1>5 DEF ReadsOK
<1>10. QueuedInOrder
  <2> DEFINE calls == CallsIn[scene.name]
  <2> HIDE DEF calls
  <2>1. <<>> \in Seq(calls)
    OBVIOUS
  <2>2. \A g \in ReliedOn[scene.name] : \A u \in chain :
          Accompanied(scene.name, CallsIn[scene.name], u, g) => g \in chain
    BY <1>1, <1>2 DEF Accompanied
  <2> QED  BY <1>3, <1>4, <1>5, <2>1, <2>2 DEF QueuedInOrder, calls
<1>11. ScriptsProvided
  <2>1. Orders[s] \in Seq(Scripts)
    BY OrdersAssumption
  <2>2. \A m \in DOMAIN Orders[s] : ~(m < 0)
    BY <2>1
  <2> QED  BY <1>2, <1>3, <1>4, <2>2 DEF ScriptsProvided
<1>12. StepsProvided /\ BlocksProvided
  BY <1>4 DEF StepsProvided, BlocksProvided
<1> QED  BY <1>6, <1>7, <1>8, <1>9, <1>10, <1>11, <1>12 DEF PricesOK, OrderOK

LEMMA PricesInvariant == ToolSpec => [](IInv /\ RunOK /\ PricesOK)
<1>1. IInv /\ RunOK /\ PricesOK /\ [ToolNext]_toolVars => (IInv /\ RunOK /\ PricesOK)'
  BY StepKeepsIInv, RunKept, StepKeepsPrices
<1> QED  BY <1>1, ToolInitOK, ToolInitPrices, PTL DEF ToolSpec

\* An oracle aggregator of the ecosystem never points an asset to a wrapper
\* without a feed for it: for all scripts that keep to PricesAssumption, however
\* far the chain lags, whatever fails or is killed, and in whatever order the
\* Safe executes the batches of setOracle and setFeed.
THEOREM AssetsArePriced == ToolSpec => []PricedFromAFeed
<1>1. IInv /\ RunOK /\ PricesOK => PricedFromAFeed
  BY DEF PricesOK
<1> QED  BY <1>1, PricesInvariant, PTL

\* A dSTAKE router never has the adapter of an asset that its collateral vault
\* does not support, though addAdapter catches the vault's refusal: for all
\* scripts that keep to PricesAssumption, from which the role that lets the
\* router add the asset is granted in front of every addAdapter.
THEOREM AdaptersHaveAssets == ToolSpec => []AdapterHasItsAsset
<1>1. IInv /\ RunOK /\ PricesOK => AdapterHasItsAsset
  BY DEF PricesOK
<1> QED  BY <1>1, PricesInvariant, PTL
=============================================================================
