------------------------ MODULE ERC20VestingNFTProofs ------------------------
(***************************************************************************)
(* For every set of holders, vesting period, cap and number of tokens: the *)
(* counter is the sum of the positions, the contract is solvent, and a     *)
(* matured NFT never moves again.                                          *)
(*                                                                         *)
(* The invariants are not inductive alone: DepositRecord overwrites the    *)
(* position of the pending token, so one has to know that it was still     *)
(* unset (PendingIsFresh), and that needs the ids from the counter on to   *)
(* be unused (UnusedIds).                                                  *)
(***************************************************************************)
EXTENDS ERC20VestingNFT, ArithmeticProofs

UnusedIds ==
    \A t \in TokenIds : t >= tokenIdCounter =>
        vestingPositions[t] = NoPosition /\ ownerOf[t] = NoOwner

PendingIsFresh ==
    \/ entered = NotEntered
    \/ /\ entered.tokenId \in TokenIds
       /\ entered.tokenId < tokenIdCounter
       /\ vestingPositions[entered.tokenId] = NoPosition
       /\ ownerOf[entered.tokenId] # NoOwner
       /\ entered.amount > 0

IInv ==
    /\ TypeOK
    /\ UnusedIds
    /\ PendingIsFresh
    /\ TotalIsSumOfPositions
    /\ Solvent
    /\ PositionMatchesNFT
    /\ PendingFitsCheckedCap

-----------------------------------------------------------------------------
LEMMA OwedType ==
    ASSUME VestingAssumption,
           NEW p \in [TokenIds -> Position]
    PROVE  Owed(p) \in [1..MaxTokenId -> Nat] /\ Owed(p) \in [1..MaxTokenId -> Int]
BY DEF Owed, TokenIds, VestingAssumption, Position

\* Replacing one position moves the sum by the change of what it is owed.
LEMMA OwedUpdate ==
    ASSUME VestingAssumption,
           NEW p \in [TokenIds -> Position],
           NEW q \in [TokenIds -> Position],
           NEW t \in TokenIds, \A i \in TokenIds \ {t} : q[i] = p[i]
    PROVE  SumTo(Owed(q), MaxTokenId)
             = SumTo(Owed(p), MaxTokenId) + Owed(q)[t] - Owed(p)[t]
<1>1. Owed(p) \in [1..MaxTokenId -> Int] /\ Owed(q) \in [1..MaxTokenId -> Int]
    BY OwedType
<1>2. \A i \in (1..MaxTokenId) \ {t} : Owed(q)[i] = Owed(p)[i]
    BY DEF Owed, TokenIds
<1>3. MaxTokenId \in Nat /\ t \in 1..MaxTokenId
    BY DEF VestingAssumption, TokenIds
<1> QED BY <1>1, <1>2, <1>3, SumUpdate

\* Nothing is owed while every position is unset.
LEMMA NothingOwed ==
    ASSUME VestingAssumption
    PROVE  SumTo(Owed([t \in TokenIds |-> NoPosition]), MaxTokenId) = 0
<1> DEFINE f == Owed([t \in TokenIds |-> NoPosition])
           s == [i \in 0..MaxTokenId |-> 0]
<1>1. MaxTokenId \in Nat
    BY DEF VestingAssumption
<1>2. f = [t \in 1..MaxTokenId |-> 0]
    BY DEF Owed, TokenIds, NoPosition
<1>3. IsRunning(s, f, MaxTokenId)
    BY <1>1, <1>2 DEF IsRunning
<1>4. f \in [1..MaxTokenId -> Int]
    BY <1>2
<1>5. SumTo(f, MaxTokenId) = s[MaxTokenId]
    BY <1>1, <1>3, <1>4, SumFromRunning
<1> QED BY <1>1, <1>5

LEMMA InitIInv ==
    ASSUME VestingAssumption, Init
    PROVE  IInv
<1> USE DEF Init, TokenIds, NoPosition, NotEntered
<1>1. TypeOK
    BY DEF TypeOK, Position, VestingAssumption
<1>2. UnusedIds /\ PendingIsFresh /\ Solvent /\ PositionMatchesNFT /\ PendingFitsCheckedCap
    BY DEF UnusedIds, PendingIsFresh, Solvent, PositionMatchesNFT, PendingFitsCheckedCap,
           tokenExists, nonReentrant
<1>3. TotalIsSumOfPositions
    BY NothingOwed DEF TotalIsSumOfPositions, TokenIds, NoPosition
<1> QED BY <1>1, <1>2, <1>3 DEF IInv

\* Actions that touch neither the positions, the NFTs nor the totals.
LEMMA StutterOnPositions ==
    ASSUME IInv, TypeOK', held' >= held,
           UNCHANGED <<totalDeposited, tokenIdCounter, vestingPositions, ownerOf, entered>>
    PROVE  IInv'
<1>1. UnusedIds' /\ PendingIsFresh'
    BY DEF IInv, UnusedIds, PendingIsFresh
<1>2. TotalIsSumOfPositions'
    BY DEF IInv, TotalIsSumOfPositions
<1>3. Solvent'
    BY DEF IInv, Solvent, TypeOK
<1>4. PositionMatchesNFT' /\ PendingFitsCheckedCap'
    BY DEF IInv, PositionMatchesNFT, PendingFitsCheckedCap, tokenExists, nonReentrant
<1> QED BY <1>1, <1>2, <1>3, <1>4 DEF IInv

LEMMA DepositMintIInv ==
    ASSUME VestingAssumption, IInv, NEW user \in Users, NEW amount \in Amounts,
           DepositMint(user, amount)
    PROVE  IInv'
<1> DEFINE t == tokenIdCounter
<1> USE DEF DepositMint, config, positions, tokens
<1>1. /\ t \in TokenIds /\ amount \in Nat /\ amount > 0
      /\ entered = NotEntered /\ entered.amount = 0 /\ entered.tokenId = 0
    BY DEF VestingAssumption, nonReentrant, NotEntered
<1>2. TypeOK'
  <2>1. /\ now \in Nat /\ depositsEnabled \in BOOLEAN /\ held \in Nat
        /\ maxTotalSupply \in Nat /\ minDepositAmount \in Nat
        /\ totalDeposited \in Nat /\ vestingPositions \in [TokenIds -> Position]
        /\ ownerOf \in [TokenIds -> Users \cup {NoOwner}]
        /\ dstakeOf \in [Users -> Nat] /\ MaxTokenId \in Nat
      BY DEF IInv, TypeOK, VestingAssumption
  <2>2. tokenIdCounter' \in 1..(MaxTokenId + 1)
      BY <1>1, <2>1 DEF TokenIds
  <2>3. ownerOf' \in [TokenIds -> Users \cup {NoOwner}]
      BY <2>1
  <2>4. dstakeOf[user] - amount \in Nat
      BY <1>1, <2>1
  <2>5. dstakeOf' \in [Users -> Nat]
      BY <2>1, <2>4
  <2>6. entered' \in [tokenId : 0..MaxTokenId, amount : Nat, checkedCap : Nat]
      BY <1>1, <2>1 DEF TokenIds
  <2>7. held' \in Nat
      BY <1>1, <2>1
  <2> QED BY <2>1, <2>2, <2>3, <2>5, <2>6, <2>7 DEF TypeOK
<1>3. vestingPositions[t] = NoPosition /\ ownerOf[t] = NoOwner
    BY <1>1 DEF IInv, UnusedIds, TypeOK, Position, TokenIds
<1>4. UnusedIds'
    BY <1>1 DEF IInv, UnusedIds, TypeOK, Position, TokenIds
<1>5. user # NoOwner
    BY DEF VestingAssumption
<1>6. PendingIsFresh'
    BY <1>1, <1>3, <1>5 DEF IInv, TypeOK, Position, PendingIsFresh, TokenIds
<1>7. TotalIsSumOfPositions'
    BY DEF IInv, TotalIsSumOfPositions
<1>8. Solvent'
    BY <1>1 DEF IInv, Solvent, TypeOK, Position
<1>9. PositionMatchesNFT'
    BY <1>1, <1>3, <1>5 DEF IInv, PositionMatchesNFT, TypeOK, Position, tokenExists, TokenIds
<1>10. PendingFitsCheckedCap'
    BY <1>1 DEF IInv, TypeOK, Position, PendingFitsCheckedCap, WithinCap
<1> QED BY <1>2, <1>4, <1>6, <1>7, <1>8, <1>9, <1>10 DEF IInv

LEMMA DepositRecordIInv ==
    ASSUME VestingAssumption, IInv, DepositRecord
    PROVE  IInv'
<1> DEFINE t == entered.tokenId
           r == [amount |-> entered.amount, depositTime |-> now, matured |-> FALSE]
<1> USE DEF DepositRecord, config, positions, tokens
<1>1. /\ t \in TokenIds /\ t < tokenIdCounter
      /\ vestingPositions[t] = NoPosition
      /\ ownerOf[t] # NoOwner
      /\ entered.amount \in Nat /\ entered.amount > 0
      /\ r \in Position
    BY DEF IInv, PendingIsFresh, nonReentrant, TypeOK, Position
<1>2. /\ vestingPositions' = [vestingPositions EXCEPT ![t] = r]
      /\ entered' = NotEntered
      /\ entered'.amount = 0 /\ entered'.tokenId = 0
    BY DEF NotEntered
<1>3. TypeOK'
    BY <1>1, <1>2 DEF IInv, TypeOK, Position, NotEntered
<1>4. UnusedIds'
    BY <1>1, <1>2 DEF IInv, UnusedIds, TypeOK, Position, TokenIds
<1>5. PendingIsFresh'
    BY <1>2 DEF PendingIsFresh
<1>6. TotalIsSumOfPositions'
  <2>1. Owed(vestingPositions)[t] = 0 /\ Owed(vestingPositions')[t] = entered.amount
      BY <1>1, <1>2 DEF Owed, NoPosition, IInv, TypeOK, Position
  <2>2. \A i \in TokenIds \ {t} : vestingPositions'[i] = vestingPositions[i]
      BY <1>2 DEF IInv, TypeOK, Position
  <2>3. /\ vestingPositions \in [TokenIds -> Position]
        /\ vestingPositions' \in [TokenIds -> Position]
      BY <1>3 DEF IInv, TypeOK, Position
  <2> HIDE DEF DepositRecord, r
  <2>4. SumTo(Owed(vestingPositions'), MaxTokenId)
          = SumTo(Owed(vestingPositions), MaxTokenId)
            + Owed(vestingPositions')[t] - Owed(vestingPositions)[t]
    <3> DEFINE p == vestingPositions
               q == vestingPositions'
    <3>1. VestingAssumption /\ t \in TokenIds
        BY <1>1
    <3>2. p \in [TokenIds -> Position] /\ q \in [TokenIds -> Position]
        BY <2>3
    <3>3. \A i \in TokenIds \ {t} : q[i] = p[i]
        BY <2>2
    <3> HIDE DEF p, q, t
    <3>4. SumTo(Owed(q), MaxTokenId) = SumTo(Owed(p), MaxTokenId) + Owed(q)[t] - Owed(p)[t]
        BY <3>1, <3>2, <3>3, OwedUpdate
    <3> QED BY <3>4 DEF p, q
  <2>5. totalDeposited' = totalDeposited + entered.amount
      BY DEF DepositRecord
  <2> QED BY <1>1, <2>1, <2>4, <2>5 DEF IInv, TypeOK, TotalIsSumOfPositions
<1>7. Solvent'
    BY <1>1, <1>2 DEF IInv, Solvent, TypeOK, Position
<1>8. PositionMatchesNFT'
    BY <1>1, <1>2 DEF IInv, PositionMatchesNFT, TypeOK, Position, tokenExists, TokenIds
<1>9. PendingFitsCheckedCap'
    BY <1>2 DEF PendingFitsCheckedCap, nonReentrant
<1> QED BY <1>3, <1>4, <1>5, <1>6, <1>7, <1>8, <1>9 DEF IInv

\* A position is covered by the counter and by the tokens held.
LEMMA PositionIsCovered ==
    ASSUME VestingAssumption, IInv, NEW t \in TokenIds, ~ vestingPositions[t].matured
    PROVE  /\ vestingPositions[t].amount <= totalDeposited
           /\ vestingPositions[t].amount <= held
<1>1. Owed(vestingPositions) \in [1..MaxTokenId -> Nat]
    BY OwedType DEF IInv, TypeOK
<1>2. Owed(vestingPositions)[t] = vestingPositions[t].amount
    BY DEF Owed
<1>3. Owed(vestingPositions)[t] <= SumTo(Owed(vestingPositions), MaxTokenId)
    BY <1>1, SumNat DEF TokenIds, VestingAssumption
<1>4. vestingPositions[t].amount \in Nat /\ entered.amount \in Nat
    BY DEF IInv, TypeOK, Position
<1> QED BY <1>2, <1>3, <1>4 DEF IInv, TypeOK, TotalIsSumOfPositions, Solvent

\* What redeemEarly and withdrawMatured share: one position stops being owed.
LEMMA SettlementSum ==
    ASSUME VestingAssumption, TypeOK, TypeOK', TotalIsSumOfPositions, NEW t \in TokenIds,
           ~ vestingPositions[t].matured,
           NEW r \in Position,
           r.matured \/ r.amount = 0,
           vestingPositions' = [vestingPositions EXCEPT ![t] = r],
           totalDeposited' = totalDeposited - vestingPositions[t].amount
    PROVE  TotalIsSumOfPositions'
<1>1. /\ Owed(vestingPositions)[t] = vestingPositions[t].amount
      /\ Owed(vestingPositions')[t] = 0
    BY DEF Owed, TypeOK, Position
<1>2. \A i \in TokenIds \ {t} : vestingPositions'[i] = vestingPositions[i]
    BY DEF TypeOK, Position
<1>3. SumTo(Owed(vestingPositions'), MaxTokenId)
        = SumTo(Owed(vestingPositions), MaxTokenId)
          + Owed(vestingPositions')[t] - Owed(vestingPositions)[t]
  <2>1. /\ vestingPositions \in [TokenIds -> Position]
        /\ vestingPositions' \in [TokenIds -> Position]
      BY DEF TypeOK, Position
  <2> QED BY <1>2, <2>1, OwedUpdate
<1> QED BY <1>1, <1>3 DEF TypeOK, Position, TotalIsSumOfPositions

LEMMA RedeemEarlyIInv ==
    ASSUME VestingAssumption, IInv, NEW user \in Users, NEW t \in TokenIds,
           redeemEarly(user, t)
    PROVE  IInv'
<1> USE DEF redeemEarly, Release, PayOut, config, positions, tokens
<1>1. /\ entered = NotEntered /\ entered' = NotEntered
      /\ entered.amount = 0 /\ entered.tokenId = 0
      /\ vestingPositions[t].amount \in Nat /\ vestingPositions[t].amount > 0
    BY DEF IInv, TypeOK, Position, nonReentrant, NotEntered, tokenExists
<1>2. /\ NoPosition \in Position
      /\ NoPosition.amount = 0
    BY DEF NoPosition, Position
<1>3. TypeOK'
    BY <1>1, <1>2, PositionIsCovered DEF IInv, TypeOK, Position
<1>4. UnusedIds' /\ PendingIsFresh'
    BY <1>1 DEF IInv, UnusedIds, PendingIsFresh, TypeOK, Position
<1>5. TotalIsSumOfPositions'
    BY <1>2, <1>3, SettlementSum DEF IInv
<1>6. Solvent' /\ PendingFitsCheckedCap'
    BY <1>1 DEF IInv, Solvent, PendingFitsCheckedCap, TypeOK, Position, nonReentrant
<1>7. PositionMatchesNFT'
  <2> SUFFICES ASSUME NEW i \in TokenIds
               PROVE  (ownerOf'[i] # NoOwner) <=> (tokenExists(i)' \/ i = entered'.tokenId)
      BY DEF PositionMatchesNFT
  <2>1. i # 0 /\ entered'.tokenId = 0
      BY <1>1 DEF TokenIds
  <2>2. CASE i = t
      BY <1>2, <2>1, <2>2 DEF tokenExists, IInv, TypeOK
  <2>3. CASE i # t
      BY <1>1, <2>1, <2>3 DEF tokenExists, IInv, TypeOK, PositionMatchesNFT
  <2> QED BY <2>2, <2>3
<1> QED BY <1>3, <1>4, <1>5, <1>6, <1>7 DEF IInv

LEMMA WithdrawMaturedIInv ==
    ASSUME VestingAssumption, IInv, NEW user \in Users, NEW t \in TokenIds,
           withdrawMatured(user, t)
    PROVE  IInv'
<1> DEFINE r == [amount |-> vestingPositions[t].amount,
                 depositTime |-> vestingPositions[t].depositTime, matured |-> TRUE]
<1> USE DEF withdrawMatured, Release, PayOut, Matured, config, positions, tokens
<1>1. /\ entered = NotEntered /\ entered' = NotEntered
      /\ entered.amount = 0 /\ entered.tokenId = 0
      /\ vestingPositions[t].amount \in Nat /\ vestingPositions[t].amount > 0
    BY DEF IInv, TypeOK, Position, nonReentrant, NotEntered, tokenExists
<1>2. /\ r \in Position
      /\ r.matured /\ r.amount = vestingPositions[t].amount
      /\ vestingPositions' = [vestingPositions EXCEPT ![t] = r]
    BY DEF IInv, TypeOK, Position
<1>3. TypeOK'
    BY <1>1, <1>2, PositionIsCovered DEF IInv, TypeOK, Position
<1>4. t < tokenIdCounter
    BY <1>1 DEF IInv, UnusedIds, NoPosition, TypeOK, Position, TokenIds
<1>5. UnusedIds' /\ PendingIsFresh'
    BY <1>1, <1>2, <1>4 DEF IInv, UnusedIds, PendingIsFresh, TypeOK, Position, TokenIds
<1>6. TotalIsSumOfPositions'
    BY <1>2, <1>3, SettlementSum DEF IInv
<1>7. Solvent' /\ PendingFitsCheckedCap'
    BY <1>1 DEF IInv, Solvent, PendingFitsCheckedCap, TypeOK, Position, nonReentrant
<1>8. PositionMatchesNFT'
    BY <1>1, <1>2 DEF IInv, PositionMatchesNFT, TypeOK, Position, tokenExists, TokenIds
<1> QED BY <1>3, <1>5, <1>6, <1>7, <1>8 DEF IInv

LEMMA TransferIInv ==
    ASSUME VestingAssumption, IInv, NEW t \in TokenIds, NEW to \in Users,
           transferNFT(t, to)
    PROVE  IInv'
<1> USE DEF transferNFT, Transferable, config, positions, tokens
<1>1. to # NoOwner
    BY DEF VestingAssumption
<1>2. TypeOK'
    BY DEF IInv, TypeOK, Position
<1>3. UnusedIds' /\ PendingIsFresh'
    BY <1>1 DEF IInv, UnusedIds, PendingIsFresh, TypeOK, Position
<1>4. TotalIsSumOfPositions' /\ Solvent' /\ PendingFitsCheckedCap'
    BY DEF IInv, TotalIsSumOfPositions, Solvent, PendingFitsCheckedCap, nonReentrant
<1>5. PositionMatchesNFT'
    BY <1>1 DEF IInv, PositionMatchesNFT, TypeOK, Position, tokenExists
<1> QED BY <1>2, <1>3, <1>4, <1>5 DEF IInv

LEMMA NextIInv ==
    ASSUME VestingAssumption, IInv, [Next]_vars
    PROVE  IInv'
<1> USE DEF config, positions, tokens
<1>1. CASE Tick
    BY <1>1, StutterOnPositions DEF Tick, IInv, TypeOK, Position
<1>2. CASE \E user \in Users, amount \in Amounts : DepositMint(user, amount)
    BY <1>2, DepositMintIInv
<1>3. CASE DepositRecord
    BY <1>3, DepositRecordIInv
<1>4. CASE \E user \in Users, tokenId \in TokenIds : redeemEarly(user, tokenId)
    BY <1>4, RedeemEarlyIInv
<1>5. CASE \E user \in Users, tokenId \in TokenIds : withdrawMatured(user, tokenId)
    BY <1>5, WithdrawMaturedIInv
<1>6. CASE \E tokenId \in TokenIds, to \in Users : transferNFT(tokenId, to)
    BY <1>6, TransferIInv
<1>7. CASE \E enabled \in BOOLEAN : setDepositsEnabled(enabled)
    BY <1>7, StutterOnPositions DEF setDepositsEnabled, IInv, TypeOK, Position
<1>8. CASE \E limit \in Limits : setMaxTotalSupply(limit)
    BY <1>8, StutterOnPositions DEF setMaxTotalSupply, IInv, TypeOK, Position, VestingAssumption
<1>9. CASE \E limit \in Limits : setMinDepositAmount(limit)
    BY <1>9, StutterOnPositions DEF setMinDepositAmount, IInv, TypeOK, Position, VestingAssumption
<1>10. CASE \E user \in Users, amount \in Amounts : Donate(user, amount)
  <2>1. PICK user \in Users, amount \in Amounts : Donate(user, amount)
      BY <1>10
  <2>2. amount \in Nat /\ held' >= held /\ TypeOK'
      BY <2>1 DEF Donate, IInv, TypeOK, Position, VestingAssumption
  <2> QED BY <2>1, <2>2, StutterOnPositions DEF Donate
<1>11. CASE UNCHANGED vars
    BY <1>11, StutterOnPositions DEF vars, IInv, TypeOK, Position
<1> QED
    BY <1>1, <1>2, <1>3, <1>4, <1>5, <1>6, <1>7, <1>8, <1>9, <1>10, <1>11 DEF Next

\* The strengthened invariant holds of every reachable state.
THEOREM InductiveInvariant == Spec => []IInv
<1>1. Init => IInv
    BY InitIInv, VestingAssumption
<1>2. IInv /\ [Next]_vars => IInv'
    BY NextIInv, VestingAssumption
<1> QED BY <1>1, <1>2, PTL DEF Spec

\* The state stays in range: no exit is ever locked by an underflow.
THEOREM TypeCorrect == Spec => []TypeOK
<1>1. IInv => TypeOK
    BY DEF IInv
<1> QED BY <1>1, InductiveInvariant, PTL

\* totalDeposited is the sum of what the unmatured positions are owed, whatever
\* the interleaving of deposits, callbacks, transfers and withdrawals.
THEOREM TotalIsSum == Spec => []TotalIsSumOfPositions
<1>1. IInv => TotalIsSumOfPositions
    BY DEF IInv
<1> QED BY <1>1, InductiveInvariant, PTL

\* The contract holds the dSTAKE of every unmatured position and of the deposit
\* inside its callback.
THEOREM Solvency == Spec => []Solvent
<1>1. IInv => Solvent
    BY DEF IInv
<1> QED BY <1>1, InductiveInvariant, PTL

\* Every NFT has a position and every position an NFT, outside a callback.
THEOREM PositionsMatchNFTs == Spec => []PositionMatchesNFT
<1>1. IInv => PositionMatchesNFT
    BY DEF IInv
<1> QED BY <1>1, InductiveInvariant, PTL

\* A matured NFT is soul-bound and its record is final. DepositRecord is the one
\* action that writes a position unconditionally; PendingIsFresh keeps it off a
\* matured one.
THEOREM MaturedNeverMoves == Spec => MaturedIsSoulBound
<1> DEFINE Step == \A t \in TokenIds : vestingPositions[t].matured =>
                       ownerOf'[t] = ownerOf[t] /\ vestingPositions'[t] = vestingPositions[t]
<1>1. IInv /\ [Next]_vars => [Step]_vars
  <2> SUFFICES ASSUME IInv, Next, NEW t \in TokenIds, vestingPositions[t].matured
               PROVE  ownerOf'[t] = ownerOf[t] /\ vestingPositions'[t] = vestingPositions[t]
      OBVIOUS
  <2> USE DEF config, positions, tokens
  <2>1. CASE \E user \in Users, amount \in Amounts : DepositMint(user, amount)
    <3>1. vestingPositions[tokenIdCounter].matured = FALSE \/ tokenIdCounter \notin TokenIds
        BY DEF IInv, UnusedIds, NoPosition, TypeOK, Position
    <3>2. t # tokenIdCounter
        BY <3>1
    <3> QED BY <2>1, <3>2 DEF DepositMint, IInv, TypeOK, Position
  <2>2. CASE DepositRecord
    <3>1. t # entered.tokenId
        BY <2>2 DEF DepositRecord, IInv, PendingIsFresh, nonReentrant, NoPosition
    <3> QED BY <2>2, <3>1 DEF DepositRecord, IInv, TypeOK, Position
  <2>3. CASE \E user \in Users, tokenId \in TokenIds : redeemEarly(user, tokenId)
      BY <2>3 DEF redeemEarly, Release, PayOut, IInv, TypeOK, Position
  <2>4. CASE \E user \in Users, tokenId \in TokenIds : withdrawMatured(user, tokenId)
      BY <2>4 DEF withdrawMatured, Release, PayOut, IInv, TypeOK, Position
  <2>5. CASE \E tokenId \in TokenIds, to \in Users : transferNFT(tokenId, to)
      BY <2>5 DEF transferNFT, Transferable, IInv, TypeOK, Position
  <2>6. CASE UNCHANGED <<vestingPositions, ownerOf>>
      BY <2>6
  <2> QED BY <2>1, <2>2, <2>3, <2>4, <2>5, <2>6
          DEF Next, Tick, setDepositsEnabled, setMaxTotalSupply, setMinDepositAmount, Donate
<1> QED BY <1>1, InductiveInvariant, PTL DEF Spec, MaturedIsSoulBound

\* The cap checked before the callback still holds after it: the guard keeps
\* every other call that moves the total out until the position is written.
THEOREM PendingFits == Spec => []PendingFitsCheckedCap
<1>1. IInv => PendingFitsCheckedCap
    BY DEF IInv
<1> QED BY <1>1, InductiveInvariant, PTL

\* dSTAKE leaves only for the holder of an unmatured position, by its amount,
\* and the position is settled for good.
THEOREM PayoutsSettle == Spec => PayoutSettlesOnePosition
<1> DEFINE Settled(t) == /\ held' = held - Owed(vestingPositions)[t]
                         /\ Owed(vestingPositions')[t] = 0
                         /\ dstakeOf' = [dstakeOf EXCEPT ![ownerOf[t]] = @ + (held - held')]
           Step == held' < held => \E t \in TokenIds : Settled(t)
<1>1. IInv /\ [Next]_vars => [Step]_vars
  <2> SUFFICES ASSUME IInv, Next, held' < held
               PROVE  \E t \in TokenIds : Settled(t)
      OBVIOUS
  <2> USE DEF config, positions, tokens
  <2>1. held \in Nat /\ Amounts \subseteq Nat
      BY VestingAssumption DEF IInv, TypeOK
  <2>2. CASE \E user \in Users, tokenId \in TokenIds : redeemEarly(user, tokenId)
    <3>1. PICK user \in Users, t \in TokenIds : redeemEarly(user, t)
        BY <2>2
    <3>2. vestingPositions[t].amount \in Nat /\ ~ vestingPositions[t].matured
        BY <3>1 DEF redeemEarly, IInv, TypeOK, Position
    <3>3. /\ vestingPositions' = [vestingPositions EXCEPT ![t] = NoPosition]
          /\ held' = held - vestingPositions[t].amount
          /\ dstakeOf' = [dstakeOf EXCEPT ![user] = @ + vestingPositions[t].amount]
          /\ ownerOf[t] = user
        BY <3>1 DEF redeemEarly, PayOut
    <3>4. Owed(vestingPositions)[t] = vestingPositions[t].amount
        BY <3>2 DEF Owed
    <3>5. vestingPositions'[t] = NoPosition
        BY <3>3 DEF IInv, TypeOK
    <3>6. Owed(vestingPositions')[t] = 0
        BY <3>5 DEF Owed, NoPosition
    <3>7. held - held' = vestingPositions[t].amount
        BY <2>1, <3>2, <3>3
    <3>8. dstakeOf' = [dstakeOf EXCEPT ![ownerOf[t]] = @ + (held - held')]
        BY <3>3, <3>7
    <3>9. Settled(t)
        BY <3>3, <3>4, <3>6, <3>8
    <3> QED BY <3>9
  <2>3. CASE \E user \in Users, tokenId \in TokenIds : withdrawMatured(user, tokenId)
    <3>1. PICK user \in Users, t \in TokenIds : withdrawMatured(user, t)
        BY <2>3
    <3>2. vestingPositions[t].amount \in Nat /\ ~ vestingPositions[t].matured
        BY <3>1 DEF withdrawMatured, IInv, TypeOK, Position
    <3>3. /\ vestingPositions' = [vestingPositions EXCEPT ![t] = Matured(@)]
          /\ held' = held - vestingPositions[t].amount
          /\ dstakeOf' = [dstakeOf EXCEPT ![user] = @ + vestingPositions[t].amount]
          /\ ownerOf[t] = user
        BY <3>1 DEF withdrawMatured, PayOut
    <3>4. Owed(vestingPositions)[t] = vestingPositions[t].amount
        BY <3>2 DEF Owed
    <3>5. vestingPositions'[t].matured
        BY <3>3 DEF IInv, TypeOK, Matured
    <3>6. Owed(vestingPositions')[t] = 0
        BY <3>5 DEF Owed
    <3>7. held - held' = vestingPositions[t].amount
        BY <2>1, <3>2, <3>3
    <3>8. dstakeOf' = [dstakeOf EXCEPT ![ownerOf[t]] = @ + (held - held')]
        BY <3>3, <3>7
    <3>9. Settled(t)
        BY <3>3, <3>4, <3>6, <3>8
    <3> QED BY <3>9
  <2>4. ~ (held' < held) \/ (\E user \in Users, tokenId \in TokenIds : redeemEarly(user, tokenId))
                         \/ (\E user \in Users, tokenId \in TokenIds : withdrawMatured(user, tokenId))
    <3>1. CASE \E user \in Users, amount \in Amounts : DepositMint(user, amount)
        BY <2>1, <3>1 DEF DepositMint
    <3>2. CASE \E user \in Users, amount \in Amounts : Donate(user, amount)
        BY <2>1, <3>2 DEF Donate
    <3>3. CASE UNCHANGED held
        BY <2>1, <3>3
    <3> QED BY <3>1, <3>2, <3>3
            DEF Next, Tick, DepositRecord, transferNFT, setDepositsEnabled,
                setMaxTotalSupply, setMinDepositAmount
  <2> QED BY <2>1, <2>2, <2>3, <2>4
<1> QED BY <1>1, InductiveInvariant, PTL DEF Spec, PayoutSettlesOnePosition

\* Early exit and matured withdrawal are never open together: once the period is
\* over the NFT stays and its amount is kept on record.
THEOREM VestedStays == Spec => VestedNeverBurned
<1> DEFINE Kept(t) == ownerOf'[t] # NoOwner
                      /\ vestingPositions'[t].amount = vestingPositions[t].amount
           Step == \A t \in TokenIds : isVestingComplete(t) => Kept(t)
<1>1. IInv /\ [Next]_vars => [Step]_vars
  <2> SUFFICES ASSUME IInv, Next, NEW t \in TokenIds, isVestingComplete(t)
               PROVE  Kept(t)
      OBVIOUS
  <2> USE DEF config, positions, tokens
  <2>1. vestingPositions[t].amount > 0 /\ ~ StillVesting(t)
      BY VestingAssumption
      DEF isVestingComplete, tokenExists, StillVesting, VestingEnd, IInv, TypeOK, Position
  <2>2. ownerOf[t] # NoOwner
      BY <2>1 DEF isVestingComplete, IInv, PositionMatchesNFT
  <2>3. CASE \E user \in Users, amount \in Amounts : DepositMint(user, amount)
    <3>1. t # tokenIdCounter
        BY <2>2 DEF IInv, UnusedIds, TypeOK, TokenIds
    <3> QED BY <2>2, <2>3, <3>1 DEF DepositMint, IInv, TypeOK, Position
  <2>4. CASE DepositRecord
    <3>1. t # entered.tokenId
        BY <2>1, <2>4 DEF DepositRecord, IInv, PendingIsFresh, NoPosition
    <3> QED BY <2>2, <2>4, <3>1 DEF DepositRecord, IInv, TypeOK, Position
  <2>5. CASE \E user \in Users, tokenId \in TokenIds : redeemEarly(user, tokenId)
    <3>1. PICK user \in Users, i \in TokenIds : redeemEarly(user, i)
        BY <2>5
    <3>2. i # t
        BY <2>1, <3>1 DEF redeemEarly
    <3> QED BY <2>2, <3>1, <3>2 DEF redeemEarly, IInv, TypeOK, Position
  <2>6. CASE \E user \in Users, tokenId \in TokenIds : withdrawMatured(user, tokenId)
      BY <2>2, <2>6 DEF withdrawMatured, Matured, IInv, TypeOK, Position
  <2>7. CASE \E tokenId \in TokenIds, to \in Users : transferNFT(tokenId, to)
      BY <2>2, <2>7, VestingAssumption DEF transferNFT, IInv, TypeOK, Position
  <2>8. CASE UNCHANGED <<vestingPositions, ownerOf>>
      BY <2>2, <2>8
  <2> QED BY <2>3, <2>4, <2>5, <2>6, <2>7, <2>8
          DEF Next, Tick, setDepositsEnabled, setMaxTotalSupply, setMinDepositAmount, Donate
<1> QED BY <1>1, InductiveInvariant, PTL DEF Spec, VestedNeverBurned
=============================================================================
