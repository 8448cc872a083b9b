--------------------------- MODULE ERC20VestingNFT ---------------------------
(***************************************************************************)
(* contracts/vaults/vesting/ERC20VestingNFT.sol: dSTAKE locked for a        *)
(* vesting period against an ERC721 position.                              *)
(*                                                                         *)
(* One action per external function.  deposit is two actions, because      *)
(* _safeMint hands control to the receiver (onERC721Received) after the    *)
(* tokens moved and the NFT exists, and before the position and the        *)
(* counter are written: everything nonReentrant is locked in between, the  *)
(* ERC721 transfer and the owner's setters are not.  A callback that       *)
(* reverts undoes the whole call and is a behaviour in which it never was. *)
(***************************************************************************)
EXTENDS Integers, FiniteSets, Arithmetic

CONSTANTS
    Users,            \* accounts that hold dSTAKE and vesting NFTs
    NoOwner,          \* the zero address
    vestingPeriod,    \* immutable, in units of the clock
    MaxTokenId,       \* bound: token ids are 1..MaxTokenId
    MaxTime,          \* bound on the clock
    Amounts,          \* amounts callers pass
    Limits,           \* values the owner gives the cap and the minimum
    InitialDStake     \* dSTAKE each user starts with

ASSUME VestingAssumption ==
    /\ NoOwner \notin Users
    /\ vestingPeriod \in Nat \ {0}
    /\ MaxTokenId \in Nat
    /\ MaxTime \in Nat
    /\ Amounts \subseteq Nat
    /\ Limits \subseteq Nat
    /\ InitialDStake \in Nat

TokenIds == 1..MaxTokenId

\* struct VestingPosition
Position == [amount : Nat, depositTime : Nat, matured : BOOLEAN]

NoPosition == [amount |-> 0, depositTime |-> 0, matured |-> FALSE]

\* No deposit is waiting for onERC721Received to return.
NotEntered == [tokenId |-> 0, amount |-> 0, checkedCap |-> 0]

VARIABLES
    now,               \* block.timestamp
    depositsEnabled,
    maxTotalSupply,
    minDepositAmount,
    totalDeposited,
    tokenIdCounter,    \* _tokenIdCounter
    vestingPositions,  \* tokenId -> position; NoPosition where unset
    ownerOf,           \* tokenId -> holder of the NFT, NoOwner where unminted
    dstakeOf,          \* dSTAKE held by each user
    held,              \* dSTAKE held by the contract
    entered            \* the deposit inside its callback, or NotEntered

config == <<depositsEnabled, maxTotalSupply, minDepositAmount>>
positions == <<totalDeposited, tokenIdCounter, vestingPositions, ownerOf>>
tokens == <<dstakeOf, held>>
vars == <<now, config, positions, tokens, entered>>

-----------------------------------------------------------------------------
(* Helpers *)

NoGuard == TRUE

\* nonReentrant: the guard of deposit, redeemEarly and withdrawMatured.
nonReentrant == entered = NotEntered

\* Positions are told apart from unset ones by their amount.
tokenExists(tokenId) == vestingPositions[tokenId].amount > 0

VestingEnd(tokenId) == vestingPositions[tokenId].depositTime + vestingPeriod

isVestingComplete(tokenId) == tokenExists(tokenId) /\ now >= VestingEnd(tokenId)

StillVestingAtEnd(tokenId) == now <= VestingEnd(tokenId)
StillVesting(tokenId) == now < VestingEnd(tokenId)

WithinCapBefore(amount) == totalDeposited <= maxTotalSupply
WithinCap(amount) == totalDeposited + amount <= maxTotalSupply

UnboundedTransfer(tokenId) == TRUE
Transferable(tokenId) == ~ vestingPositions[tokenId].matured

NotMarked(position) == position
Matured(position) ==
    [amount |-> position.amount, depositTime |-> position.depositTime, matured |-> TRUE]

\* The subtraction is checked in Solidity: that it never underflows, and so never
\* locks a position, is totalDeposited \in Nat of TypeOK.
ReleaseKeepsTotal(amount) == UNCHANGED totalDeposited
Release(amount) == totalDeposited' = totalDeposited - amount

\* safeTransfer of dSTAKE from the contract to a holder.
PayOut(user, amount) ==
    /\ held' = held - amount
    /\ dstakeOf' = [dstakeOf EXCEPT ![user] = @ + amount]

\* What the contract still owes for a token.
Owed(positionOf) ==
    [t \in TokenIds |-> IF positionOf[t].matured THEN 0 ELSE positionOf[t].amount]

-----------------------------------------------------------------------------
Init ==
    /\ now = 0
    /\ depositsEnabled = TRUE
    /\ maxTotalSupply \in Limits \ {0}
    /\ minDepositAmount \in Limits
    /\ totalDeposited = 0
    /\ tokenIdCounter = 1
    /\ vestingPositions = [t \in TokenIds |-> NoPosition]
    /\ ownerOf = [t \in TokenIds |-> NoOwner]
    /\ dstakeOf = [u \in Users |-> InitialDStake]
    /\ held = 0
    /\ entered = NotEntered

\* Time passes between transactions only.
Tick ==
    /\ nonReentrant
    /\ now < MaxTime
    /\ now' = now + 1
    /\ UNCHANGED <<config, positions, tokens, entered>>

\* deposit up to the call of onERC721Received.
DepositMint(user, amount) ==
    /\ nonReentrant
    /\ amount > 0
    /\ depositsEnabled
    /\ amount >= minDepositAmount
    /\ WithinCap(amount)
    /\ dstakeOf[user] >= amount
    /\ tokenIdCounter \in TokenIds
    /\ dstakeOf' = [dstakeOf EXCEPT ![user] = @ - amount]
    /\ held' = held + amount
    /\ ownerOf' = [ownerOf EXCEPT ![tokenIdCounter] = user]
    /\ tokenIdCounter' = tokenIdCounter + 1
    /\ entered' = [tokenId |-> tokenIdCounter, amount |-> amount,
                   checkedCap |-> maxTotalSupply]
    /\ UNCHANGED <<now, config, totalDeposited, vestingPositions>>

\* deposit after onERC721Received returned.
DepositRecord ==
    /\ entered # NotEntered
    /\ vestingPositions' = [vestingPositions EXCEPT ![entered.tokenId] =
           [amount |-> entered.amount, depositTime |-> now, matured |-> FALSE]]
    /\ totalDeposited' = totalDeposited + entered.amount
    /\ entered' = NotEntered
    /\ UNCHANGED <<now, config, tokenIdCounter, ownerOf, tokens>>

redeemEarly(user, tokenId) ==
    /\ nonReentrant
    /\ tokenExists(tokenId)
    /\ ownerOf[tokenId] = user
    /\ ~ vestingPositions[tokenId].matured
    /\ StillVesting(tokenId)
    /\ vestingPositions' = [vestingPositions EXCEPT ![tokenId] = NoPosition]
    /\ ownerOf' = [ownerOf EXCEPT ![tokenId] = NoOwner]
    /\ Release(vestingPositions[tokenId].amount)
    /\ PayOut(user, vestingPositions[tokenId].amount)
    /\ UNCHANGED <<now, config, tokenIdCounter, entered>>

withdrawMatured(user, tokenId) ==
    /\ nonReentrant
    /\ tokenExists(tokenId)
    /\ ownerOf[tokenId] = user
    /\ ~ vestingPositions[tokenId].matured
    /\ now >= VestingEnd(tokenId)
    /\ vestingPositions' = [vestingPositions EXCEPT ![tokenId] = Matured(@)]
    /\ Release(vestingPositions[tokenId].amount)
    /\ PayOut(user, vestingPositions[tokenId].amount)
    /\ UNCHANGED <<now, config, tokenIdCounter, ownerOf, entered>>

\* ERC721 transferFrom by the holder or an approved account, through _update.
\* It has no reentrancy guard.
transferNFT(tokenId, to) ==
    /\ ownerOf[tokenId] # NoOwner
    /\ Transferable(tokenId)
    /\ ownerOf' = [ownerOf EXCEPT ![tokenId] = to]
    /\ UNCHANGED <<now, config, totalDeposited, tokenIdCounter, vestingPositions,
                   tokens, entered>>

\* The owner's setters, callable inside a callback as well.
setDepositsEnabled(enabled) ==
    /\ depositsEnabled' = enabled
    /\ UNCHANGED <<now, maxTotalSupply, minDepositAmount, positions, tokens, entered>>

setMaxTotalSupply(newMaxSupply) ==
    /\ maxTotalSupply' = newMaxSupply
    /\ UNCHANGED <<now, depositsEnabled, minDepositAmount, positions, tokens, entered>>

setMinDepositAmount(newMinDepositAmount) ==
    /\ minDepositAmount' = newMinDepositAmount
    /\ UNCHANGED <<now, depositsEnabled, maxTotalSupply, positions, tokens, entered>>

\* Anybody may send dSTAKE straight to the contract: an ERC20 transfer.
Donate(user, amount) ==
    /\ dstakeOf[user] >= amount
    /\ dstakeOf' = [dstakeOf EXCEPT ![user] = @ - amount]
    /\ held' = held + amount
    /\ UNCHANGED <<now, config, positions, entered>>

Next ==
    \/ Tick
    \/ \E user \in Users, amount \in Amounts : DepositMint(user, amount)
    \/ DepositRecord
    \/ \E user \in Users, tokenId \in TokenIds : redeemEarly(user, tokenId)
    \/ \E user \in Users, tokenId \in TokenIds : withdrawMatured(user, tokenId)
    \/ \E tokenId \in TokenIds, to \in Users : transferNFT(tokenId, to)
    \/ \E enabled \in BOOLEAN : setDepositsEnabled(enabled)
    \/ \E limit \in Limits : setMaxTotalSupply(limit)
    \/ \E limit \in Limits : setMinDepositAmount(limit)
    \/ \E user \in Users, amount \in Amounts : Donate(user, amount)

\* No fairness: holders are not bound to come back.
Spec == Init /\ [][Next]_vars

-----------------------------------------------------------------------------
(* Properties *)

\* Every state component is in its range. That totalDeposited and held stay natural
\* is what keeps the checked subtractions of the exits from reverting.
TypeOK ==
    /\ now \in Nat
    /\ depositsEnabled \in BOOLEAN
    /\ maxTotalSupply \in Nat
    /\ minDepositAmount \in Nat
    /\ totalDeposited \in Nat
    /\ tokenIdCounter \in 1..(MaxTokenId + 1)
    /\ vestingPositions \in [TokenIds -> Position]
    /\ ownerOf \in [TokenIds -> Users \cup {NoOwner}]
    /\ dstakeOf \in [Users -> Nat]
    /\ held \in Nat
    /\ entered \in [tokenId : 0..MaxTokenId, amount : Nat, checkedCap : Nat]

\* The counter the cap is enforced on is the sum of what unmatured positions are
\* owed: a position recorded twice, released twice or lost would part them.
TotalIsSumOfPositions == totalDeposited = SumTo(Owed(vestingPositions), MaxTokenId)

\* The contract can always pay every unmatured position, and holds the tokens of
\* a deposit whose position is not written yet on top of that.
Solvent == held >= totalDeposited + entered.amount

\* A position and its NFT live and die together; only the NFT of the deposit
\* inside its callback is without a position.
PositionMatchesNFT ==
    \A t \in TokenIds :
        (ownerOf[t] # NoOwner) <=> (tokenExists(t) \/ t = entered.tokenId)

\* The cap checked before the callback still admits the deposit when it is added
\* after the callback: nothing raised the total in between.
PendingFitsCheckedCap ==
    entered # NotEntered => totalDeposited + entered.amount <= entered.checkedCap

\* dSTAKE leaves the contract only by settling one position: its holder receives
\* exactly its amount and the position is never owed again.
PayoutSettlesOnePosition ==
    [][held' < held =>
         \E t \in TokenIds :
             /\ held' = held - Owed(vestingPositions)[t]
             /\ Owed(vestingPositions')[t] = 0
             /\ dstakeOf' = [dstakeOf EXCEPT ![ownerOf[t]] = @ + (held - held')]]_vars

\* A matured NFT is soul-bound: its holder and its record never change again.
MaturedIsSoulBound ==
    [][\A t \in TokenIds : vestingPositions[t].matured =>
         ownerOf'[t] = ownerOf[t] /\ vestingPositions'[t] = vestingPositions[t]]_vars

\* Once the vesting period is over the NFT can no longer be burned: the early exit
\* is closed and the matured withdrawal keeps the token.
VestedNeverBurned ==
    [][\A t \in TokenIds : isVestingComplete(t) =>
         ownerOf'[t] # NoOwner /\ vestingPositions'[t].amount = vestingPositions[t].amount]_vars
=============================================================================
