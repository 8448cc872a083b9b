---------------------------- MODULE DStableToken ----------------------------
(***************************************************************************)
(* contracts/dstable/ERC20StablecoinUpgradeable.sol: the stablecoin, with  *)
(* its pause switch and its flash mint. A flash loan is two steps around   *)
(* the borrower's callback, in which any other call may run on a supply    *)
(* that is inflated by the loan.                                           *)
(***************************************************************************)
EXTENDS Integers, AccountNumbers

CONSTANTS
    dstableUnit,    \* 10^dstableDecimals
    FlashAmounts    \* sizes of flash loans

ASSUME TokenAssumption ==
    /\ dstableUnit \in Nat \ {0}
    /\ FlashAmounts \subseteq Nat

VARIABLES
    dstableOf,      \* balances
    totalSupply,
    tokenPaused,
    flash           \* the outstanding flash loan: borrower and amount

tokenVars == <<dstableOf, totalSupply, tokenPaused, flash>>

NoFlash == [borrower |-> 0, amount |-> 0]   \* 0 is no account

\* Every mint, burn and transfer passes _update, which is whenNotPaused.
Mint(to, amount) ==
    /\ ~ tokenPaused
    /\ totalSupply + amount <= MaxUint
    /\ dstableOf' = Credit(dstableOf, to, amount)
    /\ totalSupply' = totalSupply + amount

BurnUnchecked(from, amount) ==
    /\ ~ tokenPaused
    /\ dstableOf' = Debit(dstableOf, from, amount)
    /\ totalSupply' = totalSupply - amount

\* transferFrom(from, burner) and burn by the burner, or burn by the holder.
Burn(from, amount) ==
    /\ ~ tokenPaused
    /\ dstableOf[from] >= amount
    /\ dstableOf' = Debit(dstableOf, from, amount)
    /\ totalSupply' = totalSupply - amount

MoveFromCache(from, to, amount) ==
    /\ ~ tokenPaused
    /\ dstableOf[from] >= amount
    /\ dstableOf' = [Debit(dstableOf, from, amount) EXCEPT ![to] = dstableOf[to] + amount]
    /\ UNCHANGED totalSupply
Move(from, to, amount) ==
    /\ ~ tokenPaused
    /\ dstableOf[from] >= amount
    /\ dstableOf' = Credit(Debit(dstableOf, from, amount), to, amount)
    /\ UNCHANGED totalSupply

TokenInit ==
    /\ dstableOf = [h \in Accounts |-> 0]
    /\ totalSupply = 0
    /\ tokenPaused = FALSE
    /\ flash = NoFlash

tokenTransfer(from, to, amount) ==
    /\ Move(from, to, amount)
    /\ UNCHANGED <<tokenPaused, flash>>

\* ERC20Burnable.burn by a holder.
tokenBurn(from, amount) ==
    /\ Burn(from, amount)
    /\ UNCHANGED <<tokenPaused, flash>>

\* flashLoan up to the call of onFlashLoan, and after it. The fee is zero. Nested
\* loans add up and are left to the amounts.
flashLoan(borrower, amount) ==
    /\ flash = NoFlash
    /\ Mint(borrower, amount)
    /\ flash' = [borrower |-> borrower, amount |-> amount]
    /\ UNCHANGED tokenPaused

flashRepay ==
    /\ flash # NoFlash
    /\ Burn(flash.borrower, flash.amount)
    /\ flash' = NoFlash
    /\ UNCHANGED tokenPaused

setTokenPaused(paused) ==
    /\ tokenPaused # paused
    /\ tokenPaused' = paused
    /\ UNCHANGED <<dstableOf, totalSupply, flash>>

TokenTypeOK ==
    /\ dstableOf \in [Accounts -> Nat]
    /\ totalSupply \in Nat
    /\ tokenPaused \in BOOLEAN
    /\ flash \in {NoFlash} \cup [borrower : Accounts, amount : Nat]
=============================================================================
