--------------------------- MODULE AccountNumbers ---------------------------
(* Addresses that hold tokens, numbered so that their balances can be summed, *)
(* and the size of a uint256, which every checked addition is bound by.       *)
EXTENDS Integers

CONSTANTS
    NumAccounts,
    MaxUint       \* type(uint256).max; small in the model, and its only bound

Accounts == 1..NumAccounts

ASSUME AccountAssumption == NumAccounts \in Nat /\ MaxUint \in Nat

(* Balances: one entry of a function moved by n. *)

Credit(balances, x, n) == [balances EXCEPT ![x] = @ + n]
Debit(balances, x, n) == [balances EXCEPT ![x] = @ - n]

\* The same in the balances that one account keeps of several assets.
CreditAsset(balances, acct, a, n) ==
    [balances EXCEPT ![acct] = Credit(balances[acct], a, n)]
DebitAsset(balances, acct, a, n) ==
    [balances EXCEPT ![acct] = Debit(balances[acct], a, n)]
=============================================================================
