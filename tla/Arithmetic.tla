----------------------------- MODULE Arithmetic -----------------------------
(***************************************************************************)
(* What the contracts compute with: the quotients of OpenZeppelin's        *)
(* Math.mulDiv, which every value conversion of the protocol goes through, *)
(* and the sums that their counters keep.                                  *)
(***************************************************************************)
EXTENDS Integers

(* The exact product, divided and rounded down (or up).                    *)
mulDiv(x, y, denominator) == (x * y) \div denominator
mulDivUp(x, y, denominator) == (x * y + denominator - 1) \div denominator

(* Sums of a function over 1..n, as a running total.  The contracts keep   *)
(* one counter beside many entries (totalDeposited beside the vesting      *)
(* positions, totalAllocated beside the AMO allocations, totalSupply       *)
(* beside the balances); the invariants say that the counter is the sum.   *)
(* A recursive function, not a RECURSIVE operator, so that the proofs of   *)
(* ArithmeticProofs can reason about it.                                   *)

\* running[i] is f[1] + ... + f[i].
Running(f, n) ==
    LET running[i \in 0..n] == IF i = 0 THEN 0 ELSE running[i-1] + f[i]
    IN  running

SumTo(f, n) == Running(f, n)[n]
=============================================================================
