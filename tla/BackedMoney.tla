----------------------------- MODULE BackedMoney -----------------------------
(***************************************************************************)
(* What a dStable promises, without vaults, roles or rounding of single    *)
(* conversions. Values are exact multiples of one common unit:             *)
(*   reserve    the collateral that counts towards the backing,            *)
(*   issued     the supply, without the AMO manager's own tokens,          *)
(*   allocated  the part of issued that is not backed yet: it is lent to   *)
(*              AMO venues,                                                *)
(*   valuation  whatever turns collateral into reserve.                    *)
(* No step of a user or a venue may make reserve fall behind what is owed  *)
(* to holders, issued - allocated; only a change of the valuation can.     *)
(***************************************************************************)
EXTENDS Integers

CONSTANT Dust   \* value a transfer to a venue may lose to rounding

VARIABLES reserve, issued, allocated, valuation

vars == <<reserve, issued, allocated, valuation>>

Owed == issued - allocated

Init == reserve = 0 /\ issued = 0 /\ allocated = 0

\* Issue, redeem, donate, exchange, burn: owed never outgrows the reserve.
Settle ==
    /\ UNCHANGED <<allocated, valuation>>
    /\ issued' - issued <= reserve' - reserve

\* Money may be issued for nothing only as far as the reserve exceeds what is owed.
MintExcess ==
    /\ UNCHANGED <<reserve, allocated, valuation>>
    /\ issued' >= issued
    /\ Owed' <= reserve

\* Money goes to a venue or comes back.
Lend ==
    /\ UNCHANGED <<reserve, valuation>>
    /\ Owed' = Owed

\* Reserve goes to a venue, which then owes as much.
FundVenue ==
    /\ UNCHANGED <<issued, valuation>>
    /\ reserve' <= reserve
    /\ reserve - reserve' < allocated' - allocated + Dust

\* A venue pays in reserve, and its money counts as backed from then on...
SettleVenue ==
    /\ UNCHANGED <<issued, valuation>>
    /\ 0 <= allocated - allocated'
    /\ allocated - allocated' <= reserve' - reserve

\* ...or it pays in an asset that is not reserve: never more than was lent.
SettleVenueOffList ==
    /\ UNCHANGED <<reserve, issued, valuation>>
    /\ 0 <= allocated' /\ allocated' <= allocated

Revalue ==
    /\ valuation' # valuation
    /\ UNCHANGED <<issued, allocated>>

Next ==
    \/ Settle \/ MintExcess \/ Lend
    \/ FundVenue \/ SettleVenue \/ SettleVenueOffList \/ Revalue

Spec == Init /\ [][Next]_vars
=============================================================================
