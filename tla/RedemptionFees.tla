--------------------------- MODULE RedemptionFees ---------------------------
(***************************************************************************)
(* What the admins said about redemption fees, as a history beside the     *)
(* dSTABLE system: the default, and for each asset a rate of its own or    *)
(* none. RedeemerV2 keeps a rate and a flag per asset instead; a redeemer  *)
(* goes by what was said last.                                             *)
(***************************************************************************)
EXTENDS DStable

VARIABLE said   \* [default, own]: own[a] holds the rate of a, or nothing

SaidInit == said = [default |-> InitialFeeBps, own |-> [a \in Assets |-> {}]]

\* The steps of Fees, each with what it says.
FeesAreSaid ==
    \/ \E acct \in Accounts : setFeeReceiver(acct) /\ UNCHANGED said
    \/ \E bps \in 0..OneHundredPercentBps :
          \/ setDefaultRedemptionFee(bps) /\ said' = [said EXCEPT !.default = bps]
          \/ \E a \in Assets :
                /\ setCollateralRedemptionFee(a, bps)
                /\ said' = [said EXCEPT !.own[a] = {bps}]
    \/ \E a \in Assets :
          /\ clearCollateralRedemptionFee(a)
          /\ said' = [said EXCEPT !.own[a] = {}]

SaysNothing ==
    \/ Users \/ FlashLoans \/ AmoSteps \/ IssuerSteps \/ Exchanges \/ Trades
    \/ Listing \/ PriceMoves \/ Pauses

HistoryNext == FeesAreSaid \/ (SaysNothing /\ UNCHANGED said)

HistorySpec == Init /\ SaidInit /\ [][HistoryNext]_<<vars, said>>

-----------------------------------------------------------------------------
AgreedBps(a) == IF said.own[a] = {} THEN {said.default} ELSE said.own[a]

Left(a) == vaultBalance[a] - vaultBalance'[a]
Paid(acct, a) == collateralOf'[acct][a] - collateralOf[acct][a]
Kept(acct, a) == Left(a) - Paid(acct, a)

AgreedFees(a) == {mulDiv(Left(a), bps, OneHundredPercentBps) : bps \in AgreedBps(a)}

\* Some step burns dStable and takes collateral out of the vault.
RedeemedAt(acct, a, dstableAmount) ==
    /\ dstableAmount > 0
    /\ dstableOf'[acct] = dstableOf[acct] - dstableAmount
    /\ totalSupply' = totalSupply - dstableAmount
    /\ vaultBalance'[a] < vaultBalance[a]

\* Through any history of defaults, overrides (of 0 too) and clearings: whoever
\* redeems, with a fee or as the protocol, and be he the fee receiver, loses of
\* what leaves the vault nothing or the fee that was said last, which is within
\* MaxFeeBps; and redeem costs everybody but the fee receiver exactly that fee.
RedeemerGetsHisShare ==
    [][\A acct \in Accounts, a \in Assets, dstableAmount \in Amounts :
          /\ RedeemedAt(acct, a, dstableAmount) =>
                /\ Kept(acct, a) \in {0} \cup AgreedFees(a)
                /\ Kept(acct, a) * OneHundredPercentBps <= Left(a) * MaxFeeBps
          /\ \A min \in MinAmounts :
                redeem(acct, dstableAmount, a, min) /\ acct # feeReceiver
                   => Kept(acct, a) \in AgreedFees(a)]_vars
=============================================================================
