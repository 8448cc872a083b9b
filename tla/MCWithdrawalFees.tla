-------------------------- MODULE MCWithdrawalFees --------------------------
(* The fee libraries on every amount and fee up to a bound; MCDLoop checks   *)
(* them.                                                                     *)
EXTENDS WithdrawalFees

CONSTANTS MaxNet, NetFees

ASSUME FeesAssumption == MaxNet \in Nat /\ NetFees \subseteq 0..(OneHundredPercentBps - 1)

VARIABLES net, fee

FeesInit == net \in 0..MaxNet /\ fee \in NetFees
FeesNext == UNCHANGED <<net, fee>>
FeesSpec == FeesInit /\ [][FeesNext]_<<net, fee>>

\* A withdrawal of a net amount burns shares for the gross amount: the fee taken
\* from that leaves exactly the net amount, in both libraries. Though one rounds
\* the gross amount down, its rounded fee gives back what was lost.
GrossPaysNet ==
    /\ netAfterFee(grossFromNet(net, fee), fee) = net
    /\ supportedNet(supportedGross(net, fee), fee) = net

\* dLOOP's correction by one never asks for more than the other library, and
\* with the fees that are allowed comes within one of the least amount.
GrossIsTight ==
    /\ grossFromNet(net, fee) <= supportedGross(net, fee)
    /\ net > 1 => netAfterFee(grossFromNet(net, fee) - 2, fee) < net
=============================================================================
