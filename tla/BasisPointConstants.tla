------------------------ MODULE BasisPointConstants ------------------------
(* contracts/common/BasisPointConstants.sol: the scale of all shares.        *)
EXTENDS Arithmetic

CONSTANT OneHundredPercentBps

ASSUME BpsAssumption == OneHundredPercentBps \in Nat \ {0}
=============================================================================
