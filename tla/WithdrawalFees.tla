--------------------------- MODULE WithdrawalFees ---------------------------
(***************************************************************************)
(* The two fee libraries of the vaults: WithdrawalFeeMath (dLOOP) and      *)
(* SupportsWithdrawalFee (dSTAKE, dPOOL). A fee is a share of the gross    *)
(* amount, in basis points, rounded down.                                  *)
(***************************************************************************)
EXTENDS BasisPointConstants

(* contracts/common/WithdrawalFeeMath.sol *)

calculateWithdrawalFee(grossAmount, feeBps) ==
    IF feeBps >= OneHundredPercentBps THEN grossAmount
    ELSE mulDiv(grossAmount, feeBps, OneHundredPercentBps)

netAfterFee(grossAmount, feeBps) ==
    grossAmount - calculateWithdrawalFee(grossAmount, feeBps)

\* The quotient is rounded up, and one less taken where that is enough.
grossRoundedUp(netAmount, feeBps) ==
    mulDivUp(netAmount, OneHundredPercentBps, OneHundredPercentBps - feeBps)
grossFromNet(netAmount, feeBps) ==
    IF netAmount = 0 \/ feeBps = 0 THEN netAmount
    ELSE LET gross == grossRoundedUp(netAmount, feeBps)
         IN  IF netAfterFee(gross - 1, feeBps) >= netAmount THEN gross - 1 ELSE gross

(* contracts/common/SupportsWithdrawalFee.sol *)

supportedFee(assetAmount, feeBps) == mulDiv(assetAmount, feeBps, OneHundredPercentBps)
supportedNet(grossAmount, feeBps) == grossAmount - supportedFee(grossAmount, feeBps)
grossIgnoringFee(netAmount, feeBps) == netAmount + supportedFee(netAmount, feeBps)
supportedGross(netAmount, feeBps) ==
    mulDiv(netAmount, OneHundredPercentBps, OneHundredPercentBps - feeBps)
=============================================================================
