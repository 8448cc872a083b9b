------------------------------ MODULE MCDLoop ------------------------------
(* Instances of DLoopCore for TLC: the vault itself on small amounts, and beside *)
(* it the arithmetic on many inputs, of its quotes and of the fee libraries.     *)
EXTENDS DLoopCore, MCWithdrawalFees

(* DLoopQuoter: what a rebalancing service is told to bring. The positions   *)
(* are so large that a base unit moves no leverage by a whole basis point,   *)
(* as with the eight decimals of the oracle.                                 *)

CONSTANTS QuotedCollaterals, MaxQuotedDebt

VARIABLE part   \* what a behaviour explores

MCnetFees == 0..30

QuoteInit ==
    /\ collateral \in QuotedCollaterals /\ debt \in 0..MaxQuotedDebt
    /\ collateralPrice \in CollateralPrices /\ debtPrice \in DebtPrices
    /\ sharesOf = [h \in Holders |-> 0] /\ totalShares = 0
    /\ lowerBoundTargetLeverageBps = InitialLowerBound
    /\ upperBoundTargetLeverageBps = InitialUpperBound
    /\ maxSubsidyBps \in Subsidies \ {0} /\ minDeviationBps \in Deviations
    /\ withdrawalFeeBps = 0 /\ paused = FALSE

\* The fee libraries are tried beside a position that has no debt to quote for.
ArithmeticInit ==
    /\ QuoteInit
    /\ IF debt = 0 /\ \A c \in QuotedCollaterals : collateral <= c
       THEN FeesInit ELSE net = 0 /\ fee = 0
DLoopInit ==
    \/ part = "vault" /\ Init /\ net = 0 /\ fee = 0
    \/ part = "arithmetic" /\ ArithmeticInit
DLoopNext ==
    /\ \/ part = "vault" /\ Next /\ UNCHANGED <<net, fee>>
       \/ part = "arithmetic" /\ FeesNext /\ UNCHANGED vars
    /\ UNCHANGED part
DLoopSpec == DLoopInit /\ [][DLoopNext]_<<vars, net, fee, part>>

QuoteSpec ==
    /\ part = "arithmetic" /\ QuoteInit /\ net = 0 /\ fee = 0
    /\ [][FeesNext /\ UNCHANGED <<vars, part>>]_<<vars, net, fee, part>>

\* DLoopCoreLogic.sol: repaying the quoted debt is guaranteed not to take the
\* leverage below the target, and so not to revert.
QuotedDecreaseStopsAtTarget ==
    LET withdrawn == withdrawnFor(quotedDebt)
    IN  (/\ HasQuote /\ currentLeverageBps > TargetLeverageBps
         /\ repayDenominator(TargetLeverageBps, currentSubsidyBps) > 0
         /\ withdrawn <= collateral /\ quotedDebt <= debt) =>
            leverageOf(collateral - withdrawn, debt - quotedDebt) >= TargetLeverageBps
=============================================================================
