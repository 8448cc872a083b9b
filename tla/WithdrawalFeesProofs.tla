------------------------ MODULE WithdrawalFeesProofs ------------------------
(***************************************************************************)
(* For every scale, fee below it and net amount: the gross amount of       *)
(* either library pays the net amount, no more and no less, and dLOOP's is *)
(* nearly the least that does.                                             *)
(***************************************************************************)
EXTENDS MCWithdrawalFees, ArithmeticProofs

\* SupportsWithdrawalFee: the rounded-down gross amount pays the net amount.
LEMMA SupportedGrossPays ==
    ASSUME BpsAssumption, NEW n \in Nat, NEW f \in 0..(OneHundredPercentBps - 1)
    PROVE  supportedNet(supportedGross(n, f), f) = n
BY GrossLeavesNet DEF BpsAssumption, supportedNet, supportedGross, supportedFee

\* WithdrawalFeeMath: with a fee the rounded-up gross amount is always one more
\* than needed, and the correction applies.
LEMMA CorrectionApplies ==
    ASSUME BpsAssumption, NEW n \in Nat \ {0}, NEW f \in 1..(OneHundredPercentBps - 1)
    PROVE  /\ grossFromNet(n, f) = grossRoundedUp(n, f) - 1
           /\ grossFromNet(n, f) \in Nat /\ n <= grossFromNet(n, f)
           /\ grossFromNet(n, f) * (OneHundredPercentBps - f) <= n * OneHundredPercentBps
           /\ netAfterFee(grossFromNet(n, f), f) = n
<1> DEFINE S == OneHundredPercentBps
           g == grossRoundedUp(n, f)
<1>1. S \in Nat \ {0} /\ f \in Nat \ {0} /\ f < S /\ S - f \in Nat \ {0} /\ n \in Nat
    BY DEF BpsAssumption
<1>2. g \in Nat /\ n * S <= g * (S - f) /\ g * (S - f) < n * S + (S - f)
    BY <1>1, MulDivUpBounds DEF grossRoundedUp
<1>3. \A x : netAfterFee(x, f) = x - mulDiv(x, f, S)
    BY <1>1 DEF netAfterFee, calculateWithdrawalFee
<1> HIDE DEF g, S
<1>4. n * S \in Nat /\ (n - 1) * S = n * S - S
    BY <1>1
<1>5. n * (S - f) < n * S
  <2>1. n * (S - f) = n * S - n * f /\ n * f \in Nat /\ n * f # 0
      BY <1>1
  <2> QED BY <1>4, <2>1
<1>6. n < g
  <2>1. n * (S - f) < g * (S - f)
      BY <1>1, <1>2, <1>4, <1>5, ProductNat
  <2> QED BY <1>1, <1>2, <2>1
<1>7. g - 1 \in Nat /\ n <= g - 1
    BY <1>2, <1>6
<1>8. (g - 1) * (S - f) = g * (S - f) - (S - f) /\ g * (S - f) \in Nat
    BY <1>1, <1>2
<1>9. (g - 1) * (S - f) <= n * S /\ (n - 1) * S < (g - 1) * (S - f)
    BY <1>1, <1>2, <1>4, <1>8
<1>10. (g - 1) - mulDiv(g - 1, f, S) = n
    BY <1>1, <1>7, <1>9, NetIs
<1>11. grossFromNet(n, f) = g - 1
    BY <1>1, <1>3, <1>10 DEF grossFromNet, g
<1> QED BY <1>3, <1>7, <1>9, <1>10, <1>11 DEF g, S

LEMMA CorrectedGrossPays ==
    ASSUME BpsAssumption, NEW n \in Nat, NEW f \in 0..(OneHundredPercentBps - 1)
    PROVE  netAfterFee(grossFromNet(n, f), f) = n
<1>1. CASE n = 0 \/ f = 0
  <2>1. grossFromNet(n, f) = n
      BY <1>1 DEF grossFromNet
  <2>2. n * f = 0 /\ f < OneHundredPercentBps
      BY <1>1
  <2> QED BY <2>1, <2>2 DEF netAfterFee, calculateWithdrawalFee, mulDiv, BpsAssumption
<1>2. CASE n # 0 /\ f # 0
    BY <1>2, CorrectionApplies
<1> QED BY <1>1, <1>2

\* WithdrawalFeeMath asks for no more than SupportsWithdrawalFee, and up to a fee
\* of one half two less would not do.
LEMMA CorrectedGrossIsTight ==
    ASSUME BpsAssumption, NEW n \in Nat, NEW f \in 0..(OneHundredPercentBps - 1),
           2 * f <= OneHundredPercentBps
    PROVE  /\ grossFromNet(n, f) <= supportedGross(n, f)
           /\ n > 1 => netAfterFee(grossFromNet(n, f) - 2, f) < n
<1> DEFINE S == OneHundredPercentBps
           x == grossFromNet(n, f)
           h == supportedGross(n, f)
<1>1. S \in Nat \ {0} /\ f \in Nat /\ f < S /\ S - f \in Nat \ {0} /\ 2 * f <= S
    BY DEF BpsAssumption
<1>2. \A k \in Int : k * (S - f) <= n * S => k <= h
    BY <1>1, MulDivAtLeast DEF supportedGross
<1>3. \A y : netAfterFee(y, f) = y - mulDiv(y, f, S)
    BY <1>1 DEF netAfterFee, calculateWithdrawalFee
<1>4. x \in Nat /\ n <= x /\ x * (S - f) <= n * S
  <2>1. CASE n = 0 \/ f = 0
    <3>1. x = n
        BY <2>1 DEF grossFromNet
    <3>2. n * (S - f) = n * S - n * f /\ n * f \in Nat /\ n * S \in Nat
        BY <1>1
    <3> QED BY <3>1, <3>2
  <2>2. CASE n # 0 /\ f # 0
      BY <2>2, CorrectionApplies
  <2> QED BY <2>1, <2>2
<1> HIDE DEF S, x, h
<1>5. x <= h
    BY <1>2, <1>4
<1>6. ASSUME n > 1 PROVE netAfterFee(x - 2, f) < n
  <2> DEFINE q == mulDiv(x - 2, f, S)
  <2>1. x - 2 \in Nat
      BY <1>4, <1>6
  <2>2. q \in Nat /\ (x - 2) * f < q * S + S
      BY <1>1, <2>1, MulDivBounds
  <2> HIDE DEF q
  <2>3. /\ (x - 2) * f = x * f - 2 * f
        /\ x * (S - f) = x * S - x * f
        /\ x * S \in Nat /\ x * f \in Nat /\ n * S \in Nat /\ q * S \in Nat
      BY <1>1, <1>4, <2>2
  \* (x - 2) * S - q * S < n * S - 2 * S + 2 * f + S <= n * S
  <2>4. x * S - 2 * S - q * S < n * S
      BY <1>1, <1>4, <2>2, <2>3
  <2>5. (x - 2 - q) * S < n * S
    <3>1. (x - 2 - q) * S = x * S - 2 * S - q * S
        BY <1>1, <1>4, <2>2
    <3> QED BY <2>4, <3>1
  <2>6. x - 2 - q < n
      BY <1>1, <1>4, <2>2, <2>5
  <2> QED BY <1>3, <2>6 DEF q
<1> QED BY <1>5, <1>6 DEF x, h

\* In both libraries a withdrawal pays exactly the net amount it was asked for.
THEOREM NetIsPaid == FeesSpec => []GrossPaysNet
<1> DEFINE Typed == net \in Nat /\ fee \in 0..(OneHundredPercentBps - 1)
<1>1. FeesInit => Typed
    BY FeesAssumption DEF FeesInit
<1>2. Typed /\ [FeesNext]_<<net, fee>> => Typed'
    BY DEF FeesNext
<1>3. Typed => GrossPaysNet
    BY BpsAssumption, CorrectedGrossPays, SupportedGrossPays DEF GrossPaysNet
<1> QED BY <1>1, <1>2, <1>3, PTL DEF FeesSpec

\* Up to a fee of one half, of which the vaults allow only a fraction, dLOOP's
\* gross amount is at most that of the other library and at most one more than
\* the least.
THEOREM GrossIsNearLeast ==
    ASSUME \A f \in NetFees : 2 * f <= OneHundredPercentBps
    PROVE  FeesSpec => []GrossIsTight
<1> DEFINE Typed == /\ net \in Nat /\ fee \in 0..(OneHundredPercentBps - 1)
                    /\ 2 * fee <= OneHundredPercentBps
<1>1. FeesInit => Typed
    BY FeesAssumption DEF FeesInit
<1>2. Typed /\ [FeesNext]_<<net, fee>> => Typed'
    BY DEF FeesNext
<1>3. Typed => GrossIsTight
    BY BpsAssumption, CorrectedGrossIsTight DEF GrossIsTight
<1> QED BY <1>1, <1>2, <1>3, PTL DEF FeesSpec
=============================================================================
