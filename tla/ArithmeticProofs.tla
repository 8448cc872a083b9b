-------------------------- MODULE ArithmeticProofs --------------------------
(***************************************************************************)
(* What the invariants need of the two things the contracts compute. A     *)
(* quotient that is rounded: how far it is from the real one, for all      *)
(* amounts, prices and units. A sum over 1..n: it is an integer, natural   *)
(* for natural summands, changes with one summand by that summand's        *)
(* change, and depends on nothing else.                                    *)
(***************************************************************************)
EXTENDS Arithmetic, WellFoundedInduction, TLAPS

-----------------------------------------------------------------------------
(* Rounded quotients *)

\* A product of naturals is natural; the prover is told so once.
LEMMA ProductNat == ASSUME NEW x \in Nat, NEW y \in Nat PROVE x * y \in Nat
OBVIOUS

LEMMA Scaled ==
    ASSUME NEW a \in Nat, NEW b \in Nat, NEW c \in Nat, a <= b
    PROVE  a * c <= b * c
OBVIOUS

\* The quotient and its remainder.
LEMMA Floor ==
    ASSUME NEW x \in Nat, NEW d \in Nat \ {0}
    PROVE  /\ x \div d \in Nat
           /\ (x \div d) * d <= x
           /\ x < (x \div d) * d + d
OBVIOUS

LEMMA MulDivBounds ==
    ASSUME NEW x \in Nat, NEW y \in Nat, NEW d \in Nat \ {0}
    PROVE  /\ mulDiv(x, y, d) \in Nat
           /\ mulDiv(x, y, d) * d <= x * y
           /\ x * y < mulDiv(x, y, d) * d + d
BY ProductNat, Floor DEF mulDiv

\* A quotient rounded up.
LEMMA MulDivUpBounds ==
    ASSUME NEW x \in Nat, NEW y \in Nat, NEW d \in Nat \ {0}
    PROVE  /\ mulDivUp(x, y, d) \in Nat
           /\ x * y <= mulDivUp(x, y, d) * d
           /\ mulDivUp(x, y, d) * d < x * y + d
<1>1. x * y \in Nat
    BY ProductNat
<1>2. x * y + d - 1 \in Nat
    BY <1>1
<1> DEFINE q == (x * y + d - 1) \div d
<1>3. q \in Nat /\ q * d <= x * y + d - 1 /\ x * y + d - 1 < q * d + d
    BY <1>2, Floor
<1> HIDE DEF q
<1>4. q * d \in Nat
    BY <1>3, ProductNat
<1>5. x * y <= q * d /\ q * d < x * y + d
    BY <1>1, <1>3, <1>4
<1> QED BY <1>3, <1>5 DEF mulDivUp, q

\* k fits in the quotient when its multiple fits in the product.
LEMMA MulDivAtLeast ==
    ASSUME NEW x \in Nat, NEW y \in Nat, NEW d \in Nat \ {0}, NEW k \in Int,
           k * d <= x * y
    PROVE  k <= mulDiv(x, y, d)
<1> DEFINE q == mulDiv(x, y, d)
<1>1. q \in Nat /\ x * y < q * d + d
    BY MulDivBounds
<1> HIDE DEF q
<1>2. k * d < (q + 1) * d
    BY <1>1
<1>3. k < q + 1
    BY <1>1, <1>2
<1> QED BY <1>1, <1>3 DEF q

LEMMA MulDivAtMost ==
    ASSUME NEW x \in Nat, NEW y \in Nat, NEW d \in Nat \ {0}, NEW k \in Int,
           x * y < (k + 1) * d
    PROVE  mulDiv(x, y, d) <= k
<1> DEFINE q == mulDiv(x, y, d)
<1>1. q \in Nat /\ q * d <= x * y
    BY MulDivBounds
<1> HIDE DEF q
<1>2. q * d < (k + 1) * d
    BY <1>1, ProductNat
<1>3. q < k + 1
    BY <1>1, <1>2
<1> QED BY <1>1, <1>3 DEF q

\* Adding c to the amount adds at least c's own quotient.
LEMMA MulDivSuperadditive ==
    ASSUME NEW p \in Nat, NEW b \in Nat, NEW c \in Nat, NEW u \in Nat \ {0}
    PROVE  mulDiv(p, b + c, u) >= mulDiv(p, b, u) + mulDiv(p, c, u)
<1> DEFINE q == mulDiv(p, b, u)
           r == mulDiv(p, c, u)
<1>1. q \in Nat /\ r \in Nat /\ q * u <= p * b /\ r * u <= p * c
    BY MulDivBounds
<1>2. p * (b + c) = p * b + p * c
    OBVIOUS
<1> HIDE DEF q, r
<1>3. (q + r) * u <= p * (b + c)
    BY <1>1, <1>2, ProductNat
<1>4. b + c \in Nat /\ q + r \in Int
    BY <1>1
<1>5. q + r <= mulDiv(p, b + c, u)
    BY <1>3, <1>4, MulDivAtLeast
<1>6. mulDiv(p, b + c, u) \in Nat
    BY <1>4, MulDivBounds
<1> QED BY <1>1, <1>5, <1>6 DEF q, r

\* Taking c from the amount takes at most v when c is worth no more than v.
LEMMA MulDivTaking ==
    ASSUME NEW p \in Nat, NEW b \in Nat, NEW c \in Nat, NEW u \in Nat \ {0},
           NEW v \in Nat, c <= b, p * c <= v * u
    PROVE  mulDiv(p, b, u) <= mulDiv(p, b - c, u) + v
<1> DEFINE q == mulDiv(p, b - c, u)
<1>1. q \in Nat /\ p * (b - c) < q * u + u
    BY MulDivBounds
<1>2. p * b = p * (b - c) + p * c
    OBVIOUS
<1> HIDE DEF q
<1>3. p * b < ((q + v) + 1) * u
    BY <1>1, <1>2, ProductNat
<1> QED BY <1>1, <1>3, MulDivAtMost DEF q

\* The same when all that is known is c's quotient: one more may go.
LEMMA MulDivTakingQuotient ==
    ASSUME NEW p \in Nat, NEW b \in Nat, NEW c \in Nat, NEW u \in Nat \ {0}, c <= b
    PROVE  mulDiv(p, b, u) <= mulDiv(p, b - c, u) + mulDiv(p, c, u) + 1
<1> DEFINE r == mulDiv(p, c, u)
<1>1. r \in Nat /\ p * c < r * u + u
    BY MulDivBounds
<1> HIDE DEF r
<1>2. r + 1 \in Nat /\ p * c <= (r + 1) * u
    BY <1>1, ProductNat
<1>3. mulDiv(p, b, u) <= mulDiv(p, b - c, u) + (r + 1)
    BY <1>2, MulDivTaking
<1>4. b - c \in Nat
    OBVIOUS
<1>5. mulDiv(p, b - c, u) \in Nat /\ mulDiv(p, b, u) \in Nat
    BY <1>4, MulDivBounds
<1> QED BY <1>1, <1>3, <1>5 DEF r

\* What is left of x after the fee is n, when x times what the fee leaves is
\* above n - 1 and at most n, in the scale's units.
LEMMA NetIs ==
    ASSUME NEW x \in Nat, NEW f \in Nat, NEW S \in Nat \ {0}, NEW n \in Nat, n <= x,
           x * (S - f) <= n * S, (n - 1) * S < x * (S - f)
    PROVE  x - mulDiv(x, f, S) = n
<1> DEFINE q == mulDiv(x, f, S)
<1>1. q \in Nat /\ q * S <= x * f /\ x * f < q * S + S
    BY MulDivBounds
<1>2. /\ x * (S - f) = x * S - x * f
      /\ (n - 1) * S = n * S - S
      /\ (x - n) * S = x * S - n * S
      /\ x * S \in Int /\ x * f \in Int /\ n * S \in Int
    OBVIOUS
<1> HIDE DEF q
<1>3. (x - n) * S <= x * f /\ x * f < (x - n) * S + S
    BY <1>2
<1>4. (x - n + 1) * S = (x - n) * S + S
    OBVIOUS
<1>5. (x - n) <= q
    BY <1>3, MulDivAtLeast DEF q
<1>6. q <= x - n
    BY <1>3, <1>4, MulDivAtMost DEF q
<1>7. x - q = n
    BY <1>1, <1>5, <1>6
<1> QED BY <1>7 DEF q

\* The factors may be exchanged.
LEMMA ProductsCommute ==
    ASSUME NEW x \in Nat, NEW y \in Nat, NEW d \in Nat \ {0}
    PROVE  mulDiv(x, y, d) = mulDiv(y, x, d)
<1>1. x * y = y * x
    OBVIOUS
<1> QED BY <1>1 DEF mulDiv

\* A fee f of S is taken from the gross amount that is rounded down: what is left is
\* the net amount it was computed from.
LEMMA GrossLeavesNet ==
    ASSUME NEW S \in Nat \ {0}, NEW f \in 0..(S - 1), NEW n \in Nat
    PROVE  LET g == mulDiv(n, S, S - f)
           IN  g \in Nat /\ n <= g /\ g - mulDiv(g, f, S) = n
<1> DEFINE g == mulDiv(n, S, S - f)
<1>1. f \in Nat /\ S - f \in Nat \ {0}
    OBVIOUS
<1>2. g \in Nat /\ g * (S - f) <= n * S /\ n * S < g * (S - f) + (S - f)
    BY <1>1, MulDivBounds
<1>3. n <= g
  <2>1. n * (S - f) <= n * S
      BY <1>1
  <2> QED BY <1>1, <2>1, MulDivAtLeast
<1>4. (n - 1) * S < g * (S - f)
  <2>1. (n - 1) * S = n * S - S /\ n * S \in Int /\ g * (S - f) \in Int
      BY <1>1, <1>2
  <2> QED BY <1>1, <1>2, <2>1
<1> HIDE DEF g
<1>5. g - mulDiv(g, f, S) = n
    BY <1>1, <1>2, <1>3, <1>4, NetIs
<1> QED BY <1>2, <1>3, <1>5 DEF g

\* A larger gross amount leaves no less.
LEMMA NetGrows ==
    ASSUME NEW S \in Nat \ {0}, NEW f \in 0..S, NEW g \in Nat, NEW x \in Nat, g <= x
    PROVE  g - mulDiv(g, f, S) <= x - mulDiv(x, f, S)
<1> DEFINE v == x - g
<1>1. v \in Nat /\ f \in Nat /\ x - v = g /\ v <= x
    OBVIOUS
<1> HIDE DEF v
<1>2. f * v <= v * S
    BY <1>1
<1>3. mulDiv(f, x, S) <= mulDiv(f, g, S) + v
    BY <1>1, <1>2, MulDivTaking
<1>4. mulDiv(f, x, S) = mulDiv(x, f, S) /\ mulDiv(f, g, S) = mulDiv(g, f, S)
    BY <1>1, ProductsCommute
<1>5. mulDiv(x, f, S) \in Nat /\ mulDiv(g, f, S) \in Nat
    BY <1>1, MulDivBounds
<1> QED BY <1>1, <1>3, <1>4, <1>5

\* What is left after a fee is a natural number.
LEMMA NetNat ==
    ASSUME NEW S \in Nat \ {0}, NEW f \in 0..S, NEW x \in Nat
    PROVE  /\ x - mulDiv(x, f, S) \in Nat
           /\ (x - mulDiv(x, f, S)) * S <= x * (S - f) + (S - 1)
<1> DEFINE q == mulDiv(x, f, S)
<1>1. f \in Nat /\ q \in Nat /\ q * S <= x * f /\ x * f < q * S + S
    BY MulDivBounds
<1> HIDE DEF q
<1>2. x * f <= x * S /\ x * S \in Nat /\ x * f \in Nat /\ q * S \in Nat
    BY <1>1, ProductNat
<1>3. q <= x
    BY <1>1, <1>2
<1>4. (x - q) * S = x * S - q * S /\ x * (S - f) = x * S - x * f
    BY <1>1
<1> QED BY <1>1, <1>2, <1>3, <1>4 DEF q

\* There and back through a rate, rounding down twice: no more comes back, and all
\* but one unit of what is in between.
LEMMA RoundTripDown ==
    ASSUME NEW x \in Nat, NEW u \in Nat \ {0}, NEW r \in Nat \ {0}
    PROVE  LET w == mulDiv(x, u, r)
           IN  /\ mulDiv(w, r, u) <= x
               /\ x <= mulDiv(w, r, u) + mulDiv(1, r, u) + 1
<1> DEFINE w == mulDiv(x, u, r)
           y == mulDiv(w, r, u)
           q == mulDiv(1, r, u)
<1>1. w \in Nat /\ w * r <= x * u /\ x * u < w * r + r
    BY MulDivBounds
<1>2. y \in Nat /\ y * u <= w * r /\ w * r < y * u + u
    BY <1>1, MulDivBounds
<1>3. q \in Nat /\ q * u <= r /\ r < q * u + u
    BY MulDivBounds
<1> HIDE DEF w, y, q
<1>4. x * u \in Nat /\ w * r \in Nat /\ y * u \in Nat /\ q * u \in Nat
    BY <1>1, <1>2, <1>3, ProductNat
<1>5. y * u <= x * u
    BY <1>1, <1>2, <1>4
<1>6. y <= x
    BY <1>2, <1>5
<1>7. x * u < (y + q + 2) * u
  <2>1. (y + q + 2) * u = y * u + q * u + u + u
      BY <1>2, <1>3
  <2> QED BY <1>1, <1>2, <1>3, <1>4, <2>1
<1>8. x < y + q + 2
    BY <1>2, <1>3, <1>7
<1> QED BY <1>2, <1>3, <1>6, <1>8 DEF w, y, q

\* Up on the way there: no less comes back, and the excess is less than one unit of
\* what is in between.
LEMMA RoundTripUp ==
    ASSUME NEW x \in Nat, NEW u \in Nat \ {0}, NEW r \in Nat \ {0}
    PROVE  LET y == mulDiv(mulDivUp(x, u, r), r, u)
           IN  y \in Nat /\ x <= y /\ y <= x + mulDiv(1, r, u) /\ (y - x) * u < r
<1> DEFINE w == mulDivUp(x, u, r)
           y == mulDiv(w, r, u)
           q == mulDiv(1, r, u)
<1>1. w \in Nat /\ x * u <= w * r /\ w * r < x * u + r
    BY MulDivUpBounds
<1>2. y \in Nat /\ y * u <= w * r /\ w * r < y * u + u
    BY <1>1, MulDivBounds
<1>3. q \in Nat /\ q * u <= r /\ r < q * u + u
    BY MulDivBounds
<1>4. x <= y
    BY <1>1, MulDivAtLeast
<1> HIDE DEF w, y, q
<1>5. x * u \in Nat /\ w * r \in Nat /\ y * u \in Nat /\ q * u \in Nat
    BY <1>1, <1>2, <1>3, ProductNat
<1>6. (y - x) * u = y * u - x * u
    BY <1>2
<1>7. (y - x) * u < r
    BY <1>1, <1>2, <1>5, <1>6
<1>8. (y - x) * u < (q + 1) * u
    BY <1>3, <1>7, <1>6, <1>5
<1>9. y - x < q + 1
    BY <1>2, <1>3, <1>8
<1> QED BY <1>2, <1>3, <1>4, <1>7, <1>9 DEF w, y, q

-----------------------------------------------------------------------------
(* Sums *)

\* s lists the partial sums of f over 1..n.
IsRunning(s, f, n) ==
    /\ s \in [0..n -> Int]
    /\ s[0] = 0
    /\ \A i \in 1..n : s[i] = s[i-1] + f[i]

\* A non-empty set of naturals has a least element: the induction principle
\* the proofs below use.
LEMMA LeastNatural ==
    ASSUME NEW T, T \subseteq Nat, T # {}
    PROVE  \E m \in T : \A k \in T : m <= k
<1>1. \E x \in T : \A y \in T : ~ (<<y, x>> \in OpToRel(<, Nat))
    BY WFMin, NatLessThanWellFounded
<1>2. PICK x \in T : \A y \in T : ~ (<<y, x>> \in OpToRel(<, Nat))
    BY <1>1
<1>3. \A y \in T : ~ (y < x)
    BY <1>2 DEF OpToRel
<1> QED
    BY <1>3

LEMMA RunningExists ==
    ASSUME NEW n \in Nat, NEW f \in [1..n -> Int]
    PROVE  \E s : IsRunning(s, f, n)
<1> DEFINE Part(k) == \E s : IsRunning(s, f, k)
           Bad == {k \in 0..n : ~ Part(k)}
<1>1. Part(0)
  <2>1. IsRunning([i \in 0..0 |-> 0], f, 0)
      BY DEF IsRunning
  <2> QED BY <2>1
<1>2. ASSUME NEW k \in 1..n, Part(k-1)
      PROVE  Part(k)
  <2>1. PICK s : IsRunning(s, f, k-1)
      BY <1>2
  <2> DEFINE t == [i \in 0..k |-> IF i = k THEN s[k-1] + f[k] ELSE s[i]]
  <2>2. /\ k-1 \in Nat /\ k \in Nat
        /\ s \in [0..(k-1) -> Int]
        /\ s[0] = 0
        /\ \A i \in 1..(k-1) : s[i] = s[i-1] + f[i]
      BY <2>1 DEF IsRunning
  <2>3. t \in [0..k -> Int]
      BY <2>2
  <2>4. t[0] = 0
      BY <2>2
  <2>5. ASSUME NEW i \in 1..k
        PROVE  t[i] = t[i-1] + f[i]
      BY <2>2
  <2>6. IsRunning(t, f, k)
      BY <2>3, <2>4, <2>5 DEF IsRunning
  <2> QED BY <2>6
<1>3. Bad = {}
  <2>1. SUFFICES ASSUME Bad # {} PROVE FALSE
      OBVIOUS
  <2>2. Bad \subseteq Nat
      OBVIOUS
  <2>3. PICK m \in Bad : \A k \in Bad : m <= k
      BY <2>1, <2>2, LeastNatural
  <2>4. CASE m = 0
      BY <2>4, <1>1, <2>3
  <2>5. CASE m # 0
    <3>1. m \in 1..n /\ m-1 \in 0..n /\ ~ (m <= m-1)
        BY <2>3, <2>5
    <3>2. m-1 \notin Bad
        BY <3>1, <2>3
    <3>3. Part(m-1)
        BY <3>1, <3>2
    <3>4. Part(m)
        BY <3>1, <3>3, <1>2
    <3> QED BY <3>4, <2>3
  <2> QED BY <2>4, <2>5
<1>4. n \in 0..n
    OBVIOUS
<1>5. Part(n)
    BY <1>3, <1>4
<1> QED BY <1>5

LEMMA RunningUnique ==
    ASSUME NEW n \in Nat, NEW f, NEW s, NEW t,
           IsRunning(s, f, n), IsRunning(t, f, n)
    PROVE  s = t
<1> DEFINE Bad == {k \in 0..n : s[k] # t[k]}
<1>1. Bad = {}
  <2>1. SUFFICES ASSUME Bad # {} PROVE FALSE
      OBVIOUS
  <2>2. Bad \subseteq Nat
      OBVIOUS
  <2>3. PICK m \in Bad : \A k \in Bad : m <= k
      BY <2>1, <2>2, LeastNatural
  <2>4. m # 0
      BY <2>3 DEF IsRunning
  <2>5. m \in 1..n /\ m-1 \in 0..n /\ ~ (m <= m-1)
      BY <2>3, <2>4
  <2>6. s[m-1] = t[m-1]
      BY <2>3, <2>5
  <2>7. s[m] = t[m]
      BY <2>5, <2>6 DEF IsRunning
  <2> QED BY <2>3, <2>7
<1>2. \A k \in 0..n : s[k] = t[k]
    BY <1>1
<1> QED BY <1>2 DEF IsRunning

\* The recursive definition does define the running sums.
LEMMA RunningDef ==
    ASSUME NEW n \in Nat, NEW f \in [1..n -> Int]
    PROVE  IsRunning(Running(f, n), f, n)
<1> DEFINE D(g) == [i \in 0..n |-> IF i = 0 THEN 0 ELSE g[i-1] + f[i]]
<1>1. PICK s : IsRunning(s, f, n)
    BY RunningExists
<1>2. s = D(s)
  <2>1. \A i \in 0..n : s[i] = D(s)[i]
      BY <1>1 DEF IsRunning
  <2> QED BY <1>1, <2>1 DEF IsRunning
<1>3. Running(f, n) = CHOOSE g : g = D(g)
    BY DEF Running
<1> DEFINE g == Running(f, n)
<1>4. g = D(g)
    BY <1>2, <1>3
<1>5. /\ g[0] = 0
      /\ \A i \in 1..n : g[i] = g[i-1] + f[i]
  <2>1. \A i \in 0..n : g[i] = IF i = 0 THEN 0 ELSE g[i-1] + f[i]
      BY <1>4
  <2> HIDE DEF g
  <2> QED BY <2>1
<1> DEFINE Bad == {k \in 0..n : g[k] # s[k]}
<1>6. Bad = {}
  <2>1. SUFFICES ASSUME Bad # {} PROVE FALSE
      OBVIOUS
  <2>2. Bad \subseteq Nat
      OBVIOUS
  <2>3. PICK m \in Bad : \A k \in Bad : m <= k
      BY <2>1, <2>2, LeastNatural
  <2> HIDE DEF g
  <2>4. m # 0
      BY <2>3, <1>1, <1>5 DEF IsRunning
  <2>5. m \in 1..n /\ m-1 \in 0..n /\ ~ (m <= m-1)
      BY <2>3, <2>4
  <2>6. g[m-1] = s[m-1]
      BY <2>3, <2>5
  <2>7. g[m] = s[m]
      BY <1>1, <1>5, <2>5, <2>6 DEF IsRunning
  <2> QED BY <2>3, <2>7
<1>7. \A k \in 0..n : g[k] = s[k]
    BY <1>6
<1>8. DOMAIN g = 0..n /\ g = [i \in 0..n |-> g[i]]
    BY <1>4
<1>9. g = s
  <2> HIDE DEF g
  <2> QED BY <1>1, <1>7, <1>8 DEF IsRunning
<1> QED BY <1>1, <1>9

\* SumTo unfolds at the top: the recursion equation, by itself.
LEMMA SumOfNone ==
    ASSUME NEW f \in [1..0 -> Int]
    PROVE  SumTo(f, 0) = 0
BY RunningDef DEF SumTo, IsRunning

LEMMA SumToType ==
    ASSUME NEW n \in Nat, NEW f \in [1..n -> Int]
    PROVE  SumTo(f, n) \in Int
BY RunningDef DEF SumTo, IsRunning

\* The tool of the invariant proofs: any sequence of partial sums ends in SumTo.
LEMMA SumFromRunning ==
    ASSUME NEW n \in Nat, NEW f \in [1..n -> Int], NEW s, IsRunning(s, f, n)
    PROVE  SumTo(f, n) = s[n]
BY RunningDef, RunningUnique DEF SumTo

LEMMA SumOfZeros ==
    ASSUME NEW n \in Nat
    PROVE  SumTo([i \in 1..n |-> 0], n) = 0
<1> DEFINE f == [i \in 1..n |-> 0]
           s == [i \in 0..n |-> 0]
<1>1. f \in [1..n -> Int] /\ IsRunning(s, f, n)
    BY DEF IsRunning
<1>2. SumTo(f, n) = s[n]
    BY <1>1, SumFromRunning
<1> QED BY <1>2

\* Changing one summand moves the sum by the change of that summand.
LEMMA SumUpdate ==
    ASSUME NEW n \in Nat, NEW f \in [1..n -> Int], NEW h \in [1..n -> Int],
           NEW j \in 1..n, \A i \in 1..n \ {j} : h[i] = f[i]
    PROVE  SumTo(h, n) = SumTo(f, n) + h[j] - f[j]
<1> DEFINE s == Running(f, n)
           t == [i \in 0..n |-> IF i < j THEN s[i] ELSE s[i] + h[j] - f[j]]
<1>1. IsRunning(s, f, n)
    BY RunningDef
<1>2. /\ s \in [0..n -> Int] /\ s[0] = 0
      /\ \A i \in 1..n : s[i] = s[i-1] + f[i]
    BY <1>1 DEF IsRunning
<1> HIDE DEF s
<1>3. t \in [0..n -> Int]
  <2>1. h[j] \in Int /\ f[j] \in Int
      OBVIOUS
  <2>2. \A i \in 0..n : s[i] \in Int
      BY <1>2
  <2>3. \A i \in 0..n : (IF i < j THEN s[i] ELSE s[i] + h[j] - f[j]) \in Int
      BY <2>1, <2>2
  <2> QED BY <2>3
<1>4. t[0] = 0
    BY <1>2
<1>5. ASSUME NEW i \in 1..n
      PROVE  t[i] = t[i-1] + h[i]
  <2>1. s[i] = s[i-1] + f[i] /\ i \in 0..n /\ i-1 \in 0..n
      BY <1>2
  <2>2. s[i] \in Int /\ s[i-1] \in Int /\ f[i] \in Int /\ h[i] \in Int
        /\ f[j] \in Int /\ h[j] \in Int
      BY <1>2, <2>1
  <2>3. CASE i = j
      BY <2>1, <2>2, <2>3
  <2>4. CASE i # j
      BY <2>1, <2>2, <2>4, SMTT(30)
  <2> QED BY <2>3, <2>4
<1>6. IsRunning(t, h, n)
    BY <1>3, <1>4, <1>5 DEF IsRunning
<1>7. SumTo(h, n) = t[n]
    BY <1>6, SumFromRunning
<1> QED BY <1>7, <1>2 DEF SumTo, s

\* Equal summands, equal sums.
LEMMA SumSame ==
    ASSUME NEW n \in Nat, NEW f \in [1..n -> Int], NEW h \in [1..n -> Int],
           \A i \in 1..n : h[i] = f[i]
    PROVE  SumTo(h, n) = SumTo(f, n)
<1>1. h = f
    OBVIOUS
<1> QED BY <1>1

\* Natural summands: the sum is natural and no summand exceeds it.
LEMMA SumNat ==
    ASSUME NEW n \in Nat, NEW f \in [1..n -> Nat]
    PROVE  /\ SumTo(f, n) \in Nat
           /\ \A j \in 1..n : f[j] <= SumTo(f, n)
<1> DEFINE s == Running(f, n)
<1>1. f \in [1..n -> Int]
    OBVIOUS
<1>2. IsRunning(s, f, n)
    BY <1>1, RunningDef
<1>3. /\ s \in [0..n -> Int] /\ s[0] = 0
      /\ \A i \in 1..n : s[i] = s[i-1] + f[i]
    BY <1>2 DEF IsRunning
<1> HIDE DEF s
<1> DEFINE Bad == {k \in 0..n : ~ (s[k] >= 0 /\ \A j \in 1..k : f[j] <= s[k])}
<1>4. Bad = {}
  <2>1. SUFFICES ASSUME Bad # {} PROVE FALSE
      OBVIOUS
  <2>2. Bad \subseteq Nat
      OBVIOUS
  <2>3. PICK m \in Bad : \A k \in Bad : m <= k
      BY <2>1, <2>2, LeastNatural
  <2>4. m # 0
      BY <2>3, <1>3
  <2>5. m \in 1..n /\ m-1 \in 0..n /\ ~ (m <= m-1)
      BY <2>3, <2>4
  <2>6. s[m-1] >= 0 /\ \A j \in 1..(m-1) : f[j] <= s[m-1]
      BY <2>3, <2>5
  <2>7. s[m] = s[m-1] + f[m] /\ f[m] \in Nat /\ s[m-1] \in Int /\ s[m] \in Int
      BY <1>3, <2>5
  <2>8. \A j \in 1..m : f[j] <= s[m]
    <3>1. ASSUME NEW j \in 1..m PROVE f[j] <= s[m]
      <4>1. f[j] \in Nat
          BY <2>5
      <4>2. CASE j = m
          BY <4>2, <2>6, <2>7
      <4>3. CASE j # m
          BY <4>1, <4>3, <2>5, <2>6, <2>7
      <4> QED BY <4>2, <4>3
    <3> QED BY <3>1
  <2> QED BY <2>3, <2>6, <2>7, <2>8
<1>5. s[n] >= 0 /\ s[n] \in Int /\ \A j \in 1..n : f[j] <= s[n]
  <2>1. n \in 0..n
      OBVIOUS
  <2> QED BY <1>3, <1>4, <2>1
<1> QED BY <1>5 DEF SumTo, s
=============================================================================
