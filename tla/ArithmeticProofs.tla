-------------------------- MODULE ArithmeticProofs --------------------------
(***************************************************************************)
(* Facts about products of integers, the rounding operations of FixedPoint *)
(* and the sums of Totals, from which the proofs about the vault and the   *)
(* rewards are made.                                                       *)
(*                                                                         *)
(* Each rounding operation is characterised by the two inequalities that   *)
(* say which way it rounds and by less than how much.  A sum is a number   *)
(* of units, so that it grows with its terms is a fact about subsets, that *)
(* it is additive one about disjoint unions, and only that it commutes     *)
(* with a factor needs induction, on the factor.                           *)
(***************************************************************************)
EXTENDS FixedPoint, Totals, FiniteSetTheorems, TLAPS

-----------------------------------------------------------------------------
(***************************************************************************)
(* Products and rounding.                                                  *)
(***************************************************************************)

\* Integer division by a positive divisor rounds towards minus infinity.
LEMMA DivBounds ==
    ASSUME NEW a \in Int, NEW b \in Int, b > 0
    PROVE  /\ a \div b \in Int
           /\ (a \div b) * b <= a
           /\ a < (a \div b) * b + b
BY Z3

\* The product of integers is an integer, of naturals a natural.
LEMMA ProductType ==
    ASSUME NEW a \in Int, NEW b \in Int
    PROVE  /\ a * b \in Int
           /\ a * b = b * a
           /\ a >= 0 /\ b >= 0 => a * b >= 0
BY Z3

\* Multiplication distributes over sums and differences.
LEMMA Distributive ==
    ASSUME NEW a \in Int, NEW b \in Int, NEW c \in Int
    PROVE  /\ (a + b) * c = a * c + b * c
           /\ (a - b) * c = a * c - b * c
           /\ c * (a + b) = c * a + b * c
           /\ c * (a - b) = c * a - b * c
BY Z3

\* The order in which three factors are multiplied does not matter.
LEMMA ProductOrder ==
    ASSUME NEW a \in Int, NEW b \in Int, NEW c \in Int
    PROVE  /\ (a * b) * c = (a * c) * b
           /\ (a * b) * c = a * (b * c)
BY Z3

\* Multiplying by a nonnegative factor preserves <=.
LEMMA ProductMonotone ==
    ASSUME NEW a \in Int, NEW b \in Int, NEW c \in Int, c >= 0, a <= b
    PROVE  a * c <= b * c
BY Z3

\* A positive factor common to both sides cancels.
LEMMA ProductCancel ==
    ASSUME NEW a \in Int, NEW b \in Int, NEW c \in Int, c > 0
    PROVE  /\ a * c <= b * c => a <= b
           /\ a * c < b * c => a < b
           /\ a * c < b * c + c => a <= b
<1>1. a > b => a * c >= b * c + c
  <2> SUFFICES ASSUME a > b PROVE a * c >= b * c + c
    OBVIOUS
  <2>1. (b + 1) * c <= a * c
    BY ProductMonotone
  <2>2. (b + 1) * c = b * c + c
    BY Z3
  <2> QED
    BY <2>1, <2>2
<1>2. a >= b => a * c >= b * c
  BY ProductMonotone
<1> QED
  BY <1>1, <1>2, ProductType

\* A natural number divided by a positive one is a natural number.
LEMMA DivNat ==
    ASSUME NEW n \in Nat, NEW d \in Nat, d > 0
    PROVE  n \div d \in Nat
<1> DEFINE q == n \div d
<1>1. q \in Int /\ n < q * d + d
  BY DivBounds
<1> HIDE DEF q
<1>2. 0 * d < q * d + d
  BY <1>1, ProductType
<1>3. q >= 0
  BY <1>1, <1>2, ProductCancel
<1> QED
  BY <1>1, <1>3 DEF q

\* fixed_mul_floor is the largest integer below x * y / d.
LEMMA FixedMulFloorBounds ==
    ASSUME NEW x \in Int, NEW y \in Int, NEW d \in Int, d > 0
    PROVE  /\ FixedMulFloor(x, y, d) \in Int
           /\ FixedMulFloor(x, y, d) * d <= x * y
           /\ x * y < FixedMulFloor(x, y, d) * d + d
<1>1. x * y \in Int
  BY ProductType
<1> QED
  BY <1>1, DivBounds DEF FixedMulFloor

\* fixed_mul_ceil is the smallest integer above x * y / d.
LEMMA FixedMulCeilBounds ==
    ASSUME NEW x \in Int, NEW y \in Int, NEW d \in Int, d > 0
    PROVE  /\ FixedMulCeil(x, y, d) \in Int
           /\ x * y <= FixedMulCeil(x, y, d) * d
           /\ FixedMulCeil(x, y, d) * d < x * y + d
<1> DEFINE q == (-(x * y)) \div d
<1>1. x * y \in Int
  BY ProductType
<1>2. q \in Int /\ q * d <= -(x * y) /\ -(x * y) < q * d + d
  BY <1>1, DivBounds
<1>3. (-q) * d = -(q * d) /\ q * d \in Int
  BY <1>2, Z3
<1>4. FixedMulCeil(x, y, d) = -q
  BY DEF FixedMulCeil
<1> QED
  BY <1>1, <1>2, <1>3, <1>4

\* fixed_div_floor is the largest integer below x * d / y.
LEMMA FixedDivFloorBounds ==
    ASSUME NEW x \in Int, NEW y \in Int, NEW d \in Int, y > 0
    PROVE  /\ FixedDivFloor(x, y, d) \in Int
           /\ FixedDivFloor(x, y, d) * y <= x * d
           /\ x * d < FixedDivFloor(x, y, d) * y + y
<1>1. FixedDivFloor(x, y, d) = FixedMulFloor(x, d, y)
  BY DEF FixedDivFloor, FixedMulFloor
<1> QED
  BY <1>1, FixedMulFloorBounds

\* fixed_div_ceil is the smallest integer above x * d / y.
LEMMA FixedDivCeilBounds ==
    ASSUME NEW x \in Int, NEW y \in Int, NEW d \in Int, y > 0
    PROVE  /\ FixedDivCeil(x, y, d) \in Int
           /\ x * d <= FixedDivCeil(x, y, d) * y
           /\ FixedDivCeil(x, y, d) * y < x * d + y
<1>1. FixedDivCeil(x, y, d) = FixedMulCeil(x, d, y)
  BY DEF FixedDivCeil, FixedMulCeil
<1> QED
  BY <1>1, FixedMulCeilBounds

\* The operations on natural numbers give natural numbers.
LEMMA FixedNat ==
    ASSUME NEW x \in Nat, NEW y \in Nat, NEW d \in Nat, d > 0
    PROVE  /\ FixedMulFloor(x, y, d) \in Nat /\ FixedMulCeil(x, y, d) \in Nat
           /\ FixedDivFloor(x, d, y) \in Nat /\ FixedDivCeil(x, d, y) \in Nat
<1> DEFINE f == FixedMulFloor(x, y, d)
           c == FixedMulCeil(x, y, d)
<1>1. f \in Int /\ x * y < f * d + d /\ c \in Int /\ x * y <= c * d
  BY FixedMulFloorBounds, FixedMulCeilBounds
<1>2. FixedDivFloor(x, d, y) = f /\ FixedDivCeil(x, d, y) = c
  BY DEF FixedDivFloor, FixedDivCeil, FixedMulFloor, FixedMulCeil
<1> HIDE DEF f, c
<1>3. x * y >= 0 /\ 0 * d = 0 /\ f * d \in Int /\ c * d \in Int /\ x * y \in Int
  BY <1>1, ProductType
<1>4. 0 * d < f * d + d /\ 0 * d <= c * d
  BY <1>1, <1>3
<1>5. f >= 0 /\ c >= 0
  BY <1>1, <1>4, ProductCancel
<1> QED
  BY <1>1, <1>2, <1>5 DEF f, c

\* What fixed_mul_floor makes of natural numbers.
LEMMA FloorOfNat ==
    ASSUME NEW x \in Nat, NEW y \in Nat, NEW d \in Nat, d > 0
    PROVE  /\ FixedMulFloor(x, y, d) \in Nat
           /\ FixedMulFloor(x, y, d) * d <= x * y
           /\ x * y < FixedMulFloor(x, y, d) * d + d
<1>1. FixedMulFloor(x, y, d) \in Nat
  BY FixedNat
<1>2. x \in Int /\ y \in Int /\ d \in Int
  OBVIOUS
<1> QED
  BY <1>1, <1>2, FixedMulFloorBounds

\* Larger factors give no smaller product, however it is rounded.
LEMMA FixedMonotone ==
    ASSUME NEW x \in Nat, NEW y \in Nat, NEW x2 \in Nat, NEW y2 \in Nat,
           NEW d \in Nat, d > 0, x <= x2, y <= y2
    PROVE  /\ FixedMulFloor(x, y, d) <= FixedMulFloor(x2, y2, d)
           /\ FixedMulCeil(x, y, d) <= FixedMulCeil(x2, y2, d)
           /\ FixedDivCeil(x, d, y) <= FixedDivCeil(x2, d, y2)
<1> DEFINE f  == FixedMulFloor(x, y, d)
           c  == FixedMulCeil(x, y, d)
           f2 == FixedMulFloor(x2, y2, d)
           c2 == FixedMulCeil(x2, y2, d)
<1>1. /\ f \in Int /\ f * d <= x * y /\ f2 \in Int /\ x2 * y2 < f2 * d + d
      /\ c \in Int /\ c * d < x * y + d /\ c2 \in Int /\ x2 * y2 <= c2 * d
  BY FixedMulFloorBounds, FixedMulCeilBounds
<1>2. FixedDivCeil(x, d, y) = c /\ FixedDivCeil(x2, d, y2) = c2
  BY DEF FixedDivCeil, FixedMulCeil
<1> HIDE DEF f, c, f2, c2
<1>3. x * y <= x2 * y2
  <2>1. x * y <= x2 * y /\ y * x2 <= y2 * x2
    BY ProductMonotone
  <2> QED
    BY <2>1, ProductType
<1>4. /\ x * y \in Int /\ x2 * y2 \in Int
      /\ f * d \in Int /\ f2 * d \in Int /\ c * d \in Int /\ c2 * d \in Int
  BY <1>1, ProductType
<1>5. f * d < f2 * d + d /\ c * d < c2 * d + d
  BY <1>1, <1>3, <1>4
<1>6. f <= f2 /\ c <= c2
  BY <1>1, <1>5, ProductCancel
<1> QED
  BY <1>2, <1>6 DEF f, c, f2, c2

\* The whole of something is that thing; the order of the factors does not matter.
LEMMA FixedMulCeilWhole ==
    ASSUME NEW x \in Nat, NEW y \in Nat, NEW d \in Nat, d > 0
    PROVE  /\ FixedMulCeil(d, y, d) = y
           /\ FixedMulCeil(x, y, d) = FixedMulCeil(y, x, d)
<1> DEFINE c == FixedMulCeil(d, y, d)
<1>1. c \in Int /\ d * y <= c * d /\ c * d < d * y + d
  BY FixedMulCeilBounds
<1> HIDE DEF c
<1>2. y * d = d * y /\ y * d \in Int /\ c * d \in Int
  BY <1>1, ProductType
<1>3. y * d <= c * d /\ c * d < y * d + d
  BY <1>1, <1>2
<1>4. c = y
  <2>1. y <= c /\ c <= y
    BY <1>1, <1>3, ProductCancel
  <2> QED
    BY <2>1, <1>1
<1>5. x * y = y * x
  BY ProductType
<1> QED
  BY <1>4, <1>5 DEF c, FixedMulCeil

\* Rounding a sum up costs no more than rounding its parts up.
LEMMA FixedMulCeilSum ==
    ASSUME NEW x \in Nat, NEW a \in Nat, NEW y \in Nat, NEW d \in Nat, d > 0
    PROVE  FixedMulCeil(x + a, y, d) <= FixedMulCeil(x, y, d) + FixedMulCeil(a, y, d)
<1> DEFINE n == x + a
           s == FixedMulCeil(n, y, d)
           p == FixedMulCeil(x, y, d)
           q == FixedMulCeil(a, y, d)
<1>1. n \in Int /\ n * y = x * y + a * y
  BY Distributive
<1> HIDE DEF n
<1>2. /\ s \in Int /\ s * d < n * y + d
      /\ p \in Int /\ x * y <= p * d
      /\ q \in Int /\ a * y <= q * d
  <2>1. x \in Int /\ a \in Int /\ y \in Int /\ d \in Int
    OBVIOUS
  <2> QED
    BY <1>1, <2>1, FixedMulCeilBounds
<1> HIDE DEF s, p, q
<1>3. /\ (p + q) * d = p * d + q * d /\ p + q \in Int
      /\ s * d \in Int /\ p * d \in Int /\ q * d \in Int /\ x * y \in Int /\ a * y \in Int
  BY <1>2, Distributive, ProductType
<1>4. s * d < (p + q) * d + d
  BY <1>1, <1>2, <1>3
<1>5. s <= p + q
  BY <1>2, <1>3, <1>4, ProductCancel
<1> QED
  BY <1>5 DEF s, p, q, n

-----------------------------------------------------------------------------
(***************************************************************************)
(* Sums.                                                                   *)
(***************************************************************************)

\* A set of natural numbers that has 0, and the successor of each of its members, has
\* them all: otherwise there would be a least number missing from it.
LEMMA NaturalInduction ==
    ASSUME NEW S \in SUBSET Nat, 0 \in S, \A n \in S : n + 1 \in S
    PROVE  S = Nat
<1> SUFFICES ASSUME Nat \ S # {} PROVE FALSE
  OBVIOUS
<1> DEFINE R == {ss \in Nat \X Nat : ss[1] < ss[2]}
<1>1. IsWellFoundedOn(R, Nat)
  BY NatLessThanWellFounded DEF OpToRel
<1> DEFINE missing == Nat \ S
<1>2. missing \subseteq Nat /\ missing # {}
  OBVIOUS
<1> HIDE DEF R, missing
<1>3. PICK least \in missing : \A n \in missing : ~(<<n, least>> \in R)
  BY <1>1, <1>2, WFMin
<1>4. least \in Nat /\ least # 0 /\ least - 1 \in Nat
  BY <1>3 DEF missing
<1>5. least - 1 \in missing
  <2>1. CASE least - 1 \in S
    <3>1. (least - 1) + 1 \in S
      BY <2>1
    <3> QED
      BY <3>1, <1>3, <1>4 DEF missing
  <2> QED
    BY <2>1, <1>4 DEF missing
<1>6. <<least - 1, least>> \in R
  BY <1>4 DEF R
<1> QED
  BY <1>3, <1>5, <1>6

\* The units of one member, numbered a to b, can be counted.
LEMMA IntervalOfUnits ==
    ASSUME NEW m, NEW a \in Int, NEW b \in Int, a <= b + 1
    PROVE  /\ IsFiniteSet({m} \X (a..b))
           /\ Cardinality({m} \X (a..b)) = b - a + 1
<1>1. IsFiniteSet({m}) /\ Cardinality({m}) = 1
  BY FS_Singleton
<1>2. IsFiniteSet(a..b) /\ Cardinality(a..b) = b - a + 1
  BY FS_Interval
<1>3. /\ IsFiniteSet({m} \X (a..b))
      /\ Cardinality({m} \X (a..b)) = Cardinality({m}) * Cardinality(a..b)
  BY <1>1, <1>2, FS_Product, Zenon
<1>4. Cardinality({m}) * Cardinality(a..b) = b - a + 1
  BY <1>1, <1>2
<1> QED
  BY <1>3, <1>4

\* A sum of natural numbers over a finite set is a natural number.
LEMMA TotalType ==
    ASSUME NEW S, IsFiniteSet(S), NEW n \in [S -> Nat]
    PROVE  IsFiniteSet(Units(S, n)) /\ Total(S, n) \in Nat
<1> DEFINE units == [m \in S |-> {m} \X (1..n[m])]
           parts == {{m} \X (1..n[m]) : m \in S}
<1>1. units \in Surjection(S, parts)
  BY DEF Surjection
<1>2. IsFiniteSet(parts)
  BY <1>1, FS_Surjection
<1>3. \A T \in parts : IsFiniteSet(T)
  <2> SUFFICES ASSUME NEW m \in S PROVE IsFiniteSet({m} \X (1..n[m]))
    OBVIOUS
  <2>1. 1 \in Int /\ n[m] \in Int /\ 1 <= n[m] + 1
    OBVIOUS
  <2> QED
    BY <2>1, IntervalOfUnits, Zenon
<1>4. IsFiniteSet(UNION parts)
  BY <1>2, <1>3, FS_UNION
<1> QED
  BY <1>4, FS_CardinalityType DEF Units, Total

\* Terms that are not smaller have a sum that is not smaller.
LEMMA TotalMonotone ==
    ASSUME NEW S, IsFiniteSet(S), NEW a \in [S -> Nat], NEW b \in [S -> Nat],
           \A m \in S : a[m] <= b[m]
    PROVE  Total(S, a) <= Total(S, b)
<1>1. Units(S, a) \in SUBSET Units(S, b)
  BY DEF Units
<1>2. IsFiniteSet(Units(S, b))
  BY TotalType
<1> QED
  BY <1>1, <1>2, FS_Subset, Zenon DEF Total

\* A sum of zeros is zero.
LEMMA TotalZero ==
    ASSUME NEW S, NEW n, \A m \in S : n[m] = 0
    PROVE  Total(S, n) = 0
<1>1. Units(S, n) = {}
  BY DEF Units
<1> QED
  BY <1>1, FS_EmptySet DEF Total

\* The sum of sums is the sum of the terms' sums.
LEMMA TotalPlus ==
    ASSUME NEW S, IsFiniteSet(S), NEW a \in [S -> Nat], NEW b \in [S -> Nat],
           NEW c \in [S -> Nat], \A m \in S : c[m] = a[m] + b[m]
    PROVE  Total(S, c) = Total(S, a) + Total(S, b)
<1> DEFINE A == Units(S, a)
           B == Units(S, b)
           above == UNION {{m} \X (a[m] + 1 .. a[m] + b[m]) : m \in S}
           shift == [p \in B |-> <<p[1], a[p[1]] + p[2]>>]
<1>1. Units(S, c) = A \cup above
  BY DEF Units
<1>2. A \cap above = {}
  BY DEF Units
<1>3. IsFiniteSet(A) /\ IsFiniteSet(B) /\ Cardinality(A) \in Nat /\ Cardinality(B) \in Nat
  BY TotalType DEF Total
<1>4. \A p : p \in B <=> \E m \in S, i \in Nat : i \in 1..b[m] /\ p = <<m, i>>
  BY DEF Units
<1>5. \A p : p \in above <=> \E m \in S, i \in Nat : i \in 1..b[m] /\ p = <<m, a[m] + i>>
  <2>1. ASSUME NEW p, p \in above PROVE \E m \in S, i \in Nat : i \in 1..b[m] /\ p = <<m, a[m] + i>>
    <3>1. PICK m \in S, j \in Nat : j \in a[m] + 1 .. a[m] + b[m] /\ p = <<m, j>>
      BY <2>1
    <3>2. j - a[m] \in 1..b[m] /\ p = <<m, a[m] + (j - a[m])>>
      BY <3>1
    <3> QED
      BY <3>2
  <2>2. ASSUME NEW m \in S, NEW i \in 1..b[m] PROVE <<m, a[m] + i>> \in above
    <3>1. a[m] + i \in a[m] + 1 .. a[m] + b[m]
      OBVIOUS
    <3> QED
      BY <3>1
  <2> QED
    BY <2>1, <2>2
<1> HIDE DEF A, B, above
<1>6. shift \in Bijection(B, above)
  <2>1. shift \in [B -> above]
    BY <1>4, <1>5
  <2>2. ASSUME NEW p \in B, NEW q \in B, shift[p] = shift[q] PROVE p = q
    <3>1. PICK m \in S, i \in Nat : i \in 1..b[m] /\ p = <<m, i>>
      BY <1>4
    <3>2. PICK l \in S, j \in Nat : j \in 1..b[l] /\ q = <<l, j>>
      BY <1>4
    <3>3. <<m, a[m] + i>> = <<l, a[l] + j>>
      BY <2>2, <3>1, <3>2
    <3>4. m = l /\ a[m] + i = a[m] + j
      BY <3>3
    <3>5. i = j
      BY <3>4
    <3> QED
      BY <3>1, <3>2, <3>4, <3>5
  <2>3. ASSUME NEW q \in above PROVE \E p \in B : shift[p] = q
    <3>1. PICK m \in S, i \in Nat : i \in 1..b[m] /\ q = <<m, a[m] + i>>
      BY <1>5
    <3>2. <<m, i>> \in B /\ shift[<<m, i>>] = q
      BY <1>4, <3>1
    <3> QED
      BY <3>2
  <2> HIDE DEF shift
  <2> QED
    BY <2>1, <2>2, <2>3 DEF Bijection, Injection, Surjection, IsInjective
<1>7. IsFiniteSet(above) /\ Cardinality(above) = Cardinality(B)
  BY <1>3, <1>6, FS_Bijection DEF ExistsBijection
<1>8. Cardinality(A \cup above)
      = Cardinality(A) + Cardinality(above) - Cardinality(A \cap above)
  BY <1>3, <1>7, FS_Union
<1>9. Cardinality(A \cap above) = 0
  BY <1>2, FS_EmptySet
<1> QED
  BY <1>1, <1>3, <1>7, <1>8, <1>9 DEF Total, A, B

\* The sum of one term and zeros is that term.
LEMMA TotalOne ==
    ASSUME NEW S, NEW m \in S, NEW n, n[m] \in Nat, \A l \in S \ {m} : n[l] = 0
    PROVE  Total(S, n) = n[m]
<1>1. Units(S, n) = {m} \X (1..n[m])
  BY DEF Units
<1>2. 1 \in Int /\ n[m] \in Int /\ 1 <= n[m] + 1 /\ n[m] - 1 + 1 = n[m]
  OBVIOUS
<1>3. Cardinality({m} \X (1..n[m])) = n[m] - 1 + 1
  BY <1>2, IntervalOfUnits, Zenon
<1> QED
  BY <1>1, <1>2, <1>3 DEF Total

\* No term is larger than the sum.
LEMMA TotalBound ==
    ASSUME NEW S, IsFiniteSet(S), NEW n \in [S -> Nat], NEW m \in S
    PROVE  n[m] <= Total(S, n)
<1> DEFINE one == [l \in S |-> IF l = m THEN n[m] ELSE 0]
<1>1. /\ one \in [S -> Nat] /\ one[m] = n[m] /\ n[m] \in Nat
      /\ \A l \in S \ {m} : one[l] = 0
      /\ \A l \in S : one[l] <= n[l]
  OBVIOUS
<1> HIDE DEF one
<1>2. Total(S, one) = n[m]
  BY <1>1, TotalOne
<1>3. Total(S, one) <= Total(S, n)
  BY <1>1, TotalMonotone
<1> QED
  BY <1>2, <1>3

\* If one term is larger by k, so is the sum.
LEMMA TotalAdded ==
    ASSUME NEW S, IsFiniteSet(S), NEW a \in [S -> Nat], NEW b \in [S -> Nat],
           NEW m \in S, NEW k \in Nat, b[m] = a[m] + k, \A l \in S \ {m} : b[l] = a[l]
    PROVE  Total(S, b) = Total(S, a) + k
<1> DEFINE one == [l \in S |-> IF l = m THEN k ELSE 0]
<1>1. Total(S, one) = k
  BY TotalOne
<1>2. one \in [S -> Nat] /\ \A l \in S : b[l] = a[l] + one[l]
  OBVIOUS
<1> HIDE DEF one
<1>3. Total(S, b) = Total(S, a) + Total(S, one)
  BY <1>2, TotalPlus
<1> QED
  BY <1>1, <1>3

\* If one term changes by k, so does the sum.
LEMMA TotalChanged ==
    ASSUME NEW S, IsFiniteSet(S), NEW a \in [S -> Nat], NEW b \in [S -> Nat],
           NEW m \in S, NEW k \in Int, b[m] = a[m] + k, \A l \in S \ {m} : b[l] = a[l]
    PROVE  Total(S, b) = Total(S, a) + k
<1>1. CASE k >= 0
  BY <1>1, TotalAdded
<1>2. CASE k < 0
  <2>1. -k \in Nat /\ a[m] = b[m] + (-k) /\ \A l \in S \ {m} : a[l] = b[l]
    BY <1>2
  <2>2. Total(S, a) = Total(S, b) + (-k)
    BY <2>1, TotalAdded
  <2>3. Total(S, b) \in Nat
    BY TotalType
  <2> QED
    BY <2>2, <2>3
<1> QED
  BY <1>1, <1>2

\* A factor of every term is a factor of the sum.
LEMMA TotalTimes ==
    ASSUME NEW S, IsFiniteSet(S), NEW n \in [S -> Nat], NEW k \in Nat
    PROVE  Total(S, [m \in S |-> n[m] * k]) = Total(S, n) * k
<1> DEFINE times(i) == [m \in S |-> n[m] * i]
           holds    == {i \in Nat : Total(S, times(i)) = Total(S, n) * i}
<1>1. Total(S, n) \in Nat
  BY TotalType
<1>2. \A i \in Nat : times(i) \in [S -> Nat]
  <2> SUFFICES ASSUME NEW i \in Nat, NEW m \in S PROVE n[m] * i \in Nat
    OBVIOUS
  <2>1. n[m] \in Nat
    OBVIOUS
  <2> QED
    BY <2>1, ProductType
<1>3. 0 \in holds
  <2>1. \A m \in S : times(0)[m] = 0
    OBVIOUS
  <2>2. Total(S, times(0)) = 0
    BY <2>1, TotalZero
  <2> HIDE DEF times
  <2> QED
    BY <2>2, <1>1
<1>4. ASSUME NEW i \in holds PROVE i + 1 \in holds
  <2>1. i \in Nat /\ Total(S, times(i)) = Total(S, n) * i
    BY <1>4
  <2>2. \A m \in S : times(i + 1)[m] = times(i)[m] + n[m]
    <3> SUFFICES ASSUME NEW m \in S PROVE n[m] * (i + 1) = n[m] * i + n[m]
      OBVIOUS
    <3>1. n[m] \in Nat
      OBVIOUS
    <3> QED
      BY <3>1, <2>1, Distributive
  <2>3. times(i) \in [S -> Nat] /\ times(i + 1) \in [S -> Nat]
    BY <1>2, <2>1
  <2> HIDE DEF times
  <2>4. Total(S, times(i + 1)) = Total(S, times(i)) + Total(S, n)
    BY <2>2, <2>3, TotalPlus
  <2>5. Total(S, n) * (i + 1) = Total(S, n) * i + Total(S, n)
    BY <1>1, <2>1, Distributive
  <2> QED
    BY <2>1, <2>4, <2>5
<1> HIDE DEF times
<1>5. holds \in SUBSET Nat
  OBVIOUS
<1>6. holds = Nat
  <2> HIDE DEF holds
  <2> QED
    BY <1>3, <1>4, <1>5, NaturalInduction
<1>7. Total(S, times(k)) = Total(S, n) * k
  BY <1>6
<1> QED
  BY <1>7 DEF times

=============================================================================
