---------------------------- MODULE SummaryProofs ---------------------------
(***************************************************************************)
(* Theorems about Summary, for every pool, curve, fee and value of the     *)
(* scalars: nothing goes below zero whatever the pool does, the borrow     *)
(* rate has no gap at its kinks, more debt never lowers the estimate, and  *)
(* depositors get what the estimate says.                                  *)
(***************************************************************************)
EXTENDS Summary, VaultDataProofs

-----------------------------------------------------------------------------
(***************************************************************************)
(* The curve.                                                              *)
(***************************************************************************)

\* The steepest part of the curve begins below full utilisation.
LEMMA MaxKink == MAX_KINK \in Nat /\ MAX_KINK < SCALAR_7
<1> DEFINE k == MAX_KINK
<1>1. SCALAR_7 \in Nat /\ SCALAR_7 > 0
  BY ScalarAssumption
<1>2. k \in Int /\ k * 100 <= SCALAR_7 * 95 /\ SCALAR_7 * 95 < k * 100 + 100
  BY <1>1, DivBounds DEF MAX_KINK
<1> HIDE DEF k
<1>3. k >= 0 /\ k < SCALAR_7
  BY <1>1, <1>2
<1> QED
  BY <1>2, <1>3 DEF k

\* A part of the curve climbs, from zero, without ever falling, to its whole rate.
LEMMA ClimbBounds ==
    ASSUME NEW util \in Nat, NEW low \in Nat, NEW high \in Nat, NEW rate \in Nat,
           low <= util, low < high
    PROVE  /\ Climb(util, low, high, rate) \in Nat
           /\ \A more \in Nat : util <= more
                  => Climb(util, low, high, rate) <= Climb(more, low, high, rate)
           /\ util <= high => Climb(util, low, high, rate) <= rate
           /\ Climb(high, low, high, rate) = rate
<1> DEFINE part(u) == FixedDivCeil(u - low, high - low, SCALAR_7)
<1>1. SCALAR_7 \in Nat /\ SCALAR_7 > 0 /\ high - low \in Nat /\ high - low > 0
  BY ScalarAssumption
<1>2. \A u \in Nat : low <= u => part(u) \in Nat
  <2> SUFFICES ASSUME NEW u \in Nat, low <= u PROVE part(u) \in Nat
    OBVIOUS
  <2>1. u - low \in Nat
    OBVIOUS
  <2> QED
    BY <2>1, <1>1, FixedNat
<1>3. \A u, w \in Nat : low <= u /\ u <= w => part(u) <= part(w)
  <2> SUFFICES ASSUME NEW u \in Nat, NEW w \in Nat, low <= u, u <= w PROVE part(u) <= part(w)
    OBVIOUS
  <2>1. u - low \in Nat /\ w - low \in Nat /\ u - low <= w - low /\ SCALAR_7 <= SCALAR_7
    BY <1>1
  <2> QED
    BY <2>1, <1>1, FixedMonotone
<1>4. part(high) = SCALAR_7
  <2> DEFINE n == high - low
  <2>1. n \in Nat /\ n > 0
    BY <1>1
  <2> HIDE DEF n
  <2>2. FixedDivCeil(n, n, SCALAR_7) = FixedMulCeil(n, SCALAR_7, n)
    BY DEF FixedDivCeil, FixedMulCeil
  <2>3. FixedMulCeil(n, SCALAR_7, n) = SCALAR_7
    BY <2>1, <1>1, FixedMulCeilWhole
  <2> QED
    BY <2>2, <2>3 DEF n
<1>5. \A u : Climb(u, low, high, rate) = FixedMulCeil(part(u), rate, SCALAR_7)
  BY DEF Climb
<1> HIDE DEF part
<1>6. \A u \in Nat : low <= u => Climb(u, low, high, rate) \in Nat
  BY <1>1, <1>2, <1>5, FixedNat
<1>7. \A u, w \in Nat : low <= u /\ u <= w
                        => Climb(u, low, high, rate) <= Climb(w, low, high, rate)
  <2> SUFFICES ASSUME NEW u \in Nat, NEW w \in Nat, low <= u, u <= w
               PROVE  Climb(u, low, high, rate) <= Climb(w, low, high, rate)
    OBVIOUS
  <2>1. /\ part(u) \in Nat /\ part(w) \in Nat /\ part(u) <= part(w) /\ rate <= rate
    BY <1>2, <1>3
  <2> QED
    BY <2>1, <1>1, <1>5, FixedMonotone
<1>8. Climb(high, low, high, rate) = rate
  BY <1>1, <1>4, <1>5, FixedMulCeilWhole
<1> QED
  BY <1>6, <1>7, <1>8

\* The borrow rate on each part of the curve, and what it is at the kinks: `one' where
\* the second part begins, `two' where the third one does.
LEMMA CurIrParts ==
    ASSUME NEW c \in ReserveConfig, NEW m \in Nat, NEW util \in Nat
    PROVE  LET one == FixedMulCeil(c.r_one + c.r_base, m, SCALAR_7)
               two == FixedMulCeil(c.r_two + c.r_one + c.r_base, m, SCALAR_7)
           IN  /\ one \in Nat /\ two \in Nat /\ one <= two
               /\ CurIr(util, c, m) \in Nat
               /\ util <= c.util =>
                      /\ CurIr(util, c, m) =
                             FixedMulCeil(Climb(util, 0, c.util, c.r_one) + c.r_base,
                                          m, SCALAR_7)
                      /\ CurIr(util, c, m) <= one
               /\ util > c.util /\ util <= MAX_KINK =>
                      /\ CurIr(util, c, m) =
                             FixedMulCeil(Climb(util, c.util, MAX_KINK, c.r_two)
                                              + c.r_one + c.r_base, m, SCALAR_7)
                      /\ one <= CurIr(util, c, m)
                      /\ CurIr(util, c, m) <= two
               /\ util > c.util /\ util > MAX_KINK =>
                      /\ CurIr(util, c, m) =
                             Climb(util, MAX_KINK, SCALAR_7, c.r_three) + two
                      /\ two <= CurIr(util, c, m)
<1> DEFINE one   == FixedMulCeil(c.r_one + c.r_base, m, SCALAR_7)
           two   == FixedMulCeil(c.r_two + c.r_one + c.r_base, m, SCALAR_7)
           ir    == CurIr(util, c, m)
<1>1. /\ c.r_base \in Nat /\ c.r_one \in Nat /\ c.r_two \in Nat /\ c.r_three \in Nat
      /\ c.util \in Nat /\ c.util > 0 /\ SCALAR_7 \in Nat /\ SCALAR_7 > 0
      /\ MAX_KINK \in Nat /\ MAX_KINK < SCALAR_7
  BY ScalarAssumption, MaxKink DEF ReserveConfig
<1>2. one \in Nat /\ two \in Nat /\ one <= two
  <2>1. /\ c.r_one + c.r_base \in Nat /\ c.r_two + c.r_one + c.r_base \in Nat
        /\ c.r_one + c.r_base <= c.r_two + c.r_one + c.r_base /\ m <= m
    BY <1>1
  <2> QED
    BY <2>1, <1>1, FixedNat, FixedMonotone
<1>3. CASE util <= c.util
  <2> DEFINE climb == Climb(util, 0, c.util, c.r_one)
             rate  == climb + c.r_base
  <2>1. ir = FixedMulCeil(rate, m, SCALAR_7)
    BY <1>1, <1>3 DEF CurIr
  <2>2. climb \in Nat /\ climb <= c.r_one
    <3>1. 0 \in Nat /\ 0 <= util /\ 0 < c.util
      BY <1>1
    <3> QED
      BY <3>1, <1>1, <1>3, ClimbBounds
  <2> HIDE DEF climb
  <2>3. rate \in Nat /\ rate <= c.r_one + c.r_base /\ c.r_one + c.r_base \in Nat /\ m <= m
    BY <2>2, <1>1
  <2> HIDE DEF rate, ir
  <2>4. ir \in Nat /\ ir <= one
    BY <2>1, <2>3, <1>1, FixedNat, FixedMonotone
  <2> QED
    BY <2>1, <2>4, <1>1, <1>2, <1>3 DEF ir, climb, rate
<1>4. CASE util > c.util /\ util <= MAX_KINK
  <2> DEFINE climb == Climb(util, c.util, MAX_KINK, c.r_two)
             rate  == climb + c.r_one + c.r_base
  <2>1. ir = FixedMulCeil(rate, m, SCALAR_7)
    BY <1>1, <1>4 DEF CurIr
  <2>2. climb \in Nat /\ climb <= c.r_two
    <3>1. c.util <= util /\ c.util < MAX_KINK
      BY <1>1, <1>4
    <3> QED
      BY <3>1, <1>1, <1>4, ClimbBounds
  <2> HIDE DEF climb
  <2>3. /\ rate \in Nat /\ c.r_one + c.r_base <= rate
        /\ rate <= c.r_two + c.r_one + c.r_base
        /\ c.r_one + c.r_base \in Nat /\ c.r_two + c.r_one + c.r_base \in Nat /\ m <= m
    BY <2>2, <1>1
  <2> HIDE DEF rate, ir
  <2>4. ir \in Nat /\ ir <= two /\ one <= ir
    BY <2>1, <2>3, <1>1, FixedNat, FixedMonotone
  <2> QED
    BY <2>1, <2>4, <1>1, <1>2, <1>4 DEF ir, climb, rate
<1>5. CASE util > c.util /\ util > MAX_KINK
  <2> DEFINE climb == Climb(util, MAX_KINK, SCALAR_7, c.r_three)
             rates == c.r_two + c.r_one + c.r_base
  <2>1. ir = climb + FixedMulCeil(m, rates, SCALAR_7)
    BY <1>1, <1>5 DEF CurIr
  <2>2. climb \in Nat
    <3>1. MAX_KINK <= util
      BY <1>1, <1>5
    <3> QED
      BY <3>1, <1>1, ClimbBounds
  <2>3. FixedMulCeil(m, rates, SCALAR_7) = two
    <3>1. rates \in Nat
      BY <1>1
    <3> HIDE DEF rates
    <3> QED
      BY <3>1, <1>1, FixedMulCeilWhole DEF rates
  <2> HIDE DEF climb, ir, one, two
  <2>4. ir = climb + two /\ ir \in Nat /\ two <= ir
    BY <2>1, <2>2, <2>3, <1>2
  <2> QED
    BY <2>4, <1>1, <1>2, <1>5 DEF ir, climb, one, two
<1> QED
  BY <1>1, <1>3, <1>4, <1>5

\* The borrow rate never falls with the utilisation, within a part of the curve or from
\* one to the next.
LEMMA CurIrMonotone ==
    ASSUME NEW c \in ReserveConfig, NEW m \in Nat,
           NEW util \in Nat, NEW more \in Nat, util <= more
    PROVE  CurIr(util, c, m) <= CurIr(more, c, m)
<1> DEFINE one == FixedMulCeil(c.r_one + c.r_base, m, SCALAR_7)
           two == FixedMulCeil(c.r_two + c.r_one + c.r_base, m, SCALAR_7)
           ir  == CurIr(util, c, m)
           ir2 == CurIr(more, c, m)
<1>1. /\ c.r_base \in Nat /\ c.r_one \in Nat /\ c.r_two \in Nat /\ c.r_three \in Nat
      /\ c.util \in Nat /\ c.util > 0 /\ SCALAR_7 \in Nat /\ SCALAR_7 > 0
      /\ MAX_KINK \in Nat /\ MAX_KINK < SCALAR_7
  BY ScalarAssumption, MaxKink DEF ReserveConfig
<1>2. one \in Nat /\ two \in Nat /\ one <= two /\ ir \in Nat /\ ir2 \in Nat
  BY CurIrParts
<1>3. CASE more <= c.util
  <2> DEFINE climb  == Climb(util, 0, c.util, c.r_one)
             climb2 == Climb(more, 0, c.util, c.r_one)
  <2>1. climb \in Nat /\ climb2 \in Nat /\ climb <= climb2
    <3>1. 0 \in Nat /\ 0 <= util /\ 0 <= more /\ 0 < c.util
      BY <1>1
    <3> QED
      BY <3>1, <1>1, ClimbBounds
  <2>2. /\ ir = FixedMulCeil(climb + c.r_base, m, SCALAR_7)
        /\ ir2 = FixedMulCeil(climb2 + c.r_base, m, SCALAR_7)
    <3>1. util <= c.util
      BY <1>1, <1>3
    <3> QED
      BY <1>3, <3>1, CurIrParts
  <2> HIDE DEF climb, climb2, ir, ir2
  <2>3. /\ climb + c.r_base \in Nat /\ climb2 + c.r_base \in Nat
        /\ climb + c.r_base <= climb2 + c.r_base /\ m <= m
    BY <2>1, <1>1
  <2>4. ir <= ir2
    BY <2>2, <2>3, <1>1, FixedMonotone
  <2> QED
    BY <2>4 DEF ir, ir2
<1>4. CASE util > c.util /\ more <= MAX_KINK
  <2> DEFINE climb  == Climb(util, c.util, MAX_KINK, c.r_two)
             climb2 == Climb(more, c.util, MAX_KINK, c.r_two)
  <2>1. /\ more > c.util /\ util <= MAX_KINK /\ c.util < MAX_KINK
        /\ c.util <= util /\ c.util <= more
    BY <1>1, <1>4
  <2>2. climb \in Nat /\ climb2 \in Nat /\ climb <= climb2
    BY <2>1, <1>1, ClimbBounds
  <2>3. /\ ir = FixedMulCeil(climb + c.r_one + c.r_base, m, SCALAR_7)
        /\ ir2 = FixedMulCeil(climb2 + c.r_one + c.r_base, m, SCALAR_7)
    BY <2>1, <1>4, CurIrParts
  <2> HIDE DEF climb, climb2, ir, ir2
  <2>4. /\ climb + c.r_one + c.r_base \in Nat /\ climb2 + c.r_one + c.r_base \in Nat
        /\ climb + c.r_one + c.r_base <= climb2 + c.r_one + c.r_base /\ m <= m
    BY <2>2, <1>1
  <2>5. ir <= ir2
    BY <2>3, <2>4, <1>1, FixedMonotone
  <2> QED
    BY <2>5 DEF ir, ir2
<1>5. CASE util > c.util /\ util > MAX_KINK
  <2> DEFINE climb  == Climb(util, MAX_KINK, SCALAR_7, c.r_three)
             climb2 == Climb(more, MAX_KINK, SCALAR_7, c.r_three)
  <2>1. more > c.util /\ more > MAX_KINK /\ MAX_KINK <= util /\ MAX_KINK <= more
    BY <1>1, <1>5
  <2>2. climb \in Nat /\ climb2 \in Nat /\ climb <= climb2
    BY <2>1, <1>1, ClimbBounds
  <2>3. ir = climb + two /\ ir2 = climb2 + two
    BY <2>1, <1>5, CurIrParts
  <2> HIDE DEF climb, climb2, two, ir, ir2
  <2>4. ir <= ir2
    BY <2>2, <2>3, <1>2
  <2> QED
    BY <2>4 DEF ir, ir2
<1>6. CASE util <= c.util /\ more > c.util
  <2>1. ir <= one /\ one <= ir2
    <3>1. ir <= one
      BY <1>6, CurIrParts
    <3>2. CASE more <= MAX_KINK
      BY <1>6, <3>1, <3>2, CurIrParts
    <3>3. CASE more > MAX_KINK
      <4>1. two <= ir2
        BY <1>6, <3>3, CurIrParts
      <4> HIDE DEF one, two, ir, ir2
      <4> QED
        BY <4>1, <3>1, <1>2
    <3> QED
      BY <1>1, <3>2, <3>3
  <2> HIDE DEF one, ir, ir2
  <2>2. ir <= ir2
    BY <2>1, <1>2
  <2> QED
    BY <2>2 DEF ir, ir2
<1>7. CASE util > c.util /\ util <= MAX_KINK /\ more > MAX_KINK
  <2>1. more > c.util
    BY <1>1, <1>7
  <2>2. ir <= two /\ two <= ir2
    BY <2>1, <1>7, CurIrParts
  <2> HIDE DEF two, ir, ir2
  <2>3. ir <= ir2
    BY <2>2, <1>2
  <2> QED
    BY <2>3 DEF ir, ir2
<1> QED
  BY <1>1, <1>3, <1>4, <1>5, <1>6, <1>7

-----------------------------------------------------------------------------
(***************************************************************************)
(* Types.                                                                  *)
(***************************************************************************)

\* The utilisation is at most one, and grows with the debt.
LEMMA CurUtilBounds ==
    ASSUME NEW data \in ReserveData
    PROVE  /\ CurUtil(data) \in Nat /\ CurUtil(data) <= SCALAR_7
           /\ \A after \in ReserveData :
                  /\ after.b_supply = data.b_supply /\ after.b_rate = data.b_rate
                  /\ after.d_rate = data.d_rate /\ data.d_supply <= after.d_supply
                  => CurUtil(data) <= CurUtil(after)
<1> DEFINE owed(r)   == FixedMulCeil(r.d_supply, r.d_rate, SCALAR_12)
           owned(r)  == FixedMulFloor(r.b_supply, r.b_rate, SCALAR_12)
           lent(r)   == FixedDivCeil(owed(r), owned(r), SCALAR_7)
<1>1. /\ SCALAR_7 \in Nat /\ SCALAR_7 > 0 /\ SCALAR_12 \in Nat /\ SCALAR_12 > 0
  BY ScalarAssumption
<1>2. \A r \in ReserveData : owed(r) \in Nat /\ owned(r) \in Nat
  BY <1>1, FixedNat DEF ReserveData
<1>3. \A r \in ReserveData : CurUtil(r) = IF owed(r) = 0 THEN 0
                                          ELSE IF owed(r) >= owned(r) THEN SCALAR_7
                                          ELSE lent(r)
  BY DEF CurUtil
<1>4. \A r, q \in ReserveData : r.d_rate = q.d_rate /\ r.d_supply <= q.d_supply
                                => owed(r) <= owed(q)
  <2> SUFFICES ASSUME NEW r \in ReserveData, NEW q \in ReserveData,
                      r.d_rate = q.d_rate, r.d_supply <= q.d_supply
               PROVE  owed(r) <= owed(q)
    OBVIOUS
  <2>1. /\ r.d_supply \in Nat /\ q.d_supply \in Nat /\ r.d_rate \in Nat /\ q.d_rate \in Nat
        /\ r.d_rate <= q.d_rate
    BY DEF ReserveData
  <2> QED
    BY <2>1, <1>1, FixedMonotone
<1>5. \A r \in ReserveData : owed(r) < owned(r) => lent(r) \in Nat /\ lent(r) <= SCALAR_7
  <2> SUFFICES ASSUME NEW r \in ReserveData, owed(r) < owned(r)
               PROVE  lent(r) \in Nat /\ lent(r) <= SCALAR_7
    OBVIOUS
  <2> DEFINE a == owed(r)
             b == owned(r)
  <2>1. a \in Nat /\ b \in Nat /\ a <= b /\ b > 0 /\ SCALAR_7 <= SCALAR_7
    BY <1>1, <1>2
  <2> HIDE DEF a, b
  <2>2. FixedDivCeil(a, b, SCALAR_7) \in Nat
    BY <2>1, <1>1, FixedNat
  <2>3. FixedDivCeil(a, b, SCALAR_7) <= FixedDivCeil(b, b, SCALAR_7)
    BY <2>1, <1>1, FixedMonotone
  <2>4. FixedDivCeil(b, b, SCALAR_7) = SCALAR_7
    <3>1. FixedDivCeil(b, b, SCALAR_7) = FixedMulCeil(b, SCALAR_7, b)
      BY DEF FixedDivCeil, FixedMulCeil
    <3> QED
      BY <3>1, <2>1, <1>1, FixedMulCeilWhole
  <2> QED
    BY <2>2, <2>3, <2>4 DEF a, b
<1>6. \A r, q \in ReserveData :
          owned(r) = owned(q) /\ owed(r) <= owed(q) /\ owed(q) < owned(q)
          => lent(r) <= lent(q)
  <2> SUFFICES ASSUME NEW r \in ReserveData, NEW q \in ReserveData,
                      owned(r) = owned(q), owed(r) <= owed(q), owed(q) < owned(q)
               PROVE  lent(r) <= lent(q)
    OBVIOUS
  <2> DEFINE a == owed(r)
             b == owned(q)
             c == owed(q)
  <2>1. a \in Nat /\ b \in Nat /\ c \in Nat /\ a <= c /\ b > 0 /\ SCALAR_7 <= SCALAR_7
    BY <1>1, <1>2
  <2>2. lent(r) = FixedDivCeil(a, b, SCALAR_7) /\ lent(q) = FixedDivCeil(c, b, SCALAR_7)
    OBVIOUS
  <2> HIDE DEF a, b, c
  <2>3. FixedDivCeil(a, b, SCALAR_7) <= FixedDivCeil(c, b, SCALAR_7)
    BY <2>1, <1>1, FixedMonotone
  <2> HIDE DEF lent
  <2> QED
    BY <2>2, <2>3
<1>7. \A r, q \in ReserveData :
          r.b_supply = q.b_supply /\ r.b_rate = q.b_rate => owned(r) = owned(q)
  OBVIOUS
<1> HIDE DEF owed, owned, lent
<1>8. CurUtil(data) \in Nat /\ CurUtil(data) <= SCALAR_7
  BY <1>1, <1>2, <1>3, <1>5
<1>9. ASSUME NEW after \in ReserveData,
             after.b_supply = data.b_supply, after.b_rate = data.b_rate,
             after.d_rate = data.d_rate, data.d_supply <= after.d_supply
      PROVE  CurUtil(data) <= CurUtil(after)
  <2>1. owed(data) <= owed(after) /\ owned(data) = owned(after)
    BY <1>4, <1>7, <1>9
  <2>2. /\ owed(data) \in Nat /\ owed(after) \in Nat
        /\ owned(data) \in Nat /\ owned(after) \in Nat
    BY <1>2
  <2>3. CASE owed(data) = 0
    <3>1. CurUtil(after) \in Nat
      BY <1>1, <1>2, <1>3, <1>5
    <3> QED
      BY <2>3, <3>1, <1>3
  <2>4. CASE owed(after) >= owned(after) /\ owed(data) # 0
    <3>1. CurUtil(after) = SCALAR_7
      BY <2>1, <2>2, <2>4, <1>3
    <3> QED
      BY <3>1, <1>8
  <2>5. CASE owed(after) < owned(after) /\ owed(data) # 0
    <3>1. CurUtil(after) = lent(after) /\ CurUtil(data) = lent(data)
      BY <2>1, <2>2, <2>5, <1>3
    <3>2. lent(data) <= lent(after)
      BY <2>1, <2>5, <1>6
    <3> QED
      BY <3>1, <3>2
  <2> QED
    BY <2>2, <2>3, <2>4, <2>5
<1> QED
  BY <1>8, <1>9

\* Interest accrues to a reserve that is one again.
LEMMA AccruedType ==
    ASSUME NEW reserve, reserve.data \in ReserveData, reserve.config \in ReserveConfig,
           NEW bstop_rate \in 0..SCALAR_7
    PROVE  Accrued(reserve, bstop_rate) \in ReserveData
<1> DEFINE data     == reserve.data
           cur_ir   == CurIr(CurUtil(data), reserve.config, data.ir_mod)
           owed     == FixedMulCeil(data.d_supply, data.d_rate, SCALAR_12)
           owned    == FixedMulFloor(data.b_supply, data.b_rate, SCALAR_12)
           gross    == FixedMulFloor(owed, cur_ir, SCALAR_7)
           interest == gross \div SECONDS_PER_YEAR
           kept     == FixedMulFloor(interest, SCALAR_7 - bstop_rate, SCALAR_7)
           b_rate   == FixedDivFloor(owned + kept, data.b_supply, SCALAR_12)
           grown    == FixedMulFloor(data.d_rate, cur_ir, SCALAR_7)
           d_rate   == data.d_rate + grown \div SECONDS_PER_YEAR
<1>1. /\ SCALAR_7 \in Nat /\ SCALAR_7 > 0 /\ SCALAR_12 \in Nat /\ SCALAR_12 > 0
      /\ SECONDS_PER_YEAR \in Nat /\ SECONDS_PER_YEAR > 0 /\ SCALAR_7 - bstop_rate \in Nat
  BY ScalarAssumption
<1>2. /\ data.b_supply \in Nat /\ data.b_supply > 0 /\ data.b_rate \in Nat
      /\ data.d_supply \in Nat /\ data.d_rate \in Nat /\ data.ir_mod \in Nat
  BY DEF ReserveData
<1>3. \A n \in Nat : n \div SECONDS_PER_YEAR \in Nat
  BY <1>1, DivNat
<1>4. cur_ir \in Nat
  <2>1. CurUtil(data) \in Nat
    BY CurUtilBounds
  <2> QED
    BY <2>1, <1>2, CurIrParts
<1>5. owed \in Nat /\ owned \in Nat
  BY <1>1, <1>2, FixedNat
<1>6. Accrued(reserve, bstop_rate) = [data EXCEPT !.b_rate = b_rate, !.d_rate = d_rate]
  BY DEF Accrued
<1> HIDE DEF owed, owned, cur_ir
<1>7. gross \in Nat /\ grown \in Nat
  BY <1>1, <1>2, <1>4, <1>5, FixedNat
<1> HIDE DEF gross, grown
<1>8. interest \in Nat /\ d_rate \in Nat
  BY <1>2, <1>3, <1>7
<1> HIDE DEF interest, d_rate
<1>9. kept \in Nat
  BY <1>1, <1>8, FixedNat
<1> HIDE DEF kept
<1>10. b_rate \in Nat
  <2>1. owned + kept \in Nat
    BY <1>5, <1>9
  <2> QED
    BY <2>1, <1>1, <1>2, FixedNat
<1> HIDE DEF b_rate, data
<1>11. data \in ReserveData
  BY DEF data
<1> QED
  BY <1>6, <1>8, <1>10, <1>11, Zenon DEF ReserveData

\* Settling gives a vault written now.
LEMMA SettledType ==
    ASSUME NEW t \in Nat, NEW v \in VaultWritten(t), NEW f \in Fee, NEW new_rate \in Nat
    PROVE  /\ UpdateRate(v, f, new_rate, t) \in VaultWritten(t)
           /\ UpdateRate(v, f, new_rate, t).last_update_timestamp = t
           /\ v \in VaultWritten(t + 1)
<1> DEFINE w == UpdateRate(v, f, new_rate, t)
<1>1. v \in AnyVault /\ v.last_update_timestamp <= t /\ f \in FeeRecord
  BY DEF VaultWritten, AnyVault, Fee, FeeRecord
<1>2. w \in AnyVault /\ w.last_update_timestamp = t
  BY <1>1, UpdateRateBounds
<1> HIDE DEF w
<1>3. t \in 0..t
  OBVIOUS
<1>4. w \in VaultWritten(t)
  BY <1>2, <1>3, Zenon DEF AnyVault, VaultWritten
<1>5. \A i : i \in 0..t => i \in 0..(t + 1)
  OBVIOUS
<1>6. v \in VaultWritten(t + 1)
  BY <1>5, Zenon DEF VaultWritten
<1> QED
  BY <1>2, <1>4, <1>6 DEF w

\* The reserve that the estimate reads.
LEMMA ReserveType ==
    ASSUME TypeOK
    PROVE  /\ GetReserve.data \in ReserveData
           /\ GetReserve.config = mock.config /\ mock.config \in ReserveConfig
           /\ mock.backstop \in 0..SCALAR_7
<1>1. /\ mock.b_rate \in Nat \cup {None} /\ mock.data \in ReserveData
      /\ mock.config \in ReserveConfig /\ mock.backstop \in 0..SCALAR_7
  BY DEF TypeOK
<1>2. mock.b_rate # None => [mock.data EXCEPT !.b_rate = mock.b_rate] \in ReserveData
  <2>1. mock.b_rate # None => mock.b_rate \in Nat
    BY <1>1
  <2> QED
    BY <2>1, <1>1, Zenon DEF ReserveData
<1> QED
  BY <1>1, <1>2 DEF GetReserve

\* The vault that the contract would work on.
LEMMA VaultUpdatedType ==
    ASSUME TypeOK
    PROVE  GetVaultUpdated \in VaultWritten(now) /\ GetVaultUpdated \in VaultWritten(now + 1)
<1>1. now \in Nat /\ vault \in VaultWritten(now) /\ fee \in Fee /\ GetReserve.data.b_rate \in Nat
  BY ReserveType DEF TypeOK, ReserveData
<1>2. GetVaultUpdated \in VaultWritten(now)
  BY <1>1, SettledType DEF GetVaultUpdated
<1> QED
  BY <1>1, <1>2, SettledType

\* A field of the mock pool is set to a value of its type.
LEMMA MockFields ==
    ASSUME TypeOK
    PROVE  /\ \A r \in Nat : [mock EXCEPT !.b_rate = r].b_rate \in Nat
           /\ \A r \in Nat : [mock EXCEPT !.b_rate = r] \in
                  [b_rate : Nat \cup {None}, data : ReserveData, config : ReserveConfig,
                   backstop : 0..SCALAR_7]
           /\ \A r \in 0..SCALAR_7 : [mock EXCEPT !.backstop = r] \in
                  [b_rate : Nat \cup {None}, data : ReserveData, config : ReserveConfig,
                   backstop : 0..SCALAR_7]
           /\ \A c \in ReserveConfig : [mock EXCEPT !.config = c] \in
                  [b_rate : Nat \cup {None}, data : ReserveData, config : ReserveConfig,
                   backstop : 0..SCALAR_7]
           /\ \A r \in ReserveData : [mock EXCEPT !.b_rate = None, !.data = r] \in
                  [b_rate : Nat \cup {None}, data : ReserveData, config : ReserveConfig,
                   backstop : 0..SCALAR_7]
BY Zenon DEF TypeOK

\* Every variable keeps its type.
LEMMA TypeStep == TypeOK /\ [Next]_vars => TypeOK'
<1> SUFFICES ASSUME TypeOK, [Next]_vars PROVE TypeOK'
  OBVIOUS
<1>1. now \in Nat /\ fee \in Fee /\ vault \in VaultWritten(now)
  BY DEF TypeOK
<1>2. CASE \E data \in Reserves : SetData(data)
  <2>1. PICK data \in Reserves : SetData(data)
    BY <1>2
  <2>2. data \in ReserveData
    BY ReservesAssumption
  <2> QED
    BY <2>1, <2>2, <1>1, MockFields, Zenon DEF SetData, TypeOK
<1>3. CASE \E data \in Reserves : SetBRate(data.b_rate)
  <2>1. PICK data \in Reserves : SetBRate(data.b_rate)
    BY <1>3
  <2>2. data.b_rate \in Nat
    BY ReservesAssumption DEF ReserveData
  <2> QED
    BY <2>1, <2>2, <1>1, MockFields, Zenon DEF SetBRate, TypeOK
<1>4. CASE \E bstop_rate \in BackstopRates : SetBackstopRate(bstop_rate)
  <2>1. PICK bstop_rate \in BackstopRates : SetBackstopRate(bstop_rate)
    BY <1>4
  <2>2. bstop_rate \in 0..SCALAR_7
    BY BackstopAssumption
  <2> QED
    BY <2>1, <2>2, <1>1, MockFields, Zenon DEF SetBackstopRate, TypeOK
<1>5. CASE \E config \in ReserveConfigs : SetConfig(config)
  <2>1. PICK config \in ReserveConfigs : SetConfig(config)
    BY <1>5
  <2>2. config \in ReserveConfig
    BY ConfigsAssumption
  <2> QED
    BY <2>1, <2>2, <1>1, MockFields, Zenon DEF SetConfig, TypeOK
<1>6. CASE \E f \in FeeConfigs : SetFee(f)
  <2>1. PICK f \in FeeConfigs : SetFee(f)
    BY <1>6
  <2>2. f \in Fee
    <3>1. f \in [rate_type : Nat, rate : Nat]
      BY FeesAssumption
    <3>2. f.rate_type \in 0..2 /\ f.rate \in 0..SCALAR_7
      BY <2>1, <3>1, ScalarAssumption DEF SetFee, ValidFee
    <3> QED
      BY <3>1, <3>2 DEF Fee
  <2>3. GetVaultUpdated \in VaultWritten(now)
    BY VaultUpdatedType
  <2> QED
    BY <2>1, <2>2, <2>3 DEF SetFee, TypeOK
<1>7. CASE Accrue
  <2> DEFINE data == Accrued(GetReserve, mock.backstop)
  <2>1. data \in ReserveData
    BY ReserveType, AccruedType
  <2>2. /\ mock' = [mock EXCEPT !.b_rate = None, !.data = data]
        /\ now' = now + 1 /\ fee' = fee
        /\ vault' = UpdateRate(GetVaultUpdated, fee, mock'.data.b_rate, now + 1)
    BY <1>7 DEF Accrue
  <2> HIDE DEF data
  <2>3. mock' \in [b_rate : Nat \cup {None}, data : ReserveData, config : ReserveConfig,
                   backstop : 0..SCALAR_7]
    BY <2>1, <2>2, MockFields
  <2>4. mock'.data.b_rate \in Nat
    BY <2>3 DEF ReserveData
  <2>5. now + 1 \in Nat /\ GetVaultUpdated \in VaultWritten(now + 1)
    BY <1>1, VaultUpdatedType
  <2>6. vault' \in VaultWritten(now + 1)
    BY <2>2, <2>4, <2>5, <1>1, SettledType
  <2> QED
    BY <1>1, <2>2, <2>3, <2>5, <2>6 DEF TypeOK
<1>8. CASE UNCHANGED vars
  BY <1>8 DEF TypeOK, vars
<1> QED
  BY <1>2, <1>3, <1>4, <1>5, <1>6, <1>7, <1>8 DEF Next

\* Whatever pool the estimate is read from, and however long interest accrues in it, all
\* rates, supplies and balances stay natural numbers.
THEOREM TypeCorrect == Spec => []TypeOK
<1>1. Init => TypeOK
  <2> SUFFICES ASSUME Init PROVE TypeOK
    OBVIOUS
  <2>1. PICK setup \in TestSetups :
            /\ mock = [b_rate |-> None, data |-> setup.data, config |-> setup.config,
                       backstop |-> setup.backstop]
            /\ fee = setup.fee
            /\ vault = setup.vault
            /\ now = 0
    BY DEF Init
  <2>2. /\ setup.data \in ReserveData /\ setup.config \in ReserveConfig
        /\ setup.backstop \in 0..SCALAR_7 /\ setup.fee \in Fee
        /\ setup.vault \in VaultWritten(0)
    BY SetupsAssumption
  <2> QED
    BY <2>1, <2>2 DEF TypeOK
<1> QED
  BY <1>1, TypeStep, PTL DEF Spec

-----------------------------------------------------------------------------
(***************************************************************************)
(* The estimate.                                                           *)
(***************************************************************************)

\* The borrow rate has no gap where one part of the curve ends and the next begins.
THEOREM CurveTheorem == Spec => []CurveMeetsAtKinks
<1>1. TypeOK => CurveMeetsAtKinks
  <2> SUFFICES ASSUME TypeOK, GetReserve.config.util < MAX_KINK PROVE CurveMeetsAtKinks
    BY DEF CurveMeetsAtKinks
  <2> DEFINE c     == GetReserve.config
             m     == GetReserve.data.ir_mod
             base  == c.r_one + c.r_base
             one   == FixedMulCeil(base, m, SCALAR_7)
             two   == FixedMulCeil(c.r_two + c.r_one + c.r_base, m, SCALAR_7)
             first == Climb(c.util + 1, c.util, MAX_KINK, c.r_two)
             last  == Climb(MAX_KINK + 1, MAX_KINK, SCALAR_7, c.r_three)
             k     == MAX_KINK
  <2>1. c \in ReserveConfig /\ m \in Nat
    BY ReserveType DEF ReserveData
  <2>2. /\ c.util < k /\ k \in Nat /\ k < SCALAR_7 /\ c.util \in Nat /\ c.util > 0
        /\ c.r_base \in Nat /\ c.r_one \in Nat /\ c.r_two \in Nat /\ c.r_three \in Nat
        /\ SCALAR_7 \in Nat /\ SCALAR_7 > 0
    BY <2>1, ScalarAssumption, MaxKink DEF ReserveConfig
  <2> HIDE DEF c, m
  <2>3. first \in Nat /\ last \in Nat
    <3>1. /\ c.util + 1 \in Nat /\ c.util <= c.util + 1 /\ k + 1 \in Nat /\ k <= k + 1
      BY <2>2
    <3> QED
      BY <3>1, <2>2, ClimbBounds
  <2>4. CurIr(c.util, c, m) = one
    <3>1. 0 \in Nat /\ 0 <= c.util /\ 0 < c.util /\ c.util <= c.util
      BY <2>2
    <3>2. Climb(c.util, 0, c.util, c.r_one) = c.r_one
      BY <3>1, <2>2, ClimbBounds
    <3>3. CurIr(c.util, c, m)
          = FixedMulCeil(Climb(c.util, 0, c.util, c.r_one) + c.r_base, m, SCALAR_7)
      BY <3>1, <2>1, <2>2, CurIrParts
    <3> QED
      BY <3>2, <3>3
  <2>5. CurIr(c.util + 1, c, m) = FixedMulCeil(first + c.r_one + c.r_base, m, SCALAR_7)
    <3>1. c.util + 1 \in Nat /\ c.util + 1 > c.util /\ c.util + 1 <= MAX_KINK
      BY <2>2
    <3> QED
      BY <3>1, <2>1, CurIrParts
  <2>6. CurIr(k, c, m) = two
    <3>1. k > c.util /\ k <= MAX_KINK /\ c.util <= k
      BY <2>2
    <3>2. Climb(k, c.util, k, c.r_two) = c.r_two
      BY <3>1, <2>2, ClimbBounds
    <3>3. MAX_KINK \in Nat /\ MAX_KINK > c.util /\ MAX_KINK <= MAX_KINK
      BY <2>2
    <3>4. CurIr(MAX_KINK, c, m)
          = FixedMulCeil(Climb(MAX_KINK, c.util, MAX_KINK, c.r_two) + c.r_one + c.r_base,
                         m, SCALAR_7)
      BY <3>3, <2>1, CurIrParts
    <3> QED
      BY <3>2, <3>4
  <2>7. CurIr(k + 1, c, m) = last + two
    <3>1. k + 1 \in Nat /\ k + 1 > c.util /\ k + 1 > MAX_KINK
      BY <2>2
    <3> QED
      BY <3>1, <2>1, CurIrParts
  <2>8. two \in Nat /\ one \in Nat
    BY <2>1, <2>2, CurIrParts
  <2>9. CurIr(k + 1, c, m) - CurIr(k, c, m) \in 0..(last + 1)
    <3> HIDE DEF last, two, k
    <3> QED
      BY <2>3, <2>6, <2>7, <2>8
  <2>10. CurIr(c.util + 1, c, m) - CurIr(c.util, c, m)
         \in 0..FixedMulCeil(first + 1, m, SCALAR_7)
    <3> DEFINE ir   == FixedMulCeil(first + c.r_one + c.r_base, m, SCALAR_7)
               part == FixedMulCeil(first, m, SCALAR_7)
               step == FixedMulCeil(first + 1, m, SCALAR_7)
    <3> HIDE DEF first
    <3>1. /\ base \in Nat /\ first + c.r_one + c.r_base = base + first /\ base + first \in Nat
          /\ base <= base + first /\ first <= first + 1 /\ first + 1 \in Nat /\ m <= m
      BY <2>1, <2>2, <2>3
    <3> HIDE DEF base
    <3>2. ir = FixedMulCeil(base + first, m, SCALAR_7)
      BY <3>1
    <3>3. ir \in Nat /\ part \in Nat /\ step \in Nat /\ one <= ir /\ part <= step
      BY <2>1, <2>2, <2>3, <3>1, <3>2, FixedNat, FixedMonotone
    <3>4. ir <= one + part
      BY <2>1, <2>2, <2>3, <3>1, <3>2, FixedMulCeilSum
    <3> HIDE DEF ir, part, step, one
    <3>5. ir - one \in 0..step
      BY <2>8, <3>3, <3>4
    <3> QED
      BY <2>4, <2>5, <3>5 DEF ir, step
  <2> QED
    BY <2>9, <2>10 DEF CurveMeetsAtKinks, c, m, first, last, k
<1> QED
  BY <1>1, TypeCorrect, PTL

\* With more debt, and the same prices, curve and backstop, suppliers earn no less.
LEMMA SupplyAprMonotone ==
    ASSUME NEW r, NEW r2, r.data \in ReserveData, r2.data \in ReserveData,
           r.config \in ReserveConfig, r2.config = r.config,
           r2.data = [r.data EXCEPT !.d_supply = r2.data.d_supply],
           r.data.d_supply <= r2.data.d_supply, NEW bstop_rate \in 0..SCALAR_7
    PROVE  /\ SupplyApr(r, bstop_rate) \in Nat /\ SupplyApr(r2, bstop_rate) \in Nat
           /\ SupplyApr(r, bstop_rate) <= SupplyApr(r2, bstop_rate)
<1> DEFINE c     == r.config
           m     == r.data.ir_mod
           util  == CurUtil(r.data)
           util2 == CurUtil(r2.data)
           ir    == CurIr(util, c, m)
           ir2   == CurIr(util2, c, m)
           part  == FixedMulFloor(ir, util, SCALAR_7)
           part2 == FixedMulFloor(ir2, util2, SCALAR_7)
           left  == SCALAR_7 - bstop_rate
<1>1. SCALAR_7 \in Nat /\ SCALAR_7 > 0 /\ left \in Nat /\ left <= left
  BY ScalarAssumption
<1>2. /\ m \in Nat /\ r2.data.ir_mod = m /\ r2.data.b_supply = r.data.b_supply
      /\ r2.data.b_rate = r.data.b_rate /\ r2.data.d_rate = r.data.d_rate
  BY DEF ReserveData
<1>3. util \in Nat /\ util2 \in Nat /\ util <= util2
  BY <1>2, CurUtilBounds
<1>4. /\ SupplyApr(r, bstop_rate) = FixedMulFloor(part, left, SCALAR_7)
      /\ SupplyApr(r2, bstop_rate) = FixedMulFloor(part2, left, SCALAR_7)
  BY <1>2 DEF SupplyApr
<1> HIDE DEF util, util2, left, m
<1>5. ir \in Nat /\ ir2 \in Nat /\ ir <= ir2
  BY <1>2, <1>3, CurIrParts, CurIrMonotone
<1> HIDE DEF ir, ir2
<1>6. part \in Nat /\ part2 \in Nat /\ part <= part2
  BY <1>1, <1>3, <1>5, FixedNat, FixedMonotone
<1> HIDE DEF part, part2
<1>7. /\ FixedMulFloor(part, left, SCALAR_7) \in Nat
      /\ FixedMulFloor(part2, left, SCALAR_7) \in Nat
  BY <1>1, <1>6, FixedNat
<1>8. FixedMulFloor(part, left, SCALAR_7) <= FixedMulFloor(part2, left, SCALAR_7)
  BY <1>1, <1>6, FixedMonotone
<1> QED
  BY <1>4, <1>7, <1>8

\* With a fee of any type, depositors of a vault get no less of a larger rate.
LEMMA EstAprMonotone ==
    ASSUME NEW apr \in Nat, NEW apr2 \in Nat, apr <= apr2, NEW f \in Fee, NEW admin \in Nat
    PROVE  /\ EstApr(apr, f, admin) \in Nat /\ EstApr(apr2, f, admin) \in Nat
           /\ EstApr(apr, f, admin) <= EstApr(apr2, f, admin)
<1>1. /\ f.rate_type \in 0..2 /\ f.rate \in Nat /\ SCALAR_7 - f.rate \in Nat
      /\ SCALAR_7 \in Nat /\ SCALAR_7 > 0
  BY ScalarAssumption DEF Fee
<1>2. CASE f.rate_type = 0
  <2> DEFINE left == SCALAR_7 - f.rate
  <2>1. /\ EstApr(apr, f, admin) = FixedMulFloor(apr, left, SCALAR_7)
        /\ EstApr(apr2, f, admin) = FixedMulFloor(apr2, left, SCALAR_7)
    BY <1>2 DEF EstApr
  <2>2. left \in Nat /\ left <= left
    BY <1>1
  <2> HIDE DEF left
  <2> QED
    BY <2>1, <2>2, <1>1, FixedNat, FixedMonotone
<1>3. CASE f.rate_type = 1
  BY <1>1, <1>3 DEF EstApr
<1>4. CASE f.rate_type = 2
  BY <1>1, <1>4 DEF EstApr
<1> QED
  BY <1>1, <1>2, <1>3, <1>4

\* A step that leaves vault and fee as they are takes no time.
LEMMA UnsettledStep == TypeOK /\ Next /\ UNCHANGED <<fee, vault>> => now' = now
<1> SUFFICES ASSUME TypeOK, Next, fee' = fee, vault' = vault PROVE now' = now
  OBVIOUS
<1>1. ~Accrue
  <2> SUFFICES ASSUME Accrue PROVE FALSE
    OBVIOUS
  <2> DEFINE data == Accrued(GetReserve, mock.backstop)
  <2>1. data \in ReserveData
    BY ReserveType, AccruedType
  <2>2. /\ mock' = [mock EXCEPT !.b_rate = None, !.data = data] /\ now' = now + 1
        /\ vault' = UpdateRate(GetVaultUpdated, fee, mock'.data.b_rate, now + 1)
    BY DEF Accrue
  <2> HIDE DEF data
  <2>3. mock'.data.b_rate \in Nat
    BY <2>1, <2>2, MockFields DEF ReserveData
  <2>4. /\ now \in Nat /\ now + 1 \in Nat /\ fee \in Fee /\ vault \in VaultWritten(now)
        /\ GetVaultUpdated \in VaultWritten(now + 1)
    BY VaultUpdatedType DEF TypeOK
  <2>5. vault'.last_update_timestamp = now + 1
    BY <2>2, <2>3, <2>4, SettledType
  <2>6. vault.last_update_timestamp <= now
    BY <2>4 DEF VaultWritten
  <2> QED
    BY <2>4, <2>5, <2>6
<1> QED
  BY <1>1 DEF Next, SetData, SetBRate, SetBackstopRate, SetConfig, SetFee

\* More debt never lowers the estimate, whatever the curve, the fee and the vault.
THEOREM DebtTheorem == Spec => EstimateFollowsDebt
<1>1. ASSUME TypeOK, TypeOK', Next, MoreDebt PROVE EstimatedApr' >= EstimatedApr
  <2> DEFINE apr   == SupplyApr(GetReserve, mock.backstop)
             apr2  == SupplyApr(GetReserve', mock.backstop)
             admin == GetVaultUpdated.admin_balance
  <2>1. /\ GetReserve.data \in ReserveData /\ GetReserve.config \in ReserveConfig
        /\ mock.backstop \in 0..SCALAR_7 /\ GetReserve.config = mock.config
    BY <1>1, ReserveType
  <2>2. GetReserve'.data \in ReserveData /\ GetReserve'.config = GetReserve.config
    <3>1. mock'.data \in ReserveData /\ mock'.b_rate \in Nat \cup {None}
      BY <1>1 DEF TypeOK
    <3>2. mock'.b_rate # None => [mock'.data EXCEPT !.b_rate = mock'.b_rate] \in ReserveData
      <4>1. mock'.b_rate # None => mock'.b_rate \in Nat
        BY <3>1
      <4> QED
        BY <4>1, <3>1, Zenon DEF ReserveData
    <3> QED
      BY <2>1, <3>1, <3>2, <1>1 DEF GetReserve, MoreDebt
  <2>3. GetReserve.data.d_supply <= GetReserve'.data.d_supply
    BY <1>1, <2>1, <2>2 DEF MoreDebt, ReserveData
  <2>4. apr \in Nat /\ apr2 \in Nat /\ apr <= apr2
    <3>1. GetReserve'.data
          = [GetReserve.data EXCEPT !.d_supply = GetReserve'.data.d_supply]
      BY <1>1 DEF MoreDebt
    <3> QED
      BY <2>1, <2>2, <2>3, <3>1, SupplyAprMonotone
  <2>5. GetVaultUpdated' = GetVaultUpdated
    <3>1. now' = now
      BY <1>1, UnsettledStep DEF MoreDebt
    <3>2. GetReserve'.data.b_rate = GetReserve.data.b_rate
      BY <1>1, <2>1 DEF MoreDebt, ReserveData
    <3> QED
      BY <1>1, <3>1, <3>2 DEF GetVaultUpdated, MoreDebt
  <2>6. fee \in Fee /\ admin \in Nat
    BY <1>1, VaultUpdatedType DEF TypeOK, VaultWritten
  <2>7. EstimatedApr = EstApr(apr, fee, admin) /\ EstimatedApr' = EstApr(apr2, fee, admin)
    BY <1>1, <2>5 DEF EstimatedApr, MoreDebt
  <2> HIDE DEF apr, apr2, admin
  <2>8. EstApr(apr, fee, admin) <= EstApr(apr2, fee, admin)
    BY <2>4, <2>6, EstAprMonotone
  <2>9. EstApr(apr, fee, admin) \in Int /\ EstApr(apr2, fee, admin) \in Int
    BY <2>4, <2>6, EstAprMonotone
  <2> QED
    BY <2>7, <2>8, <2>9
<1> QED
  BY <1>1, TypeCorrect, PTL DEF Spec, EstimateFollowsDebt

-----------------------------------------------------------------------------
(***************************************************************************)
(* What the estimate leaves out, in integers.  Throughout, s7 and s12 are  *)
(* the scalars, y is a year, r and r2 are the b_rate before and after one  *)
(* unit of time, g = r2 - r, s is the supply APR, ir the borrow rate, and  *)
(* `held' b_tokens are worth `unit' units of s7 before.                    *)
(***************************************************************************)

\* What suppliers get of a unit of time's interest is at most what they own at the rate
\* s, but for two units of s, ...
LEMMA KeptAbove ==
    ASSUME NEW s7 \in Nat, NEW y \in Nat, NEW a \in Nat, s7 > 0, a <= s7,
           NEW ir \in Nat, NEW util \in Nat, NEW owed \in Nat, NEW owned \in Nat,
           NEW p \in Nat, NEW s \in Nat,
           NEW gross \in Nat, NEW interest \in Nat, NEW kept \in Nat,
           owed * s7 <= util * owned,
           ir * util < p * s7 + s7, p * a < s * s7 + s7,
           gross * s7 <= owed * ir, interest * y <= gross, kept * s7 <= interest * a
    PROVE  kept * (y * s7) <= owned * (s + 2)
<1>1. (kept * s7) * y <= (interest * a) * y
  BY ProductType, ProductMonotone
<1>2. (interest * y) * a <= gross * a
  BY ProductType, ProductMonotone
<1>3. (gross * s7) * a <= (owed * ir) * a
  BY ProductType, ProductMonotone
<1>4. (owed * s7) * (ir * a) <= (util * owned) * (ir * a)
  BY ProductType, ProductMonotone
<1> DEFINE p1 == p + 1
           s2 == s + 2
<1>5. p1 \in Nat /\ s2 \in Nat /\ ir * util <= p1 * s7 /\ p1 * a <= s2 * s7
  <2>1. p1 * s7 = p * s7 + s7 /\ p1 * a = p * a + a /\ s2 * s7 = s * s7 + 2 * s7
    BY Z3
  <2>2. p * s7 \in Int /\ p * a \in Int /\ s * s7 \in Int /\ ir * util \in Int
    BY ProductType
  <2> QED
    BY <2>1, <2>2
<1> HIDE DEF p1, s2
<1>6. (ir * util) * (a * owned) <= (p1 * s7) * (a * owned)
  BY <1>5, ProductType, ProductMonotone
<1>7. (p1 * a) * (s7 * owned) <= (s2 * s7) * (s7 * owned)
  BY <1>5, ProductType, ProductMonotone
<1>8. ((kept * s7) * y) * (s7 * s7) <= (s2 * s7) * (s7 * owned)
  <2>1. ((kept * s7) * y) * (s7 * s7) <= (gross * a) * (s7 * s7)
    <3>1. (kept * s7) * y <= gross * a
      BY <1>1, <1>2, <1>5, Z3
    <3> QED
      BY <3>1, ProductType, ProductMonotone
  <2>2. (gross * a) * (s7 * s7) <= ((owed * ir) * a) * s7
    <3>1. ((gross * s7) * a) * s7 <= ((owed * ir) * a) * s7
      BY <1>3, ProductType, ProductMonotone
    <3> QED
     BY <3>1, Z3
  <2> QED
  BY <2>1, <2>2, <1>4, <1>5, <1>6, <1>7, Z3
<1>9. (kept * (y * s7)) * (s7 * s7) <= (owned * s2) * (s7 * s7)
  BY <1>5, <1>8, Z3
<1>10. s7 * s7 > 0
  BY Z3
<1> QED
  BY <1>5, <1>9, <1>10, ProductType, ProductCancel DEF s2

\* ... and at least that, but for what one unit of utilisation and one of each rounding
\* make.
LEMMA KeptBelow ==
    ASSUME NEW s7 \in Nat, NEW y \in Nat, NEW a \in Nat, s7 > 0, a <= s7,
           NEW ir \in Nat, NEW util \in Nat, NEW owed \in Nat, NEW owned \in Nat,
           NEW p \in Nat, NEW s \in Nat,
           NEW gross \in Nat, NEW interest \in Nat, NEW kept \in Nat,
           util * owned <= owed * s7 + owned,
           p * s7 <= ir * util, s * s7 <= p * a,
           owed * ir < gross * s7 + s7, gross < interest * y + y,
           interest * a < kept * s7 + s7
    PROVE  owned * (s * s7) <= owned * ir + (kept + 2) * (y * (s7 * s7))
<1> DEFINE w   == y * (s7 * s7)
           due == a * (owed * ir)
<1>1. due <= kept * w + 2 * w
  <2>1. (gross + 1) * s7 <= (interest * y + y) * s7
    BY ProductType, ProductMonotone
  <2>2. owed * ir <= (interest * y) * s7 + y * s7
    BY <2>1, Z3
  <2>3. (owed * ir) * a <= ((interest * y) * s7 + y * s7) * a
    BY <2>2, ProductType, ProductMonotone
  <2>4. (interest * a) * (y * s7) <= (kept * s7 + s7) * (y * s7)
    BY ProductType, ProductMonotone
  <2>5. a * (y * s7) <= s7 * (y * s7)
    BY ProductType, ProductMonotone
  <2> QED
    BY <2>3, <2>4, <2>5, Z3
<1>2. (owned * (s * s7)) * s7 <= (due + owned * ir) * s7
  <2>1. (util * owned) * (ir * a) <= (owed * s7 + owned) * (ir * a)
    BY ProductType, ProductMonotone
  <2>2. (p * s7) * (owned * a) <= (ir * util) * (owned * a)
    BY ProductType, ProductMonotone
  <2>3. (s * s7) * (s7 * owned) <= (p * a) * (s7 * owned)
    BY ProductType, ProductMonotone
  <2>4. a * (owned * ir) <= s7 * (owned * ir)
    BY ProductType, ProductMonotone
  <2> QED
    BY <2>1, <2>2, <2>3, <2>4, Z3
<1>3. owned * (s * s7) <= due + owned * ir
  BY <1>2, ProductType, ProductCancel
<1> QED
  BY <1>1, <1>3, Z3

\* So the b_rate rises at most at the rate s, but for two units of it, ...
LEMMA RateAbove ==
    ASSUME NEW s7 \in Nat, NEW s12 \in Nat, NEW y \in Nat, NEW s \in Nat,
           NEW owned \in Nat, NEW kept \in Nat, NEW bs \in Nat, bs > 0,
           NEW r \in Nat, NEW r2 \in Nat,
           owned * s12 <= bs * r, r2 * bs <= (owned + kept) * s12,
           kept * (y * s7) <= owned * (s + 2)
    PROVE  (r2 - r) * (y * s7) <= r * (s + 2)
<1> DEFINE g == r2 - r
<1>1. g \in Int /\ g * bs <= kept * s12
  BY Z3
<1> HIDE DEF g
<1>2. (g * bs) * (y * s7) <= (kept * s12) * (y * s7)
  BY <1>1, ProductType, ProductMonotone
<1>3. (kept * (y * s7)) * s12 <= (owned * (s + 2)) * s12
  BY ProductType, ProductMonotone
<1>4. (owned * s12) * (s + 2) <= (bs * r) * (s + 2)
  BY ProductType, ProductMonotone
<1>5. (g * (y * s7)) * bs <= (r * (s + 2)) * bs
  BY <1>1, <1>2, <1>3, <1>4, Z3
<1>6. g * (y * s7) \in Int /\ r * (s + 2) \in Int
  BY <1>1, Z3
<1> QED
  BY <1>5, <1>6, ProductCancel DEF g

\* ... and so, at least, does the value of the b_tokens that one of the suppliers holds.
LEMMA RateBelow ==
    ASSUME NEW s7 \in Nat, NEW s12 \in Nat, NEW y \in Nat, NEW s \in Nat, NEW ir \in Nat,
           NEW owned \in Nat, NEW kept \in Nat, NEW bs \in Nat, bs > 0,
           NEW r \in Nat, NEW r2 \in Nat, NEW held \in Nat, held <= bs,
           owned * s12 <= bs * r, bs * r < owned * s12 + s12,
           (owned + kept) * s12 < r2 * bs + bs,
           owned * (s * s7) <= owned * ir + (kept + 2) * (y * (s7 * s7))
    PROVE  (held * r) * (s * s7)
           <= (held * (r2 - r) + 3 * s12 + held) * (y * (s7 * s7))
              + s12 * (s * s7) + (held * r) * ir
<1> DEFINE g == r2 - r
           w == y * (s7 * s7)
           t == s * s7
           rest == (3 * s12) * w + s12 * t
<1>1. g \in Int /\ w \in Nat /\ t \in Nat /\ rest \in Nat
  BY Z3
<1>2. kept * s12 <= g * bs + bs + s12
  BY Z3
<1>3. owned * t <= owned * ir + (kept + 2) * w
  OBVIOUS
<1>4. rest = (3 * s12) * w + s12 * t
  OBVIOUS
<1> HIDE DEF g, w, t, rest
<1>5. (owned * t) * s12 <= (owned * ir + (kept + 2) * w) * s12
  BY <1>1, <1>3, ProductType, ProductMonotone
<1>6. (bs * r) * t <= (owned * s12 + s12) * t
  BY <1>1, ProductType, ProductMonotone
<1>7. (owned * s12) * ir <= (bs * r) * ir
  BY <1>1, ProductType, ProductMonotone
<1>8. (kept * s12) * w <= (g * bs + bs + s12) * w
  BY <1>1, <1>2, ProductType, ProductMonotone
<1>9. (bs * r) * t <= (bs * r) * ir + (g * bs + bs) * w + rest
  BY <1>1, <1>4, <1>5, <1>6, <1>7, <1>8, Z3
<1>10. ((bs * r) * t) * held <= ((bs * r) * ir + (g * bs + bs) * w + rest) * held
  BY <1>1, <1>9, ProductType, ProductMonotone
<1>11. held * rest <= bs * rest
  BY <1>1, ProductMonotone
<1> DEFINE lhs == (held * r) * t
           rhs == (held * g + held) * w + rest + (held * r) * ir
<1>12. lhs * bs <= rhs * bs
  BY <1>1, <1>10, <1>11, Z3
<1>13. lhs \in Int /\ rhs \in Int
  BY <1>1, Z3
<1> HIDE DEF lhs, rhs
<1>14. lhs <= rhs
  BY <1>12, <1>13, ProductCancel
<1>15. lhs <= (held * g + 3 * s12 + held) * w + s12 * t + (held * r) * ir
  BY <1>1, <1>4, <1>14, Z3 DEF lhs, rhs
<1> QED
  BY <1>15 DEF lhs, g, w, t

\* In units of that value: the interest over a year is at most the estimate of it, ...
LEMMA InterestAbove ==
    ASSUME NEW s7 \in Nat, s7 > 0, NEW y \in Nat, NEW s \in Nat, NEW r \in Nat, NEW g \in Int,
           NEW held \in Nat, NEW unit \in Nat,
           g * (y * s7) <= r * (s + 2), held * r < unit * s7 + s7
    PROVE  y * (held * g) <= (unit + 1) * (s + 2)
<1>1. (g * (y * s7)) * held <= (r * (s + 2)) * held
  BY ProductType, ProductMonotone
<1>2. (held * r) * (s + 2) <= (unit * s7 + s7) * (s + 2)
  BY ProductType, ProductMonotone
<1>3. (y * (held * g)) * s7 <= ((unit + 1) * (s + 2)) * s7
  BY <1>1, <1>2, Z3
<1>4. y * (held * g) \in Int /\ (unit + 1) * (s + 2) \in Int
  BY Z3
<1> QED
  BY <1>3, <1>4, ProductCancel

\* ... and at least, where `part' is what one unit of utilisation costs.
LEMMA InterestBelow ==
    ASSUME NEW s7 \in Nat, s7 > 0, NEW s12 \in Nat, NEW scale \in Nat, scale * s7 = s12,
           NEW y \in Nat, NEW s \in Nat, NEW ir \in Nat, NEW r \in Nat, NEW g \in Int,
           NEW held \in Nat, NEW unit \in Nat, NEW part \in Nat,
           (held * r) * (s * s7)
           <= (held * g + 3 * s12 + held) * (y * (s7 * s7)) + s12 * (s * s7) + (held * r) * ir,
           unit * s7 <= held * r, held * r < unit * s7 + s7,
           (unit + 1) * ir < part * s7 + s7
    PROVE  unit * s <= y * (held * g) + part + 1 + scale * s + y * (held + 3 * s12)
<1> DEFINE rhs == y * (held * g) + part + 1 + scale * s + y * (held + 3 * s12)
<1>1. (unit * s7) * (s * s7) <= (held * r) * (s * s7)
  BY ProductType, ProductMonotone
<1>2. (held * r) * ir <= (unit * s7 + s7) * ir
  BY ProductType, ProductMonotone
<1>3. ((unit + 1) * ir) * s7 <= (part * s7 + s7) * s7
  BY ProductType, ProductMonotone
<1>4. s12 * (s * s7) = (scale * s) * (s7 * s7)
  BY Z3
<1>5. (unit * s) * (s7 * s7) <= rhs * (s7 * s7)
  BY <1>1, <1>2, <1>3, <1>4, Z3
<1>6. unit * s \in Int /\ rhs \in Int /\ s7 * s7 \in Int /\ s7 * s7 > 0
  BY Z3
<1> HIDE DEF rhs
<1>7. unit * s <= rhs
  BY <1>5, <1>6, ProductCancel
<1> QED
  BY <1>7 DEF rhs

\* A take rate leaves, of the interest, at most the part that the estimate shows, ...
LEMMA TakenAbove ==
    ASSUME NEW s7 \in Nat, s7 > 0, NEW f \in 0..s7, NEW y \in Nat, NEW s \in Nat, NEW est \in Nat,
           NEW r \in Nat, NEW g \in Int, NEW held \in Nat, NEW unit \in Nat,
           NEW gained \in Int, NEW slack \in Nat,
           gained * s7 <= (held * g) * (s7 - f) + slack * s7,
           g * (y * s7) <= r * (s + 2), held * r < unit * s7 + s7,
           s * (s7 - f) < est * s7 + s7
    PROVE  y * gained <= (unit + 1) * (est + 3) + y * slack
<1> DEFINE k == s7 - f
<1>1. k \in Nat /\ k <= s7
  OBVIOUS
<1>2. gained * s7 <= (held * g) * k + slack * s7 /\ s * k < est * s7 + s7
  OBVIOUS
<1> HIDE DEF k
<1>3. (gained * s7) * (y * s7) <= ((held * g) * k + slack * s7) * (y * s7)
  BY <1>1, <1>2, ProductType, ProductMonotone
<1>4. (g * (y * s7)) * (held * k) <= (r * (s + 2)) * (held * k)
  BY <1>1, ProductType, ProductMonotone
<1>5. (s + 2) * k <= (est + 3) * s7
  <2>1. /\ s * k \in Int /\ est * s7 \in Int
        /\ (s + 2) * k = s * k + 2 * k /\ (est + 3) * s7 = est * s7 + 3 * s7
    BY <1>1, Z3
  <2> QED
  BY <1>1, <1>2, <2>1
<1>6. ((s + 2) * k) * (held * r) <= ((est + 3) * s7) * (held * r)
  BY <1>1, <1>5, ProductType, ProductMonotone
<1>7. (held * r) * ((est + 3) * s7) <= (unit * s7 + s7) * ((est + 3) * s7)
  BY ProductType, ProductMonotone
<1> DEFINE rhs == (unit + 1) * (est + 3) + y * slack
<1>8. (y * gained) * (s7 * s7) <= rhs * (s7 * s7)
  BY <1>1, <1>3, <1>4, <1>6, <1>7, Z3
<1>9. y * gained \in Int /\ rhs \in Int /\ s7 * s7 \in Int /\ s7 * s7 > 0
  BY Z3
<1> HIDE DEF rhs
<1>10. y * gained <= rhs
  BY <1>8, <1>9, ProductCancel
<1> QED
  BY <1>10 DEF rhs

\* ... and at least.
LEMMA TakenBelow ==
    ASSUME NEW s7 \in Nat, s7 > 0, NEW f \in 0..s7, NEW y \in Nat, NEW s \in Nat, NEW est \in Nat,
           NEW interest \in Int, NEW unit \in Nat, NEW gained \in Int, NEW slack \in Nat,
           interest * (s7 - f) <= gained * s7,
           unit * s <= y * interest + slack, est * s7 <= s * (s7 - f)
    PROVE  unit * est <= y * gained + slack
<1> DEFINE k == s7 - f
<1>1. k \in Nat /\ k <= s7
  OBVIOUS
<1>2. interest * k <= gained * s7 /\ est * s7 <= s * k
  OBVIOUS
<1> HIDE DEF k
<1>3. (interest * k) * y <= (gained * s7) * y
  BY <1>1, <1>2, ProductType, ProductMonotone
<1>4. (unit * s) * k <= (y * interest + slack) * k
  BY <1>1, ProductType, ProductMonotone
<1>5. (est * s7) * unit <= (s * k) * unit
  BY <1>1, <1>2, ProductType, ProductMonotone
<1>6. k * slack <= s7 * slack
  BY <1>1, ProductType, ProductMonotone
<1>7. (unit * est) * s7 <= (y * gained + slack) * s7
  BY <1>1, <1>3, <1>4, <1>5, <1>6, Z3
<1>8. unit * est \in Int /\ y * gained + slack \in Int
  BY Z3
<1> QED
  BY <1>7, <1>8, ProductCancel

\* Depositors who have the value at the target b_rate gained the rate f at most, ...
LEMMA CappedAbove ==
    ASSUME NEW s7 \in Nat, s7 > 0, NEW f \in Nat, NEW y \in Nat, NEW s12 \in Nat,
           NEW r \in Nat, NEW r2 \in Nat, NEW held \in Nat, NEW unit \in Nat,
           NEW gained \in Int, NEW target \in Int,
           gained + held * r <= held * target + r2 + s12,
           target * (s7 * y) <= r * (s7 * y + f) + s7 * y,
           held * r < unit * s7 + s7
    PROVE  y * gained <= (unit + 1) * f + y * (held + r2 + s12)
<1> DEFINE year == s7 * y
           rhs  == (unit + 1) * f + y * (held + r2 + s12)
<1>1. year \in Nat /\ rhs \in Int /\ y * gained \in Int
  BY Z3
<1>2. year = s7 * y
  OBVIOUS
<1> HIDE DEF year
<1>3. (gained + held * r) * year <= (held * target + r2 + s12) * year
  BY <1>1, ProductType, ProductMonotone
<1>4. (target * year) * held <= (r * (year + f) + year) * held
  BY <1>1, <1>2, ProductType, ProductMonotone
<1>5. (held * r) * f <= (unit * s7 + s7) * f
  BY ProductType, ProductMonotone
<1>6. gained * year <= (unit * s7 + s7) * f + (held + r2 + s12) * year
  BY <1>1, <1>3, <1>4, <1>5, Z3
<1>7. (y * gained) * s7 <= rhs * s7
  BY <1>2, <1>6, Z3
<1> HIDE DEF rhs
<1>8. y * gained <= rhs
  BY <1>1, <1>7, ProductCancel
<1> QED
  BY <1>8 DEF rhs

\* ... and at least.
LEMMA CappedBelow ==
    ASSUME NEW s7 \in Nat, s7 > 0, NEW f \in Nat, NEW y \in Nat, NEW s12 \in Nat, s12 > 0,
           NEW r \in Nat, NEW held \in Nat, NEW unit \in Nat, NEW coarse \in Nat,
           NEW gained \in Int, NEW target \in Int,
           held * target <= gained + held * r,
           (r * (s7 * y + f)) * s12 <= (target * s12 + r) * (s7 * y),
           unit * s7 <= held * r, held * r < coarse * s12 + s12
    PROVE  unit * f <= y * gained + y * (coarse + 1)
<1> DEFINE year == s7 * y
           rhs  == y * gained + y * (coarse + 1)
<1>1. year \in Nat /\ rhs \in Int /\ unit * f \in Int
  BY Z3
<1>2. year = s7 * y
  OBVIOUS
<1>3. (r * (year + f)) * s12 <= (target * s12 + r) * year
  OBVIOUS
<1> HIDE DEF year
<1>4. ((r * (year + f)) * s12) * held <= ((target * s12 + r) * year) * held
  BY <1>1, <1>3, ProductType, ProductMonotone
<1>5. (held * target) * (s12 * year) <= (gained + held * r) * (s12 * year)
  BY <1>1, ProductType, ProductMonotone
<1>6. (held * r) * year <= (coarse * s12 + s12) * year
  BY <1>1, ProductType, ProductMonotone
<1>7. (unit * s7) * (f * s12) <= (held * r) * (f * s12)
  BY ProductType, ProductMonotone
<1>8. ((unit * f) * s7) * s12 <= (gained * year + (coarse + 1) * year) * s12
  BY <1>1, <1>4, <1>5, <1>6, <1>7, Z3
<1>9. (unit * f) * s7 <= gained * year + (coarse + 1) * year
  <2>1. (unit * f) * s7 \in Int /\ gained * year + (coarse + 1) * year \in Int
    BY <1>1, Z3
  <2> QED
    BY <1>8, <2>1, ProductCancel
<1>10. (unit * f) * s7 <= rhs * s7
  BY <1>2, <1>9, Z3
<1> HIDE DEF rhs
<1>11. unit * f <= rhs
  BY <1>1, <1>10, ProductCancel
<1> QED
  BY <1>11 DEF rhs

-----------------------------------------------------------------------------
(***************************************************************************)
(* Depositors get what the estimate says.                                  *)
(***************************************************************************)

\* While not all is lent, the utilisation is what is owed of what is owned, rounded up.
LEMMA UtilBounds ==
    ASSUME NEW data \in ReserveData, CurUtil(data) < SCALAR_7
    PROVE  LET util  == CurUtil(data)
               owed  == FixedMulCeil(data.d_supply, data.d_rate, SCALAR_12)
               owned == FixedMulFloor(data.b_supply, data.b_rate, SCALAR_12)
           IN  /\ owed \in Nat /\ owned \in Nat
               /\ owed * SCALAR_7 <= util * owned
               /\ util * owned <= owed * SCALAR_7 + owned
<1> DEFINE util  == CurUtil(data)
           owed  == FixedMulCeil(data.d_supply, data.d_rate, SCALAR_12)
           owned == FixedMulFloor(data.b_supply, data.b_rate, SCALAR_12)
<1>1. SCALAR_7 \in Nat /\ SCALAR_7 > 0
  BY ScalarAssumption
<1>2. owed \in Nat /\ owned \in Nat
  <2>1. /\ data.d_supply \in Nat /\ data.d_rate \in Nat /\ data.b_supply \in Nat
        /\ data.b_rate \in Nat /\ SCALAR_12 \in Nat /\ SCALAR_12 > 0
    BY ScalarAssumption DEF ReserveData
  <2> QED
    BY <2>1, FixedNat
<1>3. util = IF owed = 0 THEN 0
             ELSE IF owed >= owned THEN SCALAR_7 ELSE FixedDivCeil(owed, owned, SCALAR_7)
  BY DEF CurUtil
<1>4. util < SCALAR_7
  OBVIOUS
<1> HIDE DEF util, owed, owned
<1>5. CASE owed = 0
  <2>1. util = 0
    BY <1>3, <1>5
  <2>2. 0 * SCALAR_7 = 0 /\ 0 * owned = 0
    BY <1>1, <1>2, ProductType
  <2> QED
    BY <2>1, <2>2, <1>2, <1>5 DEF util, owed, owned
<1>6. CASE owed # 0
  <2>1. owed < owned /\ util = FixedDivCeil(owed, owned, SCALAR_7)
    BY <1>1, <1>2, <1>3, <1>4, <1>6
  <2>2. /\ util \in Int /\ owed * SCALAR_7 <= util * owned
        /\ util * owned < owed * SCALAR_7 + owned
    <3>1. owed \in Int /\ owned \in Int /\ SCALAR_7 \in Int /\ owned > 0
      BY <2>1, <1>1, <1>2
    <3> QED
      BY <2>1, <3>1, FixedDivCeilBounds
  <2>3. util * owned \in Int /\ owed * SCALAR_7 \in Int
    BY <2>2, <1>1, <1>2, ProductType
  <2> QED
    BY <2>2, <2>3, <1>2 DEF util, owed, owned
<1> QED
  BY <1>5, <1>6

\* Over one unit of time the b_rate rises at the rate of SupplyApr, but for what the
\* roundings of the two computations differ by.
LEMMA AccruedBounds ==
    ASSUME NEW reserve, reserve.data \in ReserveData, reserve.config \in ReserveConfig,
           NEW bstop_rate \in 0..SCALAR_7, CurUtil(reserve.data) < SCALAR_7
    PROVE  LET data == reserve.data
               r    == data.b_rate
               r2   == Accrued(reserve, bstop_rate).b_rate
               s    == SupplyApr(reserve, bstop_rate)
               ir   == CurIr(CurUtil(data), reserve.config, data.ir_mod)
           IN  /\ r2 \in Nat /\ s \in Nat /\ ir \in Nat
               /\ (r2 - r) * (SECONDS_PER_YEAR * SCALAR_7) <= r * (s + 2)
               /\ \A held \in Nat :
                      held <= data.b_supply
                      => (held * r) * (s * SCALAR_7)
                         <= (held * (r2 - r) + 3 * SCALAR_12 + held)
                                * (SECONDS_PER_YEAR * (SCALAR_7 * SCALAR_7))
                            + SCALAR_12 * (s * SCALAR_7) + (held * r) * ir
<1> DEFINE data     == reserve.data
           bs       == data.b_supply
           r        == data.b_rate
           util     == CurUtil(data)
           ir       == CurIr(util, reserve.config, data.ir_mod)
           a        == SCALAR_7 - bstop_rate
           p        == FixedMulFloor(ir, util, SCALAR_7)
           s        == FixedMulFloor(p, a, SCALAR_7)
           owed     == FixedMulCeil(data.d_supply, data.d_rate, SCALAR_12)
           owned    == FixedMulFloor(bs, r, SCALAR_12)
           gross    == FixedMulFloor(owed, ir, SCALAR_7)
           interest == gross \div SECONDS_PER_YEAR
           kept     == FixedMulFloor(interest, a, SCALAR_7)
           r2       == FixedDivFloor(owned + kept, bs, SCALAR_12)
<1>1. /\ SCALAR_7 \in Nat /\ SCALAR_7 > 0 /\ SCALAR_12 \in Nat /\ SCALAR_12 > 0
      /\ SECONDS_PER_YEAR \in Nat /\ SECONDS_PER_YEAR > 0 /\ a \in Nat /\ a <= SCALAR_7
  BY ScalarAssumption
<1>2. bs \in Nat /\ bs > 0 /\ r \in Nat /\ data.ir_mod \in Nat
  BY DEF ReserveData
<1>3. SupplyApr(reserve, bstop_rate) = s /\ Accrued(reserve, bstop_rate).b_rate = r2
  <2>1. Accrued(reserve, bstop_rate).b_rate = r2
    BY Zenon DEF Accrued, ReserveData
  <2> QED
    BY <2>1 DEF SupplyApr
<1>4. /\ owed \in Nat /\ owned \in Nat
      /\ owed * SCALAR_7 <= util * owned /\ util * owned <= owed * SCALAR_7 + owned
  BY UtilBounds
<1>5. owned * SCALAR_12 <= bs * r /\ bs * r < owned * SCALAR_12 + SCALAR_12
  BY <1>1, <1>2, FloorOfNat
<1>6. util \in Nat
  BY CurUtilBounds
<1> HIDE DEF util, owed, owned
<1>7. ir \in Nat
  BY <1>2, <1>6, CurIrParts
<1> HIDE DEF ir, a
<1>8. p \in Nat /\ p * SCALAR_7 <= ir * util /\ ir * util < p * SCALAR_7 + SCALAR_7
  BY <1>1, <1>6, <1>7, FloorOfNat
<1> HIDE DEF p
<1>9. s \in Nat /\ s * SCALAR_7 <= p * a /\ p * a < s * SCALAR_7 + SCALAR_7
  BY <1>1, <1>8, FloorOfNat
<1>10. gross \in Nat /\ gross * SCALAR_7 <= owed * ir /\ owed * ir < gross * SCALAR_7 + SCALAR_7
  <2>1. gross \in Nat
    BY <1>1, <1>4, <1>7, FixedNat
  <2>2. owed \in Int /\ ir \in Int /\ SCALAR_7 \in Int
    BY <1>1, <1>4, <1>7
  <2> QED
    BY <2>1, <2>2, <1>1, FixedMulFloorBounds
<1> HIDE DEF s, gross
<1>11. /\ interest \in Nat /\ interest * SECONDS_PER_YEAR <= gross
       /\ gross < interest * SECONDS_PER_YEAR + SECONDS_PER_YEAR
  BY <1>1, <1>10, DivBounds, DivNat
<1> HIDE DEF interest
<1>12. /\ kept \in Nat /\ kept * SCALAR_7 <= interest * a
       /\ interest * a < kept * SCALAR_7 + SCALAR_7
  <2>1. kept \in Nat
    BY <1>1, <1>11, FixedNat
  <2>2. interest \in Int /\ a \in Int /\ SCALAR_7 \in Int
    BY <1>1, <1>11
  <2> QED
    BY <2>1, <2>2, <1>1, FixedMulFloorBounds
<1> HIDE DEF kept
<1>13. /\ r2 \in Nat /\ r2 * bs <= (owned + kept) * SCALAR_12
       /\ (owned + kept) * SCALAR_12 < r2 * bs + bs
  <2> DEFINE all == owned + kept
  <2>1. all \in Nat
    BY <1>4, <1>12
  <2> HIDE DEF all, bs
  <2>2. r2 = FixedDivFloor(all, bs, SCALAR_12)
    BY DEF all
  <2> HIDE DEF r2
  <2>3. r2 \in Nat
    BY <2>1, <2>2, <1>1, <1>2, FixedNat
  <2>4. all \in Int /\ bs \in Int /\ SCALAR_12 \in Int
    BY <2>1, <1>1, <1>2
  <2>5. r2 * bs <= all * SCALAR_12 /\ all * SCALAR_12 < r2 * bs + bs
    BY <2>2, <2>4, <1>2, FixedDivFloorBounds
  <2> QED
    BY <2>3, <2>5 DEF all
<1> HIDE DEF r2, data, bs, r
<1>14. kept * (SECONDS_PER_YEAR * SCALAR_7) <= owned * (s + 2)
  BY <1>1, <1>4, <1>6, <1>7, <1>8, <1>9, <1>10, <1>11, <1>12, KeptAbove
<1>15. owned * (s * SCALAR_7)
       <= owned * ir + (kept + 2) * (SECONDS_PER_YEAR * (SCALAR_7 * SCALAR_7))
  BY <1>1, <1>4, <1>6, <1>7, <1>8, <1>9, <1>10, <1>11, <1>12, KeptBelow
<1>16. (r2 - r) * (SECONDS_PER_YEAR * SCALAR_7) <= r * (s + 2)
  BY <1>1, <1>2, <1>4, <1>5, <1>9, <1>12, <1>13, <1>14, RateAbove
<1>17. ASSUME NEW held \in Nat, held <= bs
       PROVE  (held * r) * (s * SCALAR_7)
              <= (held * (r2 - r) + 3 * SCALAR_12 + held)
                     * (SECONDS_PER_YEAR * (SCALAR_7 * SCALAR_7))
                 + SCALAR_12 * (s * SCALAR_7) + (held * r) * ir
  BY <1>1, <1>2, <1>4, <1>5, <1>7, <1>9, <1>12, <1>13, <1>15, <1>17, RateBelow
<1> QED
  BY <1>3, <1>7, <1>9, <1>13, <1>16, <1>17 DEF data, bs, r, ir, util

\* A vault over one unit of time, in which the b_rate rises at the rate s: what AccruedBounds
\* says of the pool, and what the roundings of the estimate need.
Rises(v, r2, s, ir) ==
    LET held == v.total_b_tokens
        r    == v.b_rate
    IN  /\ (r2 - r) * (SECONDS_PER_YEAR * SCALAR_7) <= r * (s + 2)
        /\ (held * r) * (s * SCALAR_7)
           <= (held * (r2 - r) + 3 * SCALAR_12 + held)
                  * (SECONDS_PER_YEAR * (SCALAR_7 * SCALAR_7))
              + SCALAR_12 * (s * SCALAR_7) + (held * r) * ir

\* What the estimate is not exact by.
Inexact(v, s, ir) ==
    (((v.total_b_tokens * v.b_rate) \div SCALAR_7 + 1) * ir) \div SCALAR_7 + 1 + APR_SCALE * s

\* What the depositors have more after `moved' b_tokens became the admin's.
Gained(v, r2, moved) == v.total_b_tokens * (r2 - v.b_rate) - moved * r2

\* The numbers that the estimate is made of.
LEMMA UnitBounds ==
    ASSUME NEW v \in AnyVault, NEW ir \in Nat
    PROVE  LET value  == v.total_b_tokens * v.b_rate
               unit   == value \div SCALAR_7
               coarse == value \div SCALAR_12
               part   == ((unit + 1) * ir) \div SCALAR_7
           IN  /\ value \in Nat /\ unit \in Nat /\ coarse \in Nat /\ part \in Nat
               /\ unit * SCALAR_7 <= value /\ value < unit * SCALAR_7 + SCALAR_7
               /\ value < coarse * SCALAR_12 + SCALAR_12
               /\ (unit + 1) * ir < part * SCALAR_7 + SCALAR_7
<1> DEFINE value  == v.total_b_tokens * v.b_rate
           unit   == value \div SCALAR_7
           coarse == value \div SCALAR_12
           due    == (unit + 1) * ir
           part   == due \div SCALAR_7
<1>1. SCALAR_7 \in Nat /\ SCALAR_7 > 0 /\ SCALAR_12 \in Nat /\ SCALAR_12 > 0
  BY ScalarAssumption
<1>2. value \in Nat
  <2>1. v.total_b_tokens \in Nat /\ v.b_rate \in Nat
    BY DEF AnyVault
  <2> QED
    BY <2>1, ProductType
<1> HIDE DEF value
<1>3. unit \in Nat /\ coarse \in Nat
  BY <1>1, <1>2, DivNat
<1>4. /\ unit * SCALAR_7 <= value /\ value < unit * SCALAR_7 + SCALAR_7
      /\ value < coarse * SCALAR_12 + SCALAR_12
  <2>1. value \in Int /\ SCALAR_7 \in Int /\ SCALAR_12 \in Int
    BY <1>1, <1>2
  <2> QED
    BY <2>1, <1>1, DivBounds
<1> HIDE DEF unit, coarse
<1>5. due \in Nat
  BY <1>3, ProductType
<1> HIDE DEF due
<1>6. part \in Nat
  BY <1>1, <1>5, DivNat
<1>7. due < part * SCALAR_7 + SCALAR_7
  <2>1. due \in Int /\ SCALAR_7 \in Int
    BY <1>1, <1>5
  <2> QED
    BY <2>1, <1>1, DivBounds
<1> QED
  BY <1>2, <1>3, <1>4, <1>6, <1>7 DEF value, unit, coarse, due, part

\* It is a natural number.
LEMMA InexactType ==
    ASSUME NEW v \in AnyVault, NEW s \in Nat, NEW ir \in Nat
    PROVE  Inexact(v, s, ir) \in Nat
<1> DEFINE part == (((v.total_b_tokens * v.b_rate) \div SCALAR_7 + 1) * ir) \div SCALAR_7
           off  == Inexact(v, s, ir)
<1>1. part \in Nat
  BY UnitBounds
<1>2. APR_SCALE * s \in Nat
  <2>1. SCALAR_12 \in Nat /\ SCALAR_7 \in Nat /\ SCALAR_7 > 0
    BY ScalarAssumption
  <2>2. APR_SCALE \in Nat
    BY <2>1, DivNat DEF APR_SCALE
  <2> QED
    BY <2>2, ProductType
<1>3. off = part + 1 + APR_SCALE * s
  BY DEF Inexact
<1> HIDE DEF part, off
<1>4. off \in Nat
  BY <1>1, <1>2, <1>3
<1> QED
  BY <1>4 DEF off

\* All the interest: what the estimate says that the pool's suppliers earn.
LEMMA InterestEarned ==
    ASSUME NEW v \in AnyVault, NEW r2 \in Nat, NEW s \in Nat, NEW ir \in Nat, Rises(v, r2, s, ir)
    PROVE  LET unit     == (v.total_b_tokens * v.b_rate) \div SCALAR_7
               interest == v.total_b_tokens * (r2 - v.b_rate)
           IN  /\ interest \in Int
               /\ SECONDS_PER_YEAR * interest <= (unit + 1) * (s + 2)
               /\ unit * s
                  <= SECONDS_PER_YEAR * interest
                     + (Inexact(v, s, ir)
                        + SECONDS_PER_YEAR * (v.total_b_tokens + 3 * SCALAR_12))
<1> DEFINE held   == v.total_b_tokens
           r      == v.b_rate
           g      == r2 - r
           value  == held * r
           unit   == value \div SCALAR_7
           part   == ((unit + 1) * ir) \div SCALAR_7
<1>1. /\ SCALAR_7 \in Nat /\ SCALAR_7 > 0 /\ SCALAR_12 \in Nat
      /\ SECONDS_PER_YEAR \in Nat /\ APR_SCALE \in Nat /\ APR_SCALE * SCALAR_7 = SCALAR_12
  <2>1. SCALAR_12 \in Nat /\ SCALAR_7 \in Nat /\ SCALAR_7 > 0
    BY ScalarAssumption
  <2>2. APR_SCALE \in Nat
    BY <2>1, DivNat DEF APR_SCALE
  <2> QED
    BY <2>1, <2>2, ScalarAssumption, ScaleAssumption
<1>2. held \in Nat /\ r \in Nat /\ g \in Int
  BY DEF AnyVault
<1>3. /\ unit \in Nat /\ part \in Nat
      /\ unit * SCALAR_7 <= value /\ value < unit * SCALAR_7 + SCALAR_7
      /\ (unit + 1) * ir < part * SCALAR_7 + SCALAR_7
  BY UnitBounds
<1>4. /\ g * (SECONDS_PER_YEAR * SCALAR_7) <= r * (s + 2)
      /\ value * (s * SCALAR_7)
         <= (held * g + 3 * SCALAR_12 + held) * (SECONDS_PER_YEAR * (SCALAR_7 * SCALAR_7))
            + SCALAR_12 * (s * SCALAR_7) + value * ir
  BY DEF Rises
<1>5. Inexact(v, s, ir) = part + 1 + APR_SCALE * s
  BY DEF Inexact
<1> HIDE DEF held, r, g, unit, part
<1>6. SECONDS_PER_YEAR * (held * g) <= (unit + 1) * (s + 2)
  BY <1>1, <1>2, <1>3, <1>4, InterestAbove
<1>7. unit * s <= SECONDS_PER_YEAR * (held * g) + part + 1 + APR_SCALE * s
                  + SECONDS_PER_YEAR * (held + 3 * SCALAR_12)
  BY <1>1, <1>2, <1>3, <1>4, InterestBelow
<1> DEFINE all   == SECONDS_PER_YEAR * (held * g)
           fine  == APR_SCALE * s
           rough == SECONDS_PER_YEAR * (held + 3 * SCALAR_12)
<1>8. held * g \in Int /\ all \in Int /\ fine \in Int /\ rough \in Int
  BY <1>1, <1>2, ProductType
<1> HIDE DEF all, fine, rough
<1>9. all + part + 1 + fine + rough = all + ((part + 1 + fine) + rough)
  BY <1>3, <1>8
<1> QED
  BY <1>5, <1>6, <1>7, <1>8, <1>9 DEF held, g, r, unit, all, fine, rough

\* What EstimateIsEarned says, of a vault and the b_tokens that settling moves.
Earned(v, r2, s, ir, est, moved) ==
    LET value  == v.total_b_tokens * v.b_rate
        unit   == value \div SCALAR_7
        gained == SECONDS_PER_YEAR * Gained(v, r2, moved)
    IN  /\ gained >= unit * est - Inexact(v, s, ir)
                     - SECONDS_PER_YEAR
                       * (v.total_b_tokens + value \div SCALAR_12 + 1 + 3 * SCALAR_12)
        /\ gained <= (unit + 1) * (est + 3)
                     + SECONDS_PER_YEAR * (v.total_b_tokens + r2 + 2 * SCALAR_12)

\* The bounds of Earned from tighter ones: on either side any of the two that the fee of
\* a vault leads to.
LEMMA EarnedFrom ==
    ASSUME NEW v \in AnyVault, NEW r2 \in Nat, NEW s \in Nat, NEW ir \in Nat, NEW est \in Nat,
           NEW moved \in Int,
           LET unit   == (v.total_b_tokens * v.b_rate) \div SCALAR_7
               coarse == (v.total_b_tokens * v.b_rate) \div SCALAR_12
               gained == SECONDS_PER_YEAR * Gained(v, r2, moved)
           IN  /\ \/ unit * est
                     <= gained + (Inexact(v, s, ir)
                                  + SECONDS_PER_YEAR * (v.total_b_tokens + 3 * SCALAR_12))
                  \/ unit * est <= gained + SECONDS_PER_YEAR * (coarse + 1)
               /\ \/ gained <= (unit + 1) * (est + 2)
                  \/ gained <= (unit + 1) * (est + 3)
                               + SECONDS_PER_YEAR * (r2 + 2 * SCALAR_12)
                  \/ gained <= (unit + 1) * est
                               + SECONDS_PER_YEAR * (v.total_b_tokens + r2 + SCALAR_12)
    PROVE  Earned(v, r2, s, ir, est, moved)
<1> DEFINE held   == v.total_b_tokens
           value  == held * v.b_rate
           unit   == value \div SCALAR_7
           coarse == value \div SCALAR_12
           off    == Inexact(v, s, ir)
           gained == SECONDS_PER_YEAR * Gained(v, r2, moved)
           year   == SECONDS_PER_YEAR
<1>1. /\ held \in Nat /\ SCALAR_12 \in Nat /\ year \in Nat
      /\ unit \in Nat /\ coarse \in Nat
  BY UnitBounds, ScalarAssumption DEF AnyVault
<1>2. off \in Nat
  BY InexactType
<1>3. gained \in Int
  <2>1. v.b_rate \in Int /\ held \in Int /\ r2 - v.b_rate \in Int
    BY DEF AnyVault
  <2>2. held * (r2 - v.b_rate) \in Int /\ moved * r2 \in Int
    BY <2>1, ProductType
  <2>3. Gained(v, r2, moved) \in Int
    BY <2>2 DEF Gained
  <2> QED
    BY <2>3, <1>1, ProductType
<1>4. /\ \/ unit * est <= gained + (off + year * (held + 3 * SCALAR_12))
         \/ unit * est <= gained + year * (coarse + 1)
      /\ \/ gained <= (unit + 1) * (est + 2)
         \/ gained <= (unit + 1) * (est + 3) + year * (r2 + 2 * SCALAR_12)
         \/ gained <= (unit + 1) * est + year * (held + r2 + SCALAR_12)
  OBVIOUS
<1>5. Earned(v, r2, s, ir, est, moved)
      <=> /\ gained >= unit * est - off - year * (held + coarse + 1 + 3 * SCALAR_12)
          /\ gained <= (unit + 1) * (est + 3) + year * (held + r2 + 2 * SCALAR_12)
  BY DEF Earned
<1> HIDE DEF held, unit, coarse, off, gained, year
<1>6. gained >= unit * est - off - year * (held + coarse + 1 + 3 * SCALAR_12)
  <2>1. /\ (held + 3 * SCALAR_12) * year <= (held + coarse + 1 + 3 * SCALAR_12) * year
        /\ (coarse + 1) * year <= (held + coarse + 1 + 3 * SCALAR_12) * year
    BY <1>1, ProductMonotone
  <2> QED
    BY <1>1, <1>2, <1>3, <1>4, <2>1, Z3
<1>7. gained <= (unit + 1) * (est + 3) + year * (held + r2 + 2 * SCALAR_12)
  <2>1. /\ (r2 + 2 * SCALAR_12) * year <= (held + r2 + 2 * SCALAR_12) * year
        /\ (held + r2 + SCALAR_12) * year <= (held + r2 + 2 * SCALAR_12) * year
        /\ 0 * year <= (held + r2 + 2 * SCALAR_12) * year
    BY <1>1, ProductMonotone
  <2>2. /\ (est + 2) * (unit + 1) <= (est + 3) * (unit + 1)
        /\ est * (unit + 1) <= (est + 3) * (unit + 1)
    BY <1>1, ProductMonotone
  <2> QED
    BY <1>1, <1>3, <1>4, <2>1, <2>2, Z3
<1> QED
  BY <1>5, <1>6, <1>7

\* Take rate: the depositors get their part of the interest.
LEMMA TakeEarned ==
    ASSUME NEW v \in AnyVault, NEW rate \in 0..SCALAR_7, NEW r2 \in Nat, r2 > 0,
           NEW s \in Nat, NEW ir \in Nat, Rises(v, r2, s, ir)
    PROVE  LET est == FixedMulFloor(s, SCALAR_7 - rate, SCALAR_7)
           IN  est \in Nat /\ Earned(v, r2, s, ir, est, TakeRateBTokens(v, rate, r2))
<1> DEFINE est      == FixedMulFloor(s, SCALAR_7 - rate, SCALAR_7)
           held     == v.total_b_tokens
           r        == v.b_rate
           g        == r2 - r
           interest == held * g
           unit     == (held * r) \div SCALAR_7
           moved    == TakeRateBTokens(v, rate, r2)
           worth    == moved * r2
           slack    == Inexact(v, s, ir) + SECONDS_PER_YEAR * (held + 3 * SCALAR_12)
           gained   == Gained(v, r2, moved)
<1>1. /\ SCALAR_7 \in Nat /\ SCALAR_7 > 0 /\ SCALAR_12 \in Nat /\ SECONDS_PER_YEAR \in Nat
      /\ rate \in Nat /\ rate <= SCALAR_7 /\ SCALAR_7 - rate \in Nat
      /\ held \in Nat /\ r \in Nat /\ g \in Int
  BY ScalarAssumption DEF AnyVault
<1>2. est \in Nat /\ est * SCALAR_7 <= s * (SCALAR_7 - rate)
      /\ s * (SCALAR_7 - rate) < est * SCALAR_7 + SCALAR_7
  BY <1>1, FloorOfNat
<1>3. /\ moved \in Int /\ interest \in Int /\ worth \in Int
      /\ worth * SCALAR_7 <= interest * rate
      /\ (worth + r2 + 2 * SCALAR_12) * SCALAR_7 > interest * rate
  BY TakeWorth
<1>4. gained = interest - worth
  BY DEF Gained
<1>5. /\ unit \in Nat /\ held * r < unit * SCALAR_7 + SCALAR_7
  BY <1>1, UnitBounds
<1>6. /\ g * (SECONDS_PER_YEAR * SCALAR_7) <= r * (s + 2)
      /\ unit * s <= SECONDS_PER_YEAR * interest + slack
  BY InterestEarned DEF Rises
<1>7. slack \in Nat
  <2>1. Inexact(v, s, ir) \in Nat
    BY InexactType
  <2>2. SECONDS_PER_YEAR * (held + 3 * SCALAR_12) \in Nat
    BY <1>1, ProductType
  <2> QED
    BY <2>1, <2>2
<1> HIDE DEF est, held, r, g, interest, unit, worth, slack, gained
<1>8. /\ gained * SCALAR_7 <= interest * (SCALAR_7 - rate) + (r2 + 2 * SCALAR_12) * SCALAR_7
      /\ interest * (SCALAR_7 - rate) <= gained * SCALAR_7 /\ gained \in Int
  BY <1>1, <1>3, <1>4, Z3
<1>9. SECONDS_PER_YEAR * gained <= (unit + 1) * (est + 3)
                                   + SECONDS_PER_YEAR * (r2 + 2 * SCALAR_12)
  <2>1. interest = held * g /\ rate \in 0..SCALAR_7 /\ r2 + 2 * SCALAR_12 \in Nat
    BY <1>1 DEF interest
  <2> QED
    BY <2>1, <1>1, <1>2, <1>5, <1>6, <1>8, TakenAbove
<1>10. unit * est <= SECONDS_PER_YEAR * gained + slack
  BY <1>1, <1>2, <1>3, <1>5, <1>6, <1>7, <1>8, TakenBelow
<1>11. Earned(v, r2, s, ir, est, moved)
  BY <1>2, <1>3, <1>9, <1>10, EarnedFrom DEF held, r, unit, slack, gained
<1> QED
  BY <1>2, <1>11 DEF est

\* Capped and fixed rate: what settling moves is the difference to the target or nothing,
\* and never less than the difference.
LEMMA CappedMoves ==
    ASSUME NEW v \in VaultRecord, NEW f \in FeeRecord, f.rate_type \in {1, 2},
           NEW r2 \in Nat, NEW t \in Nat, NEW s \in Nat,
           BTokenDiff(v, f.rate, r2, t) \in Int,
           v.admin_balance > 0 => v.admin_balance + AdminBTokens(v, f, r2, t) > 0
    PROVE  LET diff  == BTokenDiff(v, f.rate, r2, t)
               moved == AdminBTokens(v, f, r2, t)
               est   == EstApr(s, f, v.admin_balance)
           IN  /\ est \in Nat /\ moved \in Int /\ moved >= diff
               /\ \/ est = s /\ s <= f.rate /\ moved >= 0
                  \/ est = f.rate
               /\ \/ moved = diff /\ est <= f.rate
                  \/ moved = 0 /\ est <= s
<1> DEFINE diff  == BTokenDiff(v, f.rate, r2, t)
           moved == AdminBTokens(v, f, r2, t)
           est   == EstApr(s, f, v.admin_balance)
           rate  == f.rate
<1>1. v.admin_balance \in Nat /\ diff \in Int /\ rate \in Nat
  BY ScalarAssumption DEF VaultRecord, FeeRecord
<1>2. v.admin_balance > 0 => v.admin_balance + moved > 0
  OBVIOUS
<1>3. CASE f.rate_type = 1
  <2>1. moved = IF diff <= 0 THEN 0 ELSE diff
    BY <1>3 DEF AdminBTokens
  <2>2. est = IF s > rate THEN rate ELSE s
    BY <1>3 DEF EstApr
  <2> HIDE DEF moved, diff, est, rate
  <2> QED
    BY <2>1, <2>2, <1>1 DEF moved, diff, est, rate
<1>4. CASE f.rate_type = 2
  <2>1. moved = IF diff <= 0 /\ v.admin_balance + diff < 0
                THEN IF -v.admin_balance < 0 THEN -v.admin_balance ELSE 0
                ELSE diff
    BY <1>4 DEF AdminBTokens, FixedRateBTokens
  <2>2. est = IF v.admin_balance > 0 \/ rate < s THEN rate ELSE s
    BY <1>4 DEF EstApr
  <2> HIDE DEF moved, diff, est, rate
  <2> QED
    BY <2>1, <2>2, <1>1, <1>2 DEF moved, diff, est, rate
<1> QED
  BY <1>3, <1>4

\* Capped and fixed rate: the depositors get the rate of the fee or, where that is less,
\* all the interest.
LEMMA CappedEarned ==
    ASSUME NEW v \in VaultRecord, NEW f \in FeeRecord, f.rate_type \in {1, 2},
           NEW r2 \in Nat, r2 > 0, NEW t \in Nat, t - v.last_update_timestamp = 1,
           NEW s \in Nat, NEW ir \in Nat, Rises(v, r2, s, ir),
           v.admin_balance > 0 => v.admin_balance + AdminBTokens(v, f, r2, t) > 0
    PROVE  LET est == EstApr(s, f, v.admin_balance)
           IN  est \in Nat /\ Earned(v, r2, s, ir, est, AdminBTokens(v, f, r2, t))
<1> DEFINE est      == EstApr(s, f, v.admin_balance)
           held     == v.total_b_tokens
           r        == v.b_rate
           g        == r2 - r
           interest == held * g
           value    == held * r
           unit     == value \div SCALAR_7
           coarse   == value \div SCALAR_12
           moved    == AdminBTokens(v, f, r2, t)
           diff     == BTokenDiff(v, f.rate, r2, t)
           target   == TargetBRate(v, f.rate, t)
           gained   == Gained(v, r2, moved)
           rate     == f.rate
           year     == SECONDS_PER_YEAR
<1>1. /\ SCALAR_7 \in Nat /\ SCALAR_7 > 0 /\ SCALAR_12 \in Nat /\ SCALAR_12 > 0
      /\ year \in Nat /\ rate \in Nat /\ held \in Nat /\ r \in Nat /\ g \in Int
      /\ v.last_update_timestamp \in Nat /\ v.last_update_timestamp <= t /\ v \in AnyVault
  BY ScalarAssumption, VaultRecordAny DEF VaultRecord, FeeRecord
<1>2. /\ target * (SCALAR_7 * year) <= r * (SCALAR_7 * year + rate) + SCALAR_7 * year
      /\ (r * (SCALAR_7 * year + rate)) * SCALAR_12
         <= (target * SCALAR_12 + r) * (SCALAR_7 * year)
  <2>1. rate * (t - v.last_update_timestamp) = rate
    BY <1>1
  <2> QED
    BY <2>1, <1>1, TargetBounds
<1>3. /\ diff \in Int /\ held * target <= held * r2 - diff * r2
      /\ held * r2 - diff * r2 < held * target + r2 + SCALAR_12
  BY <1>1, DiffWorth
<1>4. target \in Int
  BY <1>1, TargetAboveRate
<1>5. /\ est \in Nat /\ moved \in Int /\ moved >= diff
      /\ \/ est = s /\ s <= rate /\ moved >= 0
         \/ est = rate
      /\ \/ moved = diff /\ est <= rate
         \/ moved = 0 /\ est <= s
  BY <1>3, CappedMoves
<1>6. /\ value \in Nat /\ unit \in Nat /\ coarse \in Nat
      /\ unit * SCALAR_7 <= value /\ value < unit * SCALAR_7 + SCALAR_7
      /\ value < coarse * SCALAR_12 + SCALAR_12
  BY <1>1, UnitBounds
<1>7. /\ interest \in Int /\ year * interest <= (unit + 1) * (s + 2)
      /\ unit * s <= year * interest
                     + (Inexact(v, s, ir) + year * (held + 3 * SCALAR_12))
  BY <1>1, InterestEarned
<1>8. gained = interest - moved * r2
  BY DEF Gained
<1>9. gained + value = held * r2 - moved * r2
  <2>1. interest = held * r2 - held * r
    BY <1>1, Distributive
  <2>2. held * r2 \in Int /\ held * r \in Int /\ moved * r2 \in Int
    BY <1>1, <1>5, ProductType
  <2> QED
    BY <2>1, <2>2, <1>8
<1>10. value = held * r
  OBVIOUS
<1> HIDE DEF est, held, r, g, interest, value, unit, coarse, moved, diff, target, gained, rate, year
<1>11. gained \in Int
  BY <1>5, <1>7, <1>8, ProductType
<1>12. \/ year * gained <= (unit + 1) * (est + 2)
       \/ year * gained <= (unit + 1) * est + year * (held + r2 + SCALAR_12)
  <2>1. CASE est = s /\ moved >= 0
    <3>1. 0 * r2 <= moved * r2
      BY <2>1, <1>5, ProductMonotone
    <3>2. gained <= interest
      BY <3>1, <1>5, <1>7, <1>8, ProductType
    <3>3. gained * year <= interest * year
      BY <3>2, <1>1, <1>7, <1>11, ProductMonotone
    <3> QED
      <4>1. /\ gained * year = year * gained /\ interest * year = year * interest
            /\ year * gained \in Int /\ year * interest \in Int /\ (unit + 1) * (s + 2) \in Int
        BY <1>1, <1>5, <1>6, <1>7, <1>11, ProductType
      <4>2. year * gained <= (unit + 1) * (s + 2)
        BY <4>1, <3>3, <1>7
      <4> QED
        BY <4>2, <2>1
  <2>2. CASE est = rate
    <3>1. diff * r2 <= moved * r2
      BY <1>3, <1>5, ProductMonotone
    <3>2. gained + held * r <= held * target + r2 + SCALAR_12
      <4>1. /\ diff * r2 \in Int /\ moved * r2 \in Int /\ held * r2 \in Int
            /\ held * target \in Int /\ held * r \in Int
        BY <1>1, <1>3, <1>4, <1>5, ProductType
      <4> QED
        BY <4>1, <3>1, <1>1, <1>3, <1>9, <1>10, <1>11
    <3>3. held * r < unit * SCALAR_7 + SCALAR_7
      BY <1>6, <1>10
    <3>4. year * gained <= (unit + 1) * rate + year * (held + r2 + SCALAR_12)
      BY <3>2, <3>3, <1>1, <1>2, <1>4, <1>6, <1>11, CappedAbove
    <3> QED
      BY <3>4, <2>2
  <2> QED
    BY <2>1, <2>2, <1>5
<1>13. \/ unit * est <= year * gained + (Inexact(v, s, ir) + year * (held + 3 * SCALAR_12))
       \/ unit * est <= year * gained + year * (coarse + 1)
  <2>1. CASE moved = 0 /\ est <= s
    <3>1. est * unit <= s * unit
      BY <2>1, <1>5, <1>6, ProductMonotone
    <3>2. est * unit = unit * est /\ s * unit = unit * s /\ est * unit \in Int /\ s * unit \in Int
      BY <1>5, <1>6, ProductType
    <3>3. gained = interest
      BY <2>1, <1>7, <1>8
    <3> DEFINE bound == year * interest + (Inexact(v, s, ir) + year * (held + 3 * SCALAR_12))
    <3>4. bound \in Int
      <4>1. year * interest \in Int /\ year * (held + 3 * SCALAR_12) \in Int
        BY <1>1, <1>7, ProductType
      <4>2. Inexact(v, s, ir) \in Nat
        BY <1>1, InexactType
      <4> QED
        BY <4>1, <4>2
    <3>5. unit * s <= bound
      BY <1>7
    <3> HIDE DEF bound
    <3>6. unit * est <= bound
      BY <3>1, <3>2, <3>4, <3>5
    <3> QED
      BY <3>3, <3>6 DEF bound
  <2>2. CASE moved = diff /\ est <= rate
    <3>1. held * target <= gained + held * r
      BY <2>2, <1>3, <1>9, <1>10
    <3>2. unit * SCALAR_7 <= held * r /\ held * r < coarse * SCALAR_12 + SCALAR_12
      BY <1>6, <1>10
    <3>3. unit * rate <= year * gained + year * (coarse + 1)
      BY <3>1, <3>2, <1>1, <1>2, <1>4, <1>6, <1>11, CappedBelow
    <3>4. est * unit <= rate * unit
      BY <2>2, <1>1, <1>5, <1>6, ProductMonotone
    <3>5. /\ est * unit = unit * est /\ rate * unit = unit * rate
          /\ est * unit \in Int /\ rate * unit \in Int
          /\ year * gained \in Int /\ year * (coarse + 1) \in Int
      BY <1>1, <1>5, <1>6, <1>11, ProductType
    <3> QED
      BY <3>3, <3>4, <3>5
  <2> QED
    BY <2>1, <2>2, <1>5
<1>14. Earned(v, r2, s, ir, est, moved)
  BY <1>1, <1>5, <1>12, <1>13, EarnedFrom DEF held, r, value, unit, coarse, gained, year
<1> QED
  BY <1>5, <1>14 DEF est, moved

\* Settling over one unit of time gives depositors what the estimate says.
LEMMA SettledEarned ==
    ASSUME NEW v \in AnyVault, NEW f \in FeeRecord, NEW r2 \in Nat, r2 > v.b_rate,
           NEW t \in Nat, t - v.last_update_timestamp = 1,
           NEW s \in Nat, NEW ir \in Nat, Rises(v, r2, s, ir),
           v.admin_balance > 0 => UpdateRate(v, f, r2, t).admin_balance > 0
    PROVE  LET w == UpdateRate(v, f, r2, t)
           IN  /\ w.b_rate = r2 /\ w.total_b_tokens \in Int
               /\ \E moved \in Int :
                      /\ w.total_b_tokens = v.total_b_tokens - moved
                      /\ Earned(v, r2, s, ir, EstApr(s, f, v.admin_balance), moved)
<1> DEFINE w     == UpdateRate(v, f, r2, t)
           moved == AdminBTokens(v, f, r2, t)
<1>1. /\ v.last_update_timestamp \in Nat /\ v.last_update_timestamp <= t
      /\ v.b_rate \in Nat /\ v.total_b_tokens \in Nat /\ v.admin_balance \in Nat
      /\ f.rate_type \in 0..2 /\ f.rate \in 0..SCALAR_7 /\ r2 > 0 /\ ~(r2 <= v.b_rate)
  BY DEF AnyVault, FeeRecord
<1>2. moved \in Int
  BY <1>1, AdminBTokensBounds
<1>3. /\ w.b_rate = r2 /\ w.total_b_tokens = v.total_b_tokens - moved
      /\ w.admin_balance = v.admin_balance + moved
  BY <1>1 DEF UpdateRate, AnyVault
<1>4. CASE f.rate_type = 0
  <2>1. moved = TakeRateBTokens(v, f.rate, r2)
    BY <1>4 DEF AdminBTokens
  <2>2. EstApr(s, f, v.admin_balance) = FixedMulFloor(s, SCALAR_7 - f.rate, SCALAR_7)
    BY <1>4 DEF EstApr
  <2>3. Earned(v, r2, s, ir, EstApr(s, f, v.admin_balance), moved)
    BY <2>1, <2>2, <1>1, TakeEarned
  <2> QED
    BY <2>3, <1>1, <1>2, <1>3
<1>5. CASE f.rate_type \in {1, 2}
  <2>1. v.b_rate > 0
    <3>1. CASE v.b_rate = 0
      <4> DEFINE year == SECONDS_PER_YEAR * SCALAR_7
      <4>1. year \in Nat /\ year > 0
        BY ScalarAssumption, ProductType, Z3
      <4>2. (r2 - v.b_rate) * year <= v.b_rate * (s + 2)
        BY DEF Rises
      <4> HIDE DEF year
      <4>3. v.b_rate * (s + 2) = 0 /\ (r2 - v.b_rate) * year = r2 * year
        BY <3>1
      <4>4. r2 * year <= 0 * year
        BY <4>1, <4>2, <4>3
      <4> QED
        BY <4>1, <4>4, <1>1, ProductCancel
    <3> QED
      BY <3>1, <1>1
  <2>2. v \in VaultRecord
    <3>1. v.b_rate \in Nat \ {0}
      BY <2>1, <1>1
    <3> QED
      BY <3>1, Zenon DEF AnyVault, VaultRecord
  <2>3. v.admin_balance > 0 => v.admin_balance + moved > 0
    BY <1>3
  <2>4. Earned(v, r2, s, ir, EstApr(s, f, v.admin_balance), moved)
    BY <2>2, <2>3, <1>1, <1>5, CappedEarned
  <2> QED
    BY <2>4, <1>1, <1>2, <1>3
<1> QED
  BY <1>1, <1>4, <1>5

\* What depositors get over a unit of time is what the estimate showed, but for the
\* roundings, whatever the curve, the backstop, the fee and the vault.
THEOREM EarnedTheorem == Spec => EstimateIsEarned
<1>1. ASSUME TypeOK, TypeOK', Accrue,
             vault'.b_rate > GetVaultUpdated.b_rate,
             CurUtil(GetReserve.data) < SCALAR_7,
             GetVaultUpdated.total_b_tokens <= GetReserve.data.b_supply,
             GetVaultUpdated.admin_balance > 0 => vault'.admin_balance > 0
      PROVE  LET s  == SupplyApr(GetReserve, mock.backstop)
                 ir == CurIr(CurUtil(GetReserve.data), GetReserve.config,
                             GetReserve.data.ir_mod)
             IN  \E moved \in Int :
                     /\ vault'.total_b_tokens = GetVaultUpdated.total_b_tokens - moved
                     /\ Earned(GetVaultUpdated, vault'.b_rate, s, ir, EstimatedApr, moved)
                     /\ moved \in Int /\ vault'.b_rate \in Nat
  <2> DEFINE v    == GetVaultUpdated
             data == GetReserve.data
             r2   == Accrued(GetReserve, mock.backstop).b_rate
             s    == SupplyApr(GetReserve, mock.backstop)
             ir   == CurIr(CurUtil(data), GetReserve.config, data.ir_mod)
  <2>1. /\ data \in ReserveData /\ GetReserve.config \in ReserveConfig
        /\ mock.backstop \in 0..SCALAR_7 /\ data.b_rate \in Nat /\ data.b_supply \in Nat
    BY <1>1, ReserveType DEF ReserveData
  <2>2. /\ r2 \in Nat /\ s \in Nat /\ ir \in Nat
        /\ (r2 - data.b_rate) * (SECONDS_PER_YEAR * SCALAR_7) <= data.b_rate * (s + 2)
        /\ \A held \in Nat :
               held <= data.b_supply
               => (held * data.b_rate) * (s * SCALAR_7)
                  <= (held * (r2 - data.b_rate) + 3 * SCALAR_12 + held)
                         * (SECONDS_PER_YEAR * (SCALAR_7 * SCALAR_7))
                     + SCALAR_12 * (s * SCALAR_7) + (held * data.b_rate) * ir
    BY <2>1, <1>1, AccruedBounds
  <2>3. now \in Nat /\ fee \in FeeRecord /\ v \in VaultWritten(now)
    BY <1>1, VaultUpdatedType DEF TypeOK, Fee, FeeRecord
  <2>4. v \in AnyVault /\ v.total_b_tokens \in Nat
    BY <2>3 DEF VaultWritten, AnyVault
  <2>5. v.b_rate = data.b_rate /\ v.last_update_timestamp = now
    <3>1. vault \in VaultWritten(now)
      BY <1>1 DEF TypeOK
    <3> QED
      BY <3>1 DEF GetVaultUpdated, UpdateRate, VaultWritten
  <2>6. /\ now' = now + 1 /\ vault' = UpdateRate(v, fee, r2, now + 1)
    <3>1. mock'.data = Accrued(GetReserve, mock.backstop)
      BY <1>1 DEF Accrue, TypeOK
    <3> QED
      BY <1>1, <3>1 DEF Accrue
  <2>7. EstimatedApr = EstApr(s, fee, v.admin_balance)
    BY DEF EstimatedApr
  <2>8. vault'.b_rate = r2
    BY <2>4, <2>6 DEF UpdateRate, AnyVault
  <2>9. Rises(v, r2, s, ir)
    <3>1. v.total_b_tokens <= data.b_supply
      BY <1>1
    <3> HIDE DEF v, data, r2, s, ir
    <3> QED
      BY <2>2, <2>4, <2>5, <3>1 DEF Rises
  <2>10. /\ r2 > v.b_rate /\ now + 1 \in Nat /\ (now + 1) - v.last_update_timestamp = 1
         /\ v.admin_balance > 0 => UpdateRate(v, fee, r2, now + 1).admin_balance > 0
    BY <1>1, <2>3, <2>5, <2>6, <2>8
  <2> HIDE DEF v, data, r2, s, ir
  <2>11. PICK moved \in Int :
             /\ UpdateRate(v, fee, r2, now + 1).total_b_tokens = v.total_b_tokens - moved
             /\ Earned(v, r2, s, ir, EstApr(s, fee, v.admin_balance), moved)
    BY <2>2, <2>3, <2>4, <2>9, <2>10, SettledEarned
  <2> QED
    BY <2>2, <2>6, <2>7, <2>8, <2>11 DEF v, s, ir, data
<1>2. ASSUME TypeOK, TypeOK', Next, now' # now,
             vault'.b_rate > GetVaultUpdated.b_rate,
             CurUtil(GetReserve.data) < SCALAR_7,
             GetVaultUpdated.total_b_tokens <= GetReserve.data.b_supply,
             GetVaultUpdated.admin_balance > 0 => vault'.admin_balance > 0
      PROVE  LET before  == GetVaultUpdated
                 reserve == GetReserve
                 util    == CurUtil(reserve.data)
                 held    == before.total_b_tokens
                 value   == held * before.b_rate
                 gained  == SECONDS_PER_YEAR
                            * (vault'.total_b_tokens * vault'.b_rate - value)
                 unit    == value \div SCALAR_7
                 inexact == ((unit + 1) * CurIr(util, reserve.config, reserve.data.ir_mod))
                                \div SCALAR_7 + 1
                            + APR_SCALE * SupplyApr(reserve, mock.backstop)
             IN  /\ gained >= unit * EstimatedApr - inexact
                              - SECONDS_PER_YEAR
                                * (held + value \div SCALAR_12 + 1 + 3 * SCALAR_12)
                 /\ gained <= (unit + 1) * (EstimatedApr + 3)
                              + SECONDS_PER_YEAR * (held + vault'.b_rate + 2 * SCALAR_12)
  <2> DEFINE v  == GetVaultUpdated
             r2 == vault'.b_rate
             s  == SupplyApr(GetReserve, mock.backstop)
             ir == CurIr(CurUtil(GetReserve.data), GetReserve.config, GetReserve.data.ir_mod)
  <2>1. Accrue
    BY <1>2 DEF Next, SetData, SetBRate, SetBackstopRate, SetConfig, SetFee
  <2>2. PICK moved \in Int :
            /\ vault'.total_b_tokens = v.total_b_tokens - moved
            /\ Earned(v, r2, s, ir, EstimatedApr, moved) /\ r2 \in Nat
    BY <1>1, <1>2, <2>1
  <2>3. v.total_b_tokens \in Nat /\ v.b_rate \in Nat
    BY <1>2, VaultUpdatedType DEF VaultWritten
  <2>4. Gained(v, r2, moved) = vault'.total_b_tokens * r2 - v.total_b_tokens * v.b_rate
    <3> DEFINE held == v.total_b_tokens
               r    == v.b_rate
    <3> HIDE DEF held, r, r2
    <3>1. held * (r2 - r) - moved * r2 = (held - moved) * r2 - held * r
      BY <2>2, <2>3, Z3 DEF held, r
    <3> QED
      BY <3>1, <2>2 DEF Gained, held, r
  <2> QED
    BY <2>2, <2>4 DEF Earned, Inexact
<1> QED
  BY <1>2, TypeCorrect, PTL DEF Spec, EstimateIsEarned

=============================================================================
