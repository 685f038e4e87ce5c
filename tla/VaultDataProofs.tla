-------------------------- MODULE VaultDataProofs ---------------------------
(***************************************************************************)
(* Lemmas about VaultData, on any record that can be the vault's: what a   *)
(* settlement moves, what each fee configuration leaves to the depositors, *)
(* and how the conversions round.  A settlement rounds three or four       *)
(* times, each time to an integer next to the exact quotient: the lemmas   *)
(* chain the bounds of those roundings, multiplied up to a common          *)
(* denominator.                                                            *)
(***************************************************************************)
EXTENDS VaultData, ArithmeticProofs

-----------------------------------------------------------------------------
(***************************************************************************)
(* Settling.                                                               *)
(***************************************************************************)

\* What a settlement needs to know of a vault, and what the conversions divide by.
AnyVault == [last_update_timestamp : Nat, b_rate : Nat,
             total_shares : Nat, total_b_tokens : Nat, admin_balance : Nat]

VaultRecord == [last_update_timestamp : Nat, b_rate : Nat \ {0},
                total_shares : Nat, total_b_tokens : Nat, admin_balance : Nat]

\* The stored record is one of those that the conversions are defined on.
LEMMA VaultRecordAny == VaultRecord \subseteq AnyVault
BY DEF VaultRecord, AnyVault

FeeRecord == [rate_type : 0..2, rate : 0..SCALAR_7]

\* A take rate of at most 100% takes b_tokens worth at most the interest.
LEMMA TakeRateBounds ==
    ASSUME NEW v \in AnyVault, NEW rate \in 0..SCALAR_7,
           NEW new_rate \in Nat, new_rate > v.b_rate
    PROVE  /\ TakeRateBTokens(v, rate, new_rate) \in Nat
           /\ TakeRateBTokens(v, rate, new_rate) * new_rate
              <= v.total_b_tokens * (new_rate - v.b_rate)
<1> DEFINE gain     == new_rate - v.b_rate
           interest == FixedMulFloor(v.total_b_tokens, gain, SCALAR_12)
           cut      == FixedMulFloor(interest, rate, SCALAR_7)
           taken    == FixedDivFloor(cut, new_rate, SCALAR_12)
<1>1. /\ SCALAR_12 \in Int /\ SCALAR_12 > 0
      /\ SCALAR_7 \in Int /\ SCALAR_7 > 0
      /\ rate \in Int /\ rate >= 0 /\ rate <= SCALAR_7
      /\ v.total_b_tokens \in Int /\ v.total_b_tokens >= 0
      /\ gain \in Int /\ gain >= 0
      /\ new_rate \in Int /\ new_rate > 0
  BY ScalarAssumption DEF AnyVault
<1> HIDE DEF gain
<1>2. v.total_b_tokens * gain \in Int /\ v.total_b_tokens * gain >= 0
  BY <1>1, ProductType
<1>3. /\ interest \in Int
      /\ interest * SCALAR_12 <= v.total_b_tokens * gain
      /\ v.total_b_tokens * gain < interest * SCALAR_12 + SCALAR_12
  BY <1>1, FixedMulFloorBounds
<1> HIDE DEF interest
<1>4. interest >= 0
  <2>1. 0 * SCALAR_12 < interest * SCALAR_12 + SCALAR_12
    BY <1>1, <1>2, <1>3, ProductType
  <2> QED
    BY <2>1, <1>1, <1>3, ProductCancel
<1>5. /\ cut \in Int
      /\ cut * SCALAR_7 <= interest * rate
      /\ interest * rate < cut * SCALAR_7 + SCALAR_7
  BY <1>1, <1>3, FixedMulFloorBounds
<1> HIDE DEF cut
<1>6. cut >= 0 /\ cut <= interest
  <2>1. interest * rate \in Int /\ interest * rate >= 0
    BY <1>1, <1>3, <1>4, ProductType
  <2>2. 0 * SCALAR_7 < cut * SCALAR_7 + SCALAR_7
    BY <2>1, <1>1, <1>5, ProductType
  <2>3. cut >= 0
    BY <2>2, <1>1, <1>5, ProductCancel
  <2>4. rate * interest <= SCALAR_7 * interest
    BY <1>1, <1>3, <1>4, ProductMonotone
  <2>5. interest * rate <= interest * SCALAR_7
    BY <2>4, <1>1, <1>3, ProductType
  <2>6. cut * SCALAR_7 <= interest * SCALAR_7
    BY <2>5, <2>1, <1>1, <1>3, <1>5, ProductType
  <2> QED
    BY <2>3, <2>6, <1>1, <1>3, <1>5, ProductCancel
<1>7. /\ taken \in Int
      /\ taken * new_rate <= cut * SCALAR_12
      /\ cut * SCALAR_12 < taken * new_rate + new_rate
  BY <1>1, <1>5, FixedDivFloorBounds
<1>8. TakeRateBTokens(v, rate, new_rate) = taken
  BY DEF TakeRateBTokens, taken, cut, interest, gain
<1> HIDE DEF taken
<1>9. taken >= 0
  <2>1. cut * SCALAR_12 \in Int /\ cut * SCALAR_12 >= 0
    BY <1>1, <1>5, <1>6, ProductType
  <2>2. 0 * new_rate < taken * new_rate + new_rate
    BY <2>1, <1>1, <1>7, ProductType
  <2> QED
    BY <2>2, <1>1, <1>7, ProductCancel
<1>10. taken * new_rate <= v.total_b_tokens * gain
  <2>1. cut * SCALAR_12 <= interest * SCALAR_12
    BY <1>1, <1>3, <1>5, <1>6, ProductMonotone
  <2> QED
    BY <2>1, <1>1, <1>2, <1>3, <1>5, <1>7, ProductType
<1> QED
  BY <1>7, <1>8, <1>9, <1>10 DEF gain

\* The target b_rate is never below the rate at the last update.
LEMMA TargetAboveRate ==
    ASSUME NEW v \in AnyVault, NEW apr \in Nat, NEW t \in Nat,
           v.last_update_timestamp <= t
    PROVE  TargetBRate(v, apr, t) \in Int /\ TargetBRate(v, apr, t) >= v.b_rate
<1> DEFINE elapsed == t - v.last_update_timestamp
           accrued == (APR_SCALE * apr * elapsed) \div SECONDS_PER_YEAR
           growth  == accrued + SCALAR_12
           target  == FixedMulCeil(v.b_rate, growth, SCALAR_12)
<1>1. /\ SCALAR_12 \in Int /\ SCALAR_12 > 0
      /\ SECONDS_PER_YEAR \in Int /\ SECONDS_PER_YEAR > 0
      /\ elapsed \in Nat
      /\ v.b_rate \in Int /\ v.b_rate >= 0
  BY ScalarAssumption DEF AnyVault
<1>2. APR_SCALE \in Nat
  <2>1. SCALAR_7 \in Int /\ SCALAR_7 > 0 /\ SCALAR_12 \in Int /\ SCALAR_12 > 0
    BY ScalarAssumption
  <2> QED
    BY <2>1, Z3 DEF APR_SCALE
<1> HIDE DEF elapsed
<1>3. APR_SCALE * apr * elapsed \in Int /\ APR_SCALE * apr * elapsed >= 0
  <2>1. APR_SCALE * apr \in Int /\ APR_SCALE * apr >= 0
    BY <1>2, ProductType
  <2> QED
    BY <2>1, <1>1, ProductType
<1>4. accrued \in Int /\ accrued >= 0
  <2>1. accrued \in Int /\ 0 * SECONDS_PER_YEAR < accrued * SECONDS_PER_YEAR + SECONDS_PER_YEAR
    BY <1>1, <1>3, DivBounds
  <2> QED
    BY <2>1, <1>1, ProductCancel
<1> HIDE DEF accrued
<1>5. growth \in Int /\ growth >= SCALAR_12
  BY <1>1, <1>4
<1> HIDE DEF growth
<1>6. target \in Int /\ v.b_rate * growth <= target * SCALAR_12
  BY <1>1, <1>5, FixedMulCeilBounds
<1>7. TargetBRate(v, apr, t) = target
  BY DEF TargetBRate, target, growth, accrued, elapsed
<1> HIDE DEF target
<1>8. v.b_rate * SCALAR_12 <= v.b_rate * growth
  BY <1>1, <1>5, ProductMonotone, ProductType
<1>9. v.b_rate * SCALAR_12 <= target * SCALAR_12
  BY <1>1, <1>5, <1>6, <1>8, ProductType
<1> QED
  BY <1>1, <1>6, <1>7, <1>9, ProductCancel

\* What the vault is above its target is worth at most the interest.
LEMMA DiffBounds ==
    ASSUME NEW v \in AnyVault, NEW apr \in Nat, NEW t \in Nat,
           v.last_update_timestamp <= t, NEW new_rate \in Nat, new_rate > 0
    PROVE  /\ BTokenDiff(v, apr, new_rate, t) \in Int
           /\ BTokenDiff(v, apr, new_rate, t) * new_rate
              <= v.total_b_tokens * (new_rate - v.b_rate)
<1> DEFINE target == TargetBRate(v, apr, t)
           above  == new_rate - target
           worth  == FixedMulFloor(v.total_b_tokens, above, SCALAR_12)
           diff   == FixedDivFloor(worth, new_rate, SCALAR_12)
<1>1. /\ SCALAR_12 \in Int /\ SCALAR_12 > 0
      /\ v.total_b_tokens \in Int /\ v.total_b_tokens >= 0
      /\ v.b_rate \in Int
  BY ScalarAssumption DEF AnyVault
<1>2. target \in Int /\ target >= v.b_rate
  BY TargetAboveRate
<1> HIDE DEF target
<1>3. above \in Int /\ above <= new_rate - v.b_rate /\ new_rate - v.b_rate \in Int
  BY <1>1, <1>2
<1> HIDE DEF above
<1>4. worth \in Int /\ worth * SCALAR_12 <= v.total_b_tokens * above
  BY <1>1, <1>3, FixedMulFloorBounds
<1> HIDE DEF worth
<1>5. diff \in Int /\ diff * new_rate <= worth * SCALAR_12
  BY <1>1, <1>4, FixedDivFloorBounds
<1>6. BTokenDiff(v, apr, new_rate, t) = diff
  BY DEF BTokenDiff, diff, worth, above, target
<1> HIDE DEF diff
<1>7. v.total_b_tokens * above <= v.total_b_tokens * (new_rate - v.b_rate)
  BY <1>1, <1>3, ProductMonotone, ProductType
<1>8. /\ diff * new_rate \in Int /\ worth * SCALAR_12 \in Int
      /\ v.total_b_tokens * above \in Int
      /\ v.total_b_tokens * (new_rate - v.b_rate) \in Int
  BY <1>1, <1>3, <1>4, <1>5, ProductType
<1> QED
  BY <1>4, <1>5, <1>6, <1>7, <1>8

\* What moves to the admin is worth at most the interest; what moves back is at
\* most the admin balance.
LEMMA AdminBTokensBounds ==
    ASSUME NEW v \in AnyVault, NEW f \in FeeRecord, NEW t \in Nat,
           v.last_update_timestamp <= t, NEW new_rate \in Nat, new_rate > v.b_rate
    PROVE  /\ AdminBTokens(v, f, new_rate, t) \in Int
           /\ AdminBTokens(v, f, new_rate, t) * new_rate
              <= v.total_b_tokens * (new_rate - v.b_rate)
           /\ v.admin_balance + AdminBTokens(v, f, new_rate, t) >= 0
<1> DEFINE diff  == BTokenDiff(v, f.rate, new_rate, t)
           worth == v.total_b_tokens * (new_rate - v.b_rate)
           moved == AdminBTokens(v, f, new_rate, t)
<1>1. /\ f.rate \in 0..SCALAR_7 /\ f.rate \in Nat /\ f.rate_type \in 0..2
      /\ new_rate \in Int /\ new_rate > 0
      /\ v.admin_balance \in Int /\ v.admin_balance >= 0
      /\ v.total_b_tokens \in Int /\ v.total_b_tokens >= 0
      /\ new_rate - v.b_rate \in Int /\ new_rate - v.b_rate >= 0
  BY ScalarAssumption DEF AnyVault, FeeRecord
<1>2. worth \in Int /\ worth >= 0
  BY <1>1, ProductType
<1>3. diff \in Int /\ diff * new_rate <= worth
  BY <1>1, DiffBounds
<1>4. moved = CASE f.rate_type = 0 -> TakeRateBTokens(v, f.rate, new_rate)
                [] f.rate_type = 1 -> IF diff <= 0 THEN 0 ELSE diff
                [] f.rate_type = 2 -> FixedRateBTokens(v, diff)
                [] OTHER -> 0
  BY DEF AdminBTokens
<1>5. 0 * new_rate = 0
  BY <1>1
<1> HIDE DEF moved, diff, worth
<1> SUFFICES moved \in Int /\ moved * new_rate <= worth /\ v.admin_balance + moved >= 0
  BY DEF moved, worth
<1>6. CASE f.rate_type = 0
  <2>1. moved \in Nat /\ moved * new_rate <= worth
    BY <1>1, <1>4, <1>6, TakeRateBounds DEF worth
  <2> QED
    BY <1>1, <2>1
<1>7. CASE f.rate_type = 1
  <2>1. moved = IF diff <= 0 THEN 0 ELSE diff
    BY <1>4, <1>7
  <2> QED
    BY <2>1, <1>1, <1>2, <1>3, <1>5
<1>8. CASE f.rate_type = 2
  <2>1. moved = FixedRateBTokens(v, diff)
    BY <1>4, <1>8
  <2>2. CASE diff <= 0 /\ v.admin_balance + diff < 0
    <3>1. moved = -v.admin_balance \/ moved = 0
      BY <2>1, <2>2 DEF FixedRateBTokens
    <3>2. moved \in Int /\ moved <= 0 /\ v.admin_balance + moved >= 0
      BY <3>1, <1>1
    <3>3. moved * new_rate <= 0
      BY <3>2, <1>1, <1>5, ProductMonotone
    <3> QED
      BY <3>2, <3>3, <1>1, <1>2, ProductType
  <2>3. CASE ~(diff <= 0 /\ v.admin_balance + diff < 0)
    <3>1. moved = diff
      BY <2>1, <2>3 DEF FixedRateBTokens
    <3> QED
      BY <3>1, <2>3, <1>1, <1>3
  <2> QED
    BY <2>2, <2>3
<1> QED
  BY <1>1, <1>6, <1>7, <1>8

\* Settling moves b_tokens between the depositors and the admin, leaves the
\* depositors some, and never makes what they hold worth less than before, unless
\* the pool's rate dropped.
LEMMA UpdateRateBounds ==
    ASSUME NEW v \in AnyVault, NEW f \in FeeRecord, NEW t \in Nat,
           v.last_update_timestamp <= t, NEW new_rate \in Nat
    PROVE  LET w == UpdateRate(v, f, new_rate, t)
           IN  /\ w \in AnyVault
               /\ new_rate > 0 => w \in VaultRecord
               /\ w.last_update_timestamp = t
               /\ w.b_rate = new_rate
               /\ w.total_shares = v.total_shares
               /\ w.total_b_tokens + w.admin_balance = v.total_b_tokens + v.admin_balance
               /\ v.b_rate > 0 /\ v.total_b_tokens > 0 => w.total_b_tokens > 0
               /\ new_rate >= v.b_rate
                  => w.total_b_tokens * w.b_rate >= v.total_b_tokens * v.b_rate
               /\ new_rate < v.b_rate => w.total_b_tokens = v.total_b_tokens
<1> DEFINE moved == IF new_rate <= v.b_rate THEN 0 ELSE AdminBTokens(v, f, new_rate, t)
           w     == UpdateRate(v, f, new_rate, t)
           gain  == new_rate - v.b_rate
           B     == v.total_b_tokens
<1>1. /\ new_rate \in Int /\ new_rate >= 0
      /\ v.b_rate \in Int /\ v.b_rate >= 0 /\ gain \in Int
      /\ v.admin_balance \in Int /\ v.admin_balance >= 0
      /\ B \in Int /\ B >= 0
      /\ v.last_update_timestamp \in Nat /\ v.total_shares \in Nat
  BY DEF AnyVault
<1>2. w = [v EXCEPT !.last_update_timestamp = t,
                    !.b_rate = new_rate,
                    !.total_b_tokens = B - moved,
                    !.admin_balance = v.admin_balance + moved]
  BY DEF UpdateRate
<1>3. /\ moved \in Int
      /\ v.admin_balance + moved >= 0
      /\ new_rate > v.b_rate => moved * new_rate <= B * gain
      /\ new_rate <= v.b_rate => moved = 0
  <2>1. CASE new_rate > v.b_rate
    BY <2>1, <1>1, AdminBTokensBounds
  <2>2. CASE new_rate <= v.b_rate
    BY <2>2, <1>1
  <2> QED
    BY <2>1, <2>2, <1>1
<1> HIDE DEF moved, w
<1>4. /\ B * gain = B * new_rate - B * v.b_rate
      /\ B * new_rate \in Int /\ B * v.b_rate \in Int /\ moved * new_rate \in Int
      /\ (B - moved) * new_rate = B * new_rate - moved * new_rate
  BY <1>1, <1>3, Z3 DEF gain
<1>5. /\ B * v.b_rate >= 0
      /\ B > 0 /\ v.b_rate > 0 => B * v.b_rate > 0
  BY <1>1, ProductCancel, ProductType, Z3
<1>6. new_rate > v.b_rate => (B - moved) * new_rate >= B * v.b_rate
  BY <1>3, <1>4
<1>7. B - moved >= 0 /\ (v.b_rate > 0 /\ B > 0 => B - moved > 0)
  <2>1. CASE new_rate <= v.b_rate
    BY <2>1, <1>1, <1>3
  <2>2. CASE new_rate > v.b_rate
    <3>1. 0 * new_rate <= (B - moved) * new_rate
      BY <2>2, <1>1, <1>3, <1>4, <1>5, <1>6, ProductType
    <3>2. B > 0 /\ v.b_rate > 0 => 0 * new_rate < (B - moved) * new_rate
      BY <2>2, <1>1, <1>3, <1>4, <1>5, <1>6
    <3> QED
      BY <3>1, <3>2, <1>1, <1>3, ProductCancel
  <2> QED
    BY <2>1, <2>2, <1>1
<1>8. /\ w \in AnyVault
      /\ new_rate > 0 => w \in VaultRecord
      /\ w.last_update_timestamp = t /\ w.b_rate = new_rate
      /\ w.total_shares = v.total_shares
      /\ w.total_b_tokens = B - moved /\ w.admin_balance = v.admin_balance + moved
  <2>1. B - moved \in Nat /\ v.admin_balance + moved \in Nat
    BY <1>1, <1>3, <1>7
  <2> HIDE DEF B
  <2>2. w \in AnyVault
    BY <1>2, <2>1, Zenon DEF AnyVault
  <2>3. new_rate > 0 => w \in VaultRecord
    <3>1. new_rate > 0 => new_rate \in Nat \ {0}
      BY <1>1
    <3> QED
      BY <1>2, <2>1, <3>1, Zenon DEF AnyVault, VaultRecord
  <2> QED
    BY <1>2, <2>2, <2>3, Zenon DEF AnyVault
<1>9. new_rate >= v.b_rate => w.total_b_tokens * w.b_rate >= B * v.b_rate
  <2>1. CASE new_rate = v.b_rate
    BY <2>1, <1>1, <1>3, <1>4, <1>8
  <2>2. CASE new_rate > v.b_rate
    BY <2>2, <1>6, <1>8
  <2> QED
    BY <2>1, <2>2, <1>1
<1> QED
  BY <1>1, <1>3, <1>7, <1>8, <1>9 DEF w

-----------------------------------------------------------------------------
(***************************************************************************)
(* Take rate.                                                              *)
(***************************************************************************)

\* Three roundings down: of the interest to underlying, of the admin's part of it, and
\* of that to b_tokens, which are worth `worth' at the price of one b_token.
LEMMA TakeArithmetic ==
    ASSUME NEW interest \in Int, NEW underlying \in Int, NEW cut \in Int, NEW worth \in Int,
           NEW price \in Int, NEW rate \in Nat, NEW s7 \in Nat, NEW s12 \in Nat,
           s7 > 0, s12 > 0, rate <= s7,
           underlying * s12 <= interest, interest < underlying * s12 + s12,
           cut * s7 <= underlying * rate, underlying * rate < cut * s7 + s7,
           worth <= cut * s12, cut * s12 < worth + price
    PROVE  /\ worth * s7 <= interest * rate
           /\ (worth + price + 2 * s12) * s7 > interest * rate
<1> DEFINE us == underlying * s12
           ur == underlying * rate
           cs == cut * s12
           c7 == cut * s7
           ss == s12 * s7
<1>1. us \in Int /\ ur \in Int /\ cs \in Int /\ c7 \in Int /\ ss \in Int
  BY ProductType
<1>2. us * rate = ur * s12 /\ cs * s7 = c7 * s12
  BY ProductOrder
<1>3. s7 * s12 = ss
  BY ProductType
<1> HIDE DEF us, ur, cs, c7, ss
<1>4. /\ us * rate <= interest * rate
      /\ interest * rate <= (us + s12) * rate
      /\ (us + s12) * rate = us * rate + s12 * rate
  <2>1. us <= interest /\ interest <= us + s12 /\ us + s12 \in Int
    BY <1>1 DEF us
  <2> QED
    BY <2>1, <1>1, ProductMonotone, Distributive
<1>5. s12 * rate <= ss
  <2>1. rate * s12 <= s7 * s12
    BY ProductMonotone
  <2> QED
    BY <2>1, <1>3, ProductType
<1>6. /\ c7 * s12 <= ur * s12
      /\ ur * s12 + s12 <= c7 * s12 + ss
  <2>1. c7 <= ur /\ ur + 1 <= c7 + s7
    BY <1>1 DEF c7, ur
  <2>2. /\ (ur + 1) * s12 <= (c7 + s7) * s12
        /\ (ur + 1) * s12 = ur * s12 + 1 * s12
        /\ (c7 + s7) * s12 = c7 * s12 + s7 * s12
        /\ c7 * s12 <= ur * s12
    <3>1. ur + 1 \in Int /\ c7 + s7 \in Int
      BY <1>1
    <3> QED
      BY <2>1, <3>1, <1>1, ProductMonotone, Distributive
  <2> QED
    BY <2>2, <1>1, <1>3, ProductType
<1>7. /\ worth * s7 <= cs * s7
      /\ cs * s7 + s7 <= (worth + price) * s7
  <2>1. worth <= cs /\ cs + 1 <= worth + price
    BY <1>1 DEF cs
  <2>2. worth + price \in Int /\ cs + 1 \in Int
    BY <1>1
  <2>3. (cs + 1) * s7 <= (worth + price) * s7 /\ (cs + 1) * s7 = cs * s7 + 1 * s7
    BY <2>1, <2>2, <1>1, ProductMonotone, Distributive
  <2>4. worth * s7 <= cs * s7
    BY <2>1, <1>1, ProductMonotone
  <2> QED
    BY <2>3, <2>4, <1>1, ProductType
<1>8. (worth + price + 2 * s12) * s7 = (worth + price) * s7 + 2 * ss
  <2>1. /\ worth + price \in Int /\ 2 * s12 \in Int
        /\ (2 * s12) * s7 = 2 * (s12 * s7)
    BY Z3
  <2> QED
    BY <2>1, Distributive DEF ss
<1>9. /\ worth * s7 \in Int /\ cs * s7 \in Int /\ (worth + price) * s7 \in Int
      /\ us * rate \in Int /\ interest * rate \in Int /\ ur * s12 \in Int
      /\ c7 * s12 \in Int /\ s12 * rate \in Int
  BY <1>1, ProductType
<1> QED
  BY <1>1, <1>2, <1>4, <1>5, <1>6, <1>7, <1>8, <1>9

\* What a take rate takes of the interest, but for the roundings.
LEMMA TakeWorth ==
    ASSUME NEW v \in AnyVault, NEW rate \in 0..SCALAR_7,
           NEW new_rate \in Nat, new_rate > 0
    PROVE  LET interest == v.total_b_tokens * (new_rate - v.b_rate)
               worth    == TakeRateBTokens(v, rate, new_rate) * new_rate
           IN  /\ TakeRateBTokens(v, rate, new_rate) \in Int
               /\ interest \in Int /\ worth \in Int
               /\ worth * SCALAR_7 <= interest * rate
               /\ (worth + new_rate + 2 * SCALAR_12) * SCALAR_7 > interest * rate
<1> DEFINE gain       == new_rate - v.b_rate
           interest   == v.total_b_tokens * gain
           underlying == FixedMulFloor(v.total_b_tokens, gain, SCALAR_12)
           cut        == FixedMulFloor(underlying, rate, SCALAR_7)
           b_tokens   == FixedDivFloor(cut, new_rate, SCALAR_12)
           worth      == b_tokens * new_rate
<1>1. /\ v.total_b_tokens \in Int /\ gain \in Int /\ new_rate \in Int
      /\ SCALAR_12 \in Nat /\ SCALAR_12 > 0 /\ SCALAR_7 \in Nat /\ SCALAR_7 > 0
      /\ rate \in Nat /\ rate <= SCALAR_7 /\ rate \in Int
      /\ SCALAR_12 \in Int /\ SCALAR_7 \in Int
  BY ScalarAssumption DEF AnyVault
<1>2. TakeRateBTokens(v, rate, new_rate) = b_tokens
  BY DEF TakeRateBTokens
<1> HIDE DEF gain
<1>3. interest \in Int
  BY <1>1, ProductType
<1>4. /\ underlying \in Int
      /\ underlying * SCALAR_12 <= interest /\ interest < underlying * SCALAR_12 + SCALAR_12
  BY <1>1, FixedMulFloorBounds
<1> HIDE DEF underlying, interest
<1>5. /\ cut \in Int
      /\ cut * SCALAR_7 <= underlying * rate
      /\ underlying * rate < cut * SCALAR_7 + SCALAR_7
  BY <1>1, <1>4, FixedMulFloorBounds
<1> HIDE DEF cut
<1>6. b_tokens \in Int /\ worth <= cut * SCALAR_12 /\ cut * SCALAR_12 < worth + new_rate
  BY <1>1, <1>5, FixedDivFloorBounds
<1> HIDE DEF b_tokens
<1>7. worth \in Int
  BY <1>1, <1>6, ProductType
<1> HIDE DEF worth
<1>8. /\ worth * SCALAR_7 <= interest * rate
      /\ (worth + new_rate + 2 * SCALAR_12) * SCALAR_7 > interest * rate
  BY <1>1, <1>3, <1>4, <1>5, <1>6, <1>7, TakeArithmetic
<1> QED
  BY <1>2, <1>3, <1>6, <1>7, <1>8 DEF worth, interest, gain

-----------------------------------------------------------------------------
(***************************************************************************)
(* Capped and fixed rate.  `year' is SCALAR_7 * SECONDS_PER_YEAR, the unit *)
(* of time in which a fee rate is a whole number.                          *)
(***************************************************************************)

\* The growth that TargetBRate multiplies by is the exact growth of a year's fraction,
\* rounded down.
LEMMA GrowthBounds ==
    ASSUME NEW apr \in Nat, NEW elapsed \in Nat
    PROVE  LET growth == (APR_SCALE * apr * elapsed) \div SECONDS_PER_YEAR + SCALAR_12
               year   == SCALAR_7 * SECONDS_PER_YEAR
               exact  == SCALAR_12 * (year + apr * elapsed)
           IN  growth \in Int /\ growth * year <= exact /\ exact <= growth * year + year
<1> DEFINE earned  == APR_SCALE * apr * elapsed
           accrued == earned \div SECONDS_PER_YEAR
           paid    == accrued * SECONDS_PER_YEAR
           year    == SCALAR_7 * SECONDS_PER_YEAR
           part    == apr * elapsed
<1>1. /\ SCALAR_12 \in Int /\ SCALAR_12 > 0 /\ SCALAR_7 \in Int /\ SCALAR_7 > 0
      /\ SECONDS_PER_YEAR \in Int /\ SECONDS_PER_YEAR > 0
  BY ScalarAssumption
<1>2. APR_SCALE \in Int
  BY <1>1, DivBounds DEF APR_SCALE
<1>3. part \in Int /\ year \in Int /\ earned = APR_SCALE * part
  <2>1. APR_SCALE * apr * elapsed = APR_SCALE * (apr * elapsed)
    BY <1>2, ProductOrder
  <2> QED
    BY <2>1, <1>1, ProductType
<1>4. earned \in Int
  BY <1>2, <1>3, ProductType
<1>5. earned * SCALAR_7 = SCALAR_12 * part
  <2> HIDE DEF earned, part
  <2>1. (APR_SCALE * part) * SCALAR_7 = (APR_SCALE * SCALAR_7) * part
    BY <1>1, <1>2, <1>3, ProductOrder
  <2> QED
    BY <2>1, <1>3, ScaleAssumption
<1> HIDE DEF earned
<1>6. accrued \in Int /\ paid <= earned /\ earned < paid + SECONDS_PER_YEAR
  BY <1>1, <1>4, DivBounds
<1> HIDE DEF accrued
<1>7. paid \in Int /\ paid * SCALAR_7 = accrued * year
  <2>1. /\ paid \in Int
        /\ (accrued * SECONDS_PER_YEAR) * SCALAR_7 = (accrued * SCALAR_7) * SECONDS_PER_YEAR
    BY <1>1, <1>6, ProductType, ProductOrder
  <2>2. accrued * SCALAR_7 * SECONDS_PER_YEAR = accrued * year
    BY <1>1, <1>6, ProductOrder
  <2> QED
    BY <2>1, <2>2
<1>8. SECONDS_PER_YEAR * SCALAR_7 = year
  BY <1>1, ProductType
<1> HIDE DEF paid, year, part
<1>9. /\ paid * SCALAR_7 <= earned * SCALAR_7
      /\ earned * SCALAR_7 <= paid * SCALAR_7 + year
  <2>1. earned <= paid + SECONDS_PER_YEAR /\ paid + SECONDS_PER_YEAR \in Int
    BY <1>1, <1>4, <1>6, <1>7
  <2>2. /\ earned * SCALAR_7 <= (paid + SECONDS_PER_YEAR) * SCALAR_7
        /\ (paid + SECONDS_PER_YEAR) * SCALAR_7 = paid * SCALAR_7 + SECONDS_PER_YEAR * SCALAR_7
        /\ paid * SCALAR_7 <= earned * SCALAR_7
    BY <2>1, <1>1, <1>4, <1>6, <1>7, ProductMonotone, Distributive
  <2> QED
    BY <2>2, <1>8
<1>10. /\ (accrued + SCALAR_12) * year = accrued * year + SCALAR_12 * year
       /\ SCALAR_12 * (year + part) = SCALAR_12 * year + SCALAR_12 * part
       /\ SCALAR_12 * year \in Int /\ accrued * year \in Int /\ SCALAR_12 * part \in Int
       /\ accrued + SCALAR_12 \in Int
  BY <1>1, <1>3, <1>6, Distributive, ProductType
<1>11. /\ (accrued + SCALAR_12) * year <= SCALAR_12 * (year + part)
       /\ SCALAR_12 * (year + part) <= (accrued + SCALAR_12) * year + year
  BY <1>3, <1>5, <1>7, <1>9, <1>10
<1> QED
  BY <1>10, <1>11 DEF accrued, earned, year, part

\* The target b_rate is the last one grown by the rate, but for one unit of the growth
\* and one of the target.
LEMMA TargetBounds ==
    ASSUME NEW v \in VaultRecord, NEW apr \in Nat, NEW t \in Nat,
           v.last_update_timestamp <= t
    PROVE  LET target == TargetBRate(v, apr, t)
               year   == SCALAR_7 * SECONDS_PER_YEAR
               exact  == v.b_rate * (year + apr * (t - v.last_update_timestamp))
           IN  /\ target * year <= exact + year
               /\ exact * SCALAR_12 <= (target * SCALAR_12 + v.b_rate) * year
<1> DEFINE elapsed == t - v.last_update_timestamp
           growth  == (APR_SCALE * apr * elapsed) \div SECONDS_PER_YEAR + SCALAR_12
           target  == TargetBRate(v, apr, t)
           year    == SCALAR_7 * SECONDS_PER_YEAR
           factor  == year + apr * elapsed
           r       == v.b_rate
           rg      == r * growth
           ts      == target * SCALAR_12
<1>1. /\ SCALAR_12 \in Int /\ SCALAR_12 > 0 /\ year \in Int /\ year > 0
      /\ r \in Int /\ r >= 0 /\ elapsed \in Nat
  <2>1. SCALAR_7 \in Int /\ SECONDS_PER_YEAR \in Int /\ SCALAR_7 > 0 /\ SECONDS_PER_YEAR > 0
    BY ScalarAssumption
  <2>2. year \in Int /\ year > 0
    BY <2>1, ProductType, Z3
  <2> QED
    BY <2>2, ScalarAssumption DEF VaultRecord
<1> HIDE DEF elapsed
<1>2. factor \in Int
  BY <1>1, ProductType
<1>3. /\ growth \in Int /\ growth * year <= SCALAR_12 * factor
      /\ SCALAR_12 * factor <= growth * year + year
  BY <1>1, GrowthBounds
<1>4. target = FixedMulCeil(r, growth, SCALAR_12)
  BY DEF TargetBRate, elapsed
<1> HIDE DEF growth, target, r
<1>5. target \in Int /\ rg <= ts /\ ts < rg + SCALAR_12
  BY <1>1, <1>3, <1>4, FixedMulCeilBounds
<1> HIDE DEF factor, year
<1>6. /\ rg \in Int /\ ts \in Int
      /\ rg * year = r * (growth * year)
      /\ growth * year \in Int /\ SCALAR_12 * factor \in Int /\ r * factor \in Int
      /\ target * year \in Int
  BY <1>1, <1>2, <1>3, <1>5, ProductType, ProductOrder
<1>7. /\ r * (growth * year) <= r * (SCALAR_12 * factor)
      /\ r * (SCALAR_12 * factor) <= r * (growth * year + year)
      /\ r * (growth * year + year) = r * (growth * year) + r * year
  <2> DEFINE gy == growth * year
             sf == SCALAR_12 * factor
  <2>1. gy \in Int /\ sf \in Int /\ gy <= sf /\ sf <= gy + year /\ gy + year \in Int
    BY <1>1, <1>3, <1>6
  <2> HIDE DEF gy, sf
  <2>2. gy * r <= sf * r /\ sf * r <= (gy + year) * r
    BY <2>1, <1>1, ProductMonotone
  <2>3. /\ gy * r = r * gy /\ sf * r = r * sf /\ (gy + year) * r = r * (gy + year)
        /\ r * (gy + year) = r * gy + r * year
    BY <2>1, <1>1, ProductType, Distributive
  <2> QED
    BY <2>2, <2>3 DEF gy, sf
<1>8. r * (SCALAR_12 * factor) = (r * factor) * SCALAR_12
  BY <1>1, <1>2, ProductOrder
<1> DEFINE rs == (r * factor) * SCALAR_12
<1>9. rg * year <= rs /\ rs <= rg * year + r * year
  <2> HIDE DEF rs, rg
  <2>1. rs = r * (SCALAR_12 * factor)
    BY <1>8 DEF rs
  <2> QED
    BY <2>1, <1>6, <1>7
<1>10. /\ rs \in Int /\ rg * year \in Int /\ r * year \in Int
       /\ r * factor + year \in Int
  BY <1>1, <1>6, ProductType
<1>11. target * year <= r * factor + year
  <2>1. ts * year <= (rg + SCALAR_12) * year
    <3>1. rg + SCALAR_12 \in Int /\ ts <= rg + SCALAR_12
      BY <1>1, <1>5, <1>6
    <3> HIDE DEF ts, rg
    <3> QED
      BY <3>1, <1>1, <1>6, ProductMonotone
  <2>2. (rg + SCALAR_12) * year = rg * year + SCALAR_12 * year
    BY <1>1, <1>6, Distributive
  <2>3. ts * year = (target * year) * SCALAR_12
    BY <1>1, <1>5, ProductOrder
  <2>4. (r * factor + year) * SCALAR_12 = rs + year * SCALAR_12
    BY <1>1, <1>6, Distributive
  <2>5. year * SCALAR_12 = SCALAR_12 * year /\ year * SCALAR_12 \in Int
        /\ (target * year) * SCALAR_12 \in Int
    BY <1>1, <1>6, ProductType
  <2> HIDE DEF rg, ts, rs
  <2>6. (target * year) * SCALAR_12 <= (r * factor + year) * SCALAR_12
    BY <1>9, <1>10, <2>1, <2>2, <2>3, <2>4, <2>5
  <2> QED
    BY <2>6, <1>1, <1>6, <1>10, ProductCancel
<1>12. rs <= (ts + r) * year
  <2> HIDE DEF rg, ts, rs
  <2>1. rg * year <= ts * year /\ (ts + r) * year = ts * year + r * year
    BY <1>1, <1>5, <1>6, ProductMonotone, Distributive
  <2>2. ts * year \in Int
    BY <1>1, <1>6, ProductType
  <2> QED
    BY <2>1, <2>2, <1>9, <1>10
<1> QED
  BY <1>11, <1>12 DEF rs, r, factor, elapsed, target, year, ts

\* If the difference to the target moves, the depositors are left with the value at the
\* target b_rate, or up to one b_token and one unit of underlying more.
LEMMA DiffWorth ==
    ASSUME NEW v \in VaultRecord, NEW apr \in Nat, NEW t \in Nat,
           v.last_update_timestamp <= t, NEW new_rate \in Nat, new_rate > 0
    PROVE  LET diff   == BTokenDiff(v, apr, new_rate, t)
               target == TargetBRate(v, apr, t)
               left   == v.total_b_tokens * new_rate - diff * new_rate
           IN  /\ diff \in Int
               /\ v.total_b_tokens * target <= left
               /\ left < v.total_b_tokens * target + new_rate + SCALAR_12
<1> DEFINE B      == v.total_b_tokens
           target == TargetBRate(v, apr, t)
           above  == new_rate - target
           gain   == B * above
           worth  == FixedMulFloor(B, above, SCALAR_12)
           diff   == BTokenDiff(v, apr, new_rate, t)
<1>1. /\ B \in Int /\ target \in Int /\ above \in Int /\ new_rate \in Int
      /\ SCALAR_12 \in Int /\ SCALAR_12 > 0
  BY ScalarAssumption, VaultRecordAny, TargetAboveRate DEF VaultRecord
<1>2. diff = FixedDivFloor(worth, new_rate, SCALAR_12)
  BY DEF BTokenDiff
<1> HIDE DEF target, diff, B
<1>3. /\ gain = B * new_rate - B * target /\ gain \in Int
      /\ B * new_rate \in Int /\ B * target \in Int
  BY <1>1, Distributive, ProductType
<1> HIDE DEF above
<1>4. /\ worth \in Int /\ worth * SCALAR_12 <= gain
      /\ gain < worth * SCALAR_12 + SCALAR_12
  BY <1>1, FixedMulFloorBounds
<1> HIDE DEF worth, gain
<1>5. /\ diff \in Int /\ diff * new_rate <= worth * SCALAR_12
      /\ worth * SCALAR_12 < diff * new_rate + new_rate
  BY <1>1, <1>2, <1>4, FixedDivFloorBounds
<1>6. diff * new_rate \in Int /\ worth * SCALAR_12 \in Int
  BY <1>1, <1>4, <1>5, ProductType
<1>7. /\ B * target <= B * new_rate - diff * new_rate
      /\ B * new_rate - diff * new_rate < B * target + new_rate + SCALAR_12
  BY <1>1, <1>3, <1>4, <1>5, <1>6
<1> QED
  BY <1>5, <1>7 DEF B, target, diff

\* A capped or fixed rate moves at least the difference to the target, and a fixed rate
\* exactly that unless the admin has nothing left.
LEMMA MovedDiff ==
    ASSUME NEW v \in VaultRecord, NEW f \in FeeRecord, NEW new_rate, NEW t,
           f.rate_type \in {1, 2}, BTokenDiff(v, f.rate, new_rate, t) \in Int
    PROVE  LET diff  == BTokenDiff(v, f.rate, new_rate, t)
               moved == AdminBTokens(v, f, new_rate, t)
           IN  /\ moved >= diff
               /\ f.rate_type = 2 /\ v.admin_balance + moved > 0 => moved = diff
<1> DEFINE diff  == BTokenDiff(v, f.rate, new_rate, t)
           moved == AdminBTokens(v, f, new_rate, t)
<1>1. v.admin_balance \in Nat /\ diff \in Int
  BY DEF VaultRecord
<1> HIDE DEF diff
<1>2. CASE f.rate_type = 1
  <2>1. moved = IF diff <= 0 THEN 0 ELSE diff
    BY <1>2 DEF AdminBTokens, diff
  <2> HIDE DEF moved
  <2> QED
    BY <2>1, <1>1, <1>2 DEF moved, diff
<1>3. CASE f.rate_type = 2
  <2>1. moved = FixedRateBTokens(v, diff)
    BY <1>3 DEF AdminBTokens, diff
  <2> HIDE DEF moved
  <2>2. moved >= diff /\ (v.admin_balance + moved > 0 => moved = diff)
    BY <2>1, <1>1 DEF FixedRateBTokens
  <2> QED
    BY <2>2 DEF moved, diff
<1> QED
  BY <1>2, <1>3

-----------------------------------------------------------------------------
(***************************************************************************)
(* Conversions.                                                            *)
(***************************************************************************)

\* A vault whose outstanding shares are worth something.
Priced(v) == v.total_shares > 0 => v.total_b_tokens > 0

\* Minting rounds for the holders: the new shares are worth at most what is paid.
LEMMA MintBounds ==
    ASSUME NEW v \in VaultRecord, Priced(v), NEW b \in Nat
    PROVE  /\ BTokensToSharesDown(v, b) \in Int
           /\ v.total_shares > 0
              => /\ BTokensToSharesDown(v, b) * v.total_b_tokens <= b * v.total_shares
                 /\ b * v.total_shares
                    < BTokensToSharesDown(v, b) * v.total_b_tokens + v.total_b_tokens
<1>1. /\ v.total_shares \in Int /\ v.total_shares >= 0
      /\ v.total_b_tokens \in Int /\ v.total_b_tokens >= 0 /\ b \in Int
  BY DEF VaultRecord
<1>2. CASE v.total_shares = 0 \/ v.total_b_tokens = 0
  BY <1>1, <1>2 DEF BTokensToSharesDown, Priced
<1>3. CASE ~(v.total_shares = 0 \/ v.total_b_tokens = 0)
  <2>1. BTokensToSharesDown(v, b) = FixedMulFloor(b, v.total_shares, v.total_b_tokens)
    BY <1>3 DEF BTokensToSharesDown
  <2>2. v.total_b_tokens > 0
    BY <1>1, <1>3
  <2>3. /\ FixedMulFloor(b, v.total_shares, v.total_b_tokens) \in Int
        /\ FixedMulFloor(b, v.total_shares, v.total_b_tokens) * v.total_b_tokens
           <= b * v.total_shares
        /\ b * v.total_shares
           < FixedMulFloor(b, v.total_shares, v.total_b_tokens) * v.total_b_tokens
             + v.total_b_tokens
    BY <2>2, <1>1, FixedMulFloorBounds
  <2> QED
    BY <2>1, <2>3
<1> QED
  BY <1>2, <1>3

\* Burning rounds for the holders: the burnt shares are worth at least what is paid.
LEMMA BurnBounds ==
    ASSUME NEW v \in VaultRecord, v.total_shares > 0, Priced(v), NEW b \in Int
    PROVE  /\ BTokensToSharesUp(v, b) \in Int
           /\ b * v.total_shares <= BTokensToSharesUp(v, b) * v.total_b_tokens
           /\ BTokensToSharesUp(v, b) * v.total_b_tokens < b * v.total_shares + v.total_b_tokens
<1>1. /\ v.total_shares \in Int /\ v.total_shares > 0
      /\ v.total_b_tokens \in Int /\ v.total_b_tokens > 0
  BY DEF VaultRecord, Priced
<1>2. ~(v.total_shares = 0 \/ v.total_b_tokens = 0)
  BY <1>1
<1>3. BTokensToSharesUp(v, b) = FixedMulCeil(b, v.total_shares, v.total_b_tokens)
  BY <1>2 DEF BTokensToSharesUp
<1> QED
  BY <1>1, <1>3, FixedMulCeilBounds

=============================================================================
