------------------------- MODULE RewardsEarnedProofs -------------------------
(***************************************************************************)
(* How much the users earn, for every set of users and tokens, any amounts *)
(* and periods and any history: every holder its part of every second, and *)
(* all together no more than the vault can pay, as long as the admin       *)
(* returns to a reward token used before only when all holders of shares   *)
(* have an account of it at its index.                                     *)
(*                                                                         *)
(* What is due now is not inductive.  AllFunded is: of the current token   *)
(* what all users have earned, unrounded, and what the period will still   *)
(* emit (RewardsFunded), and what is owed of the tokens set aside.  The    *)
(* first parts are about the terms of that sum and about one second of it, *)
(* the next about what the calls do to the sum, the last is the theorem.   *)
(***************************************************************************)
EXTENDS RewardsProofs

-----------------------------------------------------------------------------
(***************************************************************************)
(* What one user has earned.                                               *)
(***************************************************************************)

\* What has been earned since the account was settled is not negative, and is no less
\* than what accrues.
LEMMA EarnedBounds ==
    ASSUME NEW data \in RewardData, NEW account \in UserRewards \cup {None},
           NEW user_shares \in Nat, account # None => account.index <= data.index
    PROVE  /\ Earned(data, account, user_shares) \in Nat
           /\ Accrued(data, account, user_shares) \in Nat
           /\ Accrued(data, account, user_shares) * SCALAR_7
              <= Earned(data, account, user_shares)
           /\ Earned(data, account, user_shares)
              < Accrued(data, account, user_shares) * SCALAR_7 + SCALAR_7
<1> DEFINE since == IF account = None THEN 0 ELSE account.index
           past  == IF account = None THEN 0 ELSE account.accrued
           delta == data.index - since
<1>1. since \in Nat /\ past \in Nat /\ delta \in Nat
  BY DEF UserRewards, RewardData
<1>2. Earned(data, account, user_shares) = past * SCALAR_7 + user_shares * delta
  BY DEF Earned
<1>3. Accrued(data, account, user_shares)
      = IF user_shares # 0 /\ data.index > since
        THEN past + FixedMulFloor(user_shares, delta, SCALAR_7)
        ELSE past
  BY DEF Accrued
<1>4. SCALAR_7 \in Nat /\ SCALAR_7 > 0
  BY ScalarAssumption
<1>5. Accrued(data, account, user_shares) \in Nat
  BY AccruedType
<1> HIDE DEF since, past, delta
<1>6. past * SCALAR_7 \in Nat /\ user_shares * delta \in Nat
  BY <1>1, <1>4, ProductType
<1>7. CASE user_shares # 0 /\ data.index > since
  <2> DEFINE gain == FixedMulFloor(user_shares, delta, SCALAR_7)
  <2>1. /\ gain \in Int /\ gain * SCALAR_7 <= user_shares * delta
        /\ user_shares * delta < gain * SCALAR_7 + SCALAR_7
    BY <1>1, <1>4, FixedMulFloorBounds
  <2>2. Accrued(data, account, user_shares) = past + gain
    BY <1>3, <1>7
  <2> HIDE DEF gain
  <2>3. (past + gain) * SCALAR_7 = past * SCALAR_7 + gain * SCALAR_7
    BY <2>1, <1>1, <1>4, Distributive
  <2>4. gain * SCALAR_7 \in Int
    BY <2>1, <1>4, ProductType
  <2> QED
    BY <2>1, <2>2, <2>3, <2>4, <1>2, <1>4, <1>5, <1>6
<1>8. CASE ~(user_shares # 0 /\ data.index > since)
  <2>1. user_shares * delta = 0
    <3>1. user_shares = 0 \/ delta = 0
      BY <1>8, <1>1 DEF delta, since, RewardData, UserRewards
    <3> QED
      BY <3>1, <1>1
  <2> QED
    BY <2>1, <1>8, <1>2, <1>3, <1>4, <1>5, <1>6
<1> QED
  BY <1>7, <1>8

\* A user at the index has earned what its account says, whatever its shares.
LEMMA EarnedAtIndex ==
    ASSUME NEW data \in RewardData, NEW accrued \in Nat, NEW user_shares \in Nat
    PROVE  Earned(data, [index |-> data.index, accrued |-> accrued], user_shares)
           = accrued * SCALAR_7
<1> DEFINE account == [index |-> data.index, accrued |-> accrued]
<1>1. data.index \in Nat /\ SCALAR_7 \in Nat
  BY ScalarAssumption DEF RewardData
<1>2. account \in UserRewards /\ account.index = data.index /\ account.accrued = accrued
  BY <1>1 DEF UserRewards
<1>3. account # None
  BY <1>2, NoneAssumption
<1> HIDE DEF account
<1>4. Earned(data, account, user_shares)
      = accrued * SCALAR_7 + user_shares * (data.index - data.index)
  BY <1>2, <1>3 DEF Earned
<1>5. user_shares * (data.index - data.index) = 0 /\ accrued * SCALAR_7 \in Int
  BY <1>1, ProductType
<1> QED
  BY <1>4, <1>5 DEF account

\* When the index gains g, a user earns g for every share.
LEMMA EarnedGrows ==
    ASSUME NEW data \in RewardData, NEW later \in RewardData, NEW g \in Nat,
           later.index = data.index + g,
           NEW account \in UserRewards \cup {None}, NEW user_shares \in Nat
    PROVE  Earned(later, account, user_shares)
           = Earned(data, account, user_shares) + user_shares * g
<1> DEFINE since == IF account = None THEN 0 ELSE account.index
           past  == IF account = None THEN 0 ELSE account.accrued
<1>1. since \in Nat /\ past \in Nat /\ data.index \in Nat /\ SCALAR_7 \in Nat
  BY ScalarAssumption DEF UserRewards, RewardData
<1>2. /\ Earned(data, account, user_shares)
         = past * SCALAR_7 + user_shares * (data.index - since)
      /\ Earned(later, account, user_shares)
         = past * SCALAR_7 + user_shares * (later.index - since)
  BY DEF Earned
<1> HIDE DEF since, past
<1>3. later.index - since = (data.index - since) + g /\ data.index - since \in Int
  BY <1>1
<1>4. user_shares * ((data.index - since) + g)
      = user_shares * (data.index - since) + user_shares * g
  BY <1>3, Distributive
<1>5. /\ past * SCALAR_7 \in Int
      /\ user_shares * (data.index - since) \in Int /\ user_shares * g \in Int
  BY <1>1, <1>3, ProductType
<1> QED
  BY <1>2, <1>3, <1>4, <1>5

\* What is left of a period at time t is no more than what was left when the reward
\* data were updated.
LEMMA UnemittedBounds ==
    ASSUME NEW data \in RewardData
    PROVE  /\ Unemitted(data) \in Nat
           /\ \A t \in Nat : data.last_time <= t /\ t < data.expiration
                  => (data.expiration - t) * data.eps <= Unemitted(data)
<1>1. data.last_time \in Nat /\ data.expiration \in Nat /\ data.eps \in Nat
  BY DEF RewardData
<1>2. Unemitted(data) \in Nat
  BY <1>1, ProductType DEF Unemitted
<1>3. ASSUME NEW t \in Nat, data.last_time <= t, t < data.expiration
      PROVE  (data.expiration - t) * data.eps <= Unemitted(data)
  <2>1. /\ data.expiration - t \in Int /\ data.expiration - data.last_time \in Int
        /\ data.expiration - t <= data.expiration - data.last_time
        /\ data.last_time < data.expiration
    BY <1>1, <1>3
  <2>2. (data.expiration - t) * data.eps
        <= (data.expiration - data.last_time) * data.eps
    BY <2>1, <1>1, ProductMonotone
  <2> QED
    BY <2>1, <2>2 DEF Unemitted
<1> QED
  BY <1>2, <1>3

\* When reward data are brought to time t, the shares together gain no more than the
\* period stops to promise.
LEMMA LoadUpdatedGain ==
    ASSUME NEW data \in RewardData, NEW total \in Nat, NEW t \in Nat,
           data.last_time <= t
    PROVE  LET new == LoadUpdated(data, total, t)
           IN  /\ new.index - data.index \in Nat
               /\ (new.index - data.index) * total + Unemitted(new) * SCALAR_7
                  <= Unemitted(data) * SCALAR_7
<1> DEFINE until   == IF t > data.expiration THEN data.expiration ELSE t
           emitted == (until - data.last_time) * data.eps
           left    == (data.expiration - until) * data.eps
           gain    == FixedDivFloor(emitted, total, SCALAR_7)
           new     == [data EXCEPT !.index = @ + gain, !.last_time = t]
<1>1. /\ data.eps \in Nat /\ data.expiration \in Nat
      /\ data.index \in Nat /\ data.last_time \in Nat
      /\ data # None
  BY NoneAssumption DEF RewardData
<1>2. SCALAR_7 \in Nat /\ SCALAR_7 > 0
  BY ScalarAssumption
<1>3. CASE \/ data.last_time >= data.expiration
           \/ t = data.last_time
           \/ data.eps = 0
           \/ total = 0
  <2>1. LoadUpdated(data, total, t) = data
    BY <1>3 DEF LoadUpdated
  <2>2. Unemitted(data) * SCALAR_7 \in Int /\ 0 * total = 0
    BY <1>2, UnemittedBounds, ProductType
  <2>3. data.index - data.index = 0
    BY <1>1
  <2> QED
    BY <2>1, <2>2, <2>3
<1>4. CASE ~(\/ data.last_time >= data.expiration
             \/ t = data.last_time
             \/ data.eps = 0
             \/ total = 0)
  <2>1. LoadUpdated(data, total, t) = new
    BY <1>4, <1>1 DEF LoadUpdated
  <2>2. /\ until \in Nat /\ until - data.last_time \in Int
        /\ data.expiration - until \in Int
        /\ (until - data.last_time) + (data.expiration - until)
           = data.expiration - data.last_time
    BY <1>1, <1>4
  <2>3. Unemitted(data) = emitted + left
    <3>1. ((until - data.last_time) + (data.expiration - until)) * data.eps
          = emitted + left
      BY <2>2, <1>1, Distributive
    <3>2. Unemitted(data) = (data.expiration - data.last_time) * data.eps
      BY <1>1, <1>4 DEF Unemitted
    <3> QED
      BY <3>1, <3>2, <2>2
  <2>4. LoadUpdated(data, total, t) \in RewardData
    BY LoadUpdatedType
  <2>5. /\ new.eps = data.eps /\ new.expiration = data.expiration
        /\ new.index = data.index + gain /\ new.last_time = t
    BY Zenon DEF RewardData
  <2>6. Unemitted(new) = left
    <3>1. CASE t < data.expiration
      <4>1. until = t
        BY <3>1, <1>1
      <4> QED
        BY <4>1, <3>1, <2>5 DEF Unemitted
    <3>2. CASE ~(t < data.expiration)
      <4>1. until = data.expiration /\ data.expiration - until = 0
        BY <3>2, <1>1
      <4>2. left = 0
        BY <4>1, <1>1, ProductType
      <4> QED
        BY <4>2, <3>2, <2>5 DEF Unemitted
    <3> QED
      BY <3>1, <3>2
  <2>7. emitted \in Int /\ left \in Int
    BY <2>2, <1>1, ProductType
  <2> HIDE DEF emitted, left
  <2>8. gain \in Int /\ gain * total <= emitted * SCALAR_7
    BY <2>7, <1>2, <1>4, FixedDivFloorBounds
  <2>9. new.index - data.index = gain
    BY <2>5, <2>8, <1>1
  <2>10. gain \in Nat
    <3>1. LoadUpdated(data, total, t).index >= data.index
      BY LoadUpdatedType
    <3> QED
      BY <3>1, <2>1, <2>5, <2>8, <1>1
  <2> HIDE DEF new, gain
  <2>11. (emitted + left) * SCALAR_7 = emitted * SCALAR_7 + left * SCALAR_7
    BY <2>7, <1>2, Distributive
  <2>12. gain * total \in Int /\ emitted * SCALAR_7 \in Int /\ left * SCALAR_7 \in Int
    BY <2>7, <2>8, <1>2, ProductType
  <2> QED
    BY <2>1, <2>3, <2>6, <2>8, <2>9, <2>10, <2>11, <2>12
<1> QED
  BY <1>3, <1>4

-----------------------------------------------------------------------------
(***************************************************************************)
(* One second.                                                             *)
(***************************************************************************)

\* The index of updated reward data, in one formula.
LEMMA LoadUpdatedIndex ==
    ASSUME NEW data \in RewardData, NEW total \in Nat, total > 0, NEW t \in Nat,
           data.last_time <= t, data.eps > 0, data.last_time < data.expiration
    PROVE  LET until == IF t > data.expiration THEN data.expiration ELSE t
           IN  LoadUpdated(data, total, t).index
               = data.index + FixedDivFloor((until - data.last_time) * data.eps,
                                            total, SCALAR_7)
<1> DEFINE until == IF t > data.expiration THEN data.expiration ELSE t
           gain  == FixedDivFloor((until - data.last_time) * data.eps, total, SCALAR_7)
           new   == [data EXCEPT !.index = @ + gain, !.last_time = t]
<1>1. /\ data.eps \in Nat /\ data.expiration \in Nat /\ SCALAR_7 \in Nat /\ SCALAR_7 > 0
      /\ data.index \in Nat /\ data.last_time \in Nat
      /\ data # None
  BY NoneAssumption, ScalarAssumption DEF RewardData
<1>2. CASE t = data.last_time
  <2>1. LoadUpdated(data, total, t) = data
    BY <1>2 DEF LoadUpdated
  <2> DEFINE x == (until - data.last_time) * data.eps
  <2>2. x = 0
    BY <1>1, <1>2
  <2> HIDE DEF x
  <2>3. gain = 0
    <3>1. gain \in Int /\ gain * total <= 0 * SCALAR_7 /\ 0 * SCALAR_7 < gain * total + total
      <4> DEFINE f == FixedDivFloor(x, total, SCALAR_7)
      <4>1. f \in Int /\ f * total <= x * SCALAR_7 /\ x * SCALAR_7 < f * total + total
        <5>1. x \in Int /\ total \in Int /\ SCALAR_7 \in Int
          BY <2>2, <1>1
        <5> QED
          BY <5>1, FixedDivFloorBounds
      <4>2. gain = f
        BY DEF x
      <4> HIDE DEF f, gain
      <4> QED
        BY <4>1, <4>2, <2>2
    <3>2. 0 * SCALAR_7 = 0 /\ 0 * total = 0 /\ gain * total \in Int
      BY <3>1, <1>1, ProductType
    <3> HIDE DEF gain
    <3>3. gain <= 0 /\ 0 <= gain
      BY <3>1, <3>2, ProductCancel
    <3> QED
      BY <3>1, <3>3
  <2> HIDE DEF gain
  <2> QED
    BY <2>1, <2>3, <1>1 DEF gain
<1>3. CASE t # data.last_time
  <2>1. LoadUpdated(data, total, t) = new
    BY <1>1, <1>3 DEF LoadUpdated
  <2>2. new.index = data.index + gain
    BY Zenon DEF RewardData
  <2> QED
    BY <2>1, <2>2
<1> QED
  BY <1>2, <1>3

\* In a second of the period the index gains what that second emits for each share, give
\* or take one for the rounding of the two indices; after the period it stands still.
LEMMA IndexGain ==
    ASSUME NEW data \in RewardData, NEW total \in Nat, total > 0, NEW t \in Nat,
           data.last_time <= t, data.eps > 0
    PROVE  LET g == LoadUpdated(data, total, t + 1).index - LoadUpdated(data, total, t).index
           IN  /\ g \in Nat
               /\ t < data.expiration
                  => /\ data.eps * SCALAR_7 - total < g * total
                     /\ g * total < data.eps * SCALAR_7 + total
               /\ t >= data.expiration => g = 0
<1> DEFINE I0 == LoadUpdated(data, total, t).index
           I1 == LoadUpdated(data, total, t + 1).index
           g  == I1 - I0
<1>1. /\ data.eps \in Nat /\ data.expiration \in Nat /\ SCALAR_7 \in Nat /\ SCALAR_7 > 0
      /\ data.index \in Nat /\ data.last_time \in Nat
  BY ScalarAssumption DEF RewardData
<1>2. /\ LoadUpdated(data, total, t) \in RewardData
      /\ LoadUpdated(data, total, t + 1) \in RewardData
  BY <1>1, LoadUpdatedType
<1>3. I0 \in Nat /\ I1 \in Nat
  BY <1>2 DEF RewardData
<1>4. CASE data.last_time >= data.expiration
  <2>1. I0 = data.index /\ I1 = data.index
    BY <1>4 DEF LoadUpdated
  <2> QED
    BY <2>1, <1>1, <1>4
<1>5. CASE data.last_time < data.expiration /\ t >= data.expiration
  <2> DEFINE f == FixedDivFloor((data.expiration - data.last_time) * data.eps,
                                total, SCALAR_7)
  <2>1. /\ (IF t > data.expiration THEN data.expiration ELSE t) = data.expiration
        /\ (IF t + 1 > data.expiration THEN data.expiration ELSE t + 1) = data.expiration
    BY <1>1, <1>5
  <2>2. I0 = data.index + f /\ I1 = data.index + f
    BY <2>1, <1>1, <1>5, LoadUpdatedIndex
  <2> HIDE DEF I0, I1, f
  <2> QED
    BY <2>2, <1>3, <1>1, <1>5 DEF I0, I1
<1>6. CASE data.last_time < data.expiration /\ t < data.expiration
  <2> DEFINE x  == (t - data.last_time) * data.eps
             y  == (t + 1 - data.last_time) * data.eps
             f0 == FixedDivFloor(x, total, SCALAR_7)
             f1 == FixedDivFloor(y, total, SCALAR_7)
  <2>1. /\ (IF t > data.expiration THEN data.expiration ELSE t) = t
        /\ (IF t + 1 > data.expiration THEN data.expiration ELSE t + 1) = t + 1
    BY <1>1, <1>6
  <2>2. I0 = data.index + f0 /\ I1 = data.index + f1
    BY <2>1, <1>1, <1>6, LoadUpdatedIndex
  <2>3. x \in Int /\ y \in Int /\ y = x + data.eps
    <3> DEFINE n == t - data.last_time
    <3>1. n \in Int /\ t + 1 - data.last_time = n + 1
      BY <1>1
    <3> HIDE DEF n
    <3>2. (n + 1) * data.eps = n * data.eps + data.eps /\ n * data.eps \in Int
      BY <3>1, <1>1, Distributive, ProductType
    <3> QED
      BY <3>1, <3>2, <1>1 DEF n
  <2> HIDE DEF x, y, I0, I1
  <2>4. /\ f0 \in Int /\ f0 * total <= x * SCALAR_7 /\ x * SCALAR_7 < f0 * total + total
        /\ f1 \in Int /\ f1 * total <= y * SCALAR_7 /\ y * SCALAR_7 < f1 * total + total
    <3>1. x \in Int /\ y \in Int /\ SCALAR_7 \in Int /\ total \in Int /\ total > 0
      BY <2>3, <1>1
    <3> QED
      BY <3>1, FixedDivFloorBounds
  <2> HIDE DEF f0, f1
  <2>5. y * SCALAR_7 = x * SCALAR_7 + data.eps * SCALAR_7
    BY <2>3, <1>1, Distributive
  <2>6. g = f1 - f0 /\ g \in Int /\ g * total = f1 * total - f0 * total
    BY <2>2, <2>4, <1>1, <1>3, Distributive
  <2>7. /\ x * SCALAR_7 \in Int /\ data.eps * SCALAR_7 \in Nat
        /\ f0 * total \in Int /\ f1 * total \in Int
    BY <2>3, <2>4, <1>1, ProductType
  <2> HIDE DEF g
  <2>8. /\ data.eps * SCALAR_7 - total < g * total
        /\ g * total < data.eps * SCALAR_7 + total
    BY <2>4, <2>5, <2>6, <2>7
  <2>9. g >= 0
    <3>1. 0 * total = 0 /\ g * total \in Int
      BY <2>6, <2>7
    <3>2. 0 * total < g * total + total
      BY <2>7, <2>8, <3>1
    <3> QED
      BY <2>6, <3>2, ProductCancel
  <2> QED
    BY <2>6, <2>8, <2>9, <1>1, <1>6 DEF g, I0, I1
<1> QED
  BY <1>1, <1>4, <1>5, <1>6

\* Two roundings of what a user earns when the index gains g.
LEMMA GainBounds ==
    ASSUME NEW before \in Int, NEW after \in Int, NEW earned \in Int, NEW s \in Nat,
           NEW g \in Nat, NEW total \in Nat, total > 0, NEW emitted \in Int,
           NEW scalar \in Nat, scalar > 0,
           before * scalar <= earned, earned < before * scalar + scalar,
           after * scalar <= earned + s * g, earned + s * g < after * scalar + scalar,
           emitted - total < g * total, g * total < emitted + total
    PROVE  /\ s * (emitted - total) < (after - before + 1) * scalar * total
           /\ (after - before - 1) * scalar * total < s * (emitted + total)
<1> DEFINE up   == (after - before + 1) * scalar
           down == (after - before - 1) * scalar
           sg   == s * g
<1>1. /\ before * scalar \in Int /\ after * scalar \in Int /\ sg \in Int
      /\ g * total \in Int
  BY ProductType
<1>2. /\ up = after * scalar - before * scalar + scalar
      /\ down = after * scalar - before * scalar - scalar
  <2>1. (after - before) * scalar = after * scalar - before * scalar /\ after - before \in Int
    BY Distributive
  <2>2. /\ ((after - before) + 1) * scalar = (after - before) * scalar + 1 * scalar
        /\ ((after - before) - 1) * scalar = (after - before) * scalar - 1 * scalar
    BY <2>1, Distributive
  <2> QED
    BY <2>1, <2>2
<1>3. sg + 1 <= up /\ down + 1 <= sg /\ up \in Int /\ down \in Int
  <2> HIDE DEF up, down, sg
  <2> QED
    BY <1>1, <1>2 DEF sg
<1> HIDE DEF up, down
<1>4. sg * total = s * (g * total) /\ sg * total \in Int
  BY <1>1, Z3
<1>5. s * (emitted - total) <= s * (g * total) /\ s * (g * total) <= s * (emitted + total)
  BY <1>1, ProductMonotone, ProductType
<1>6. /\ s * (emitted - total) \in Int /\ s * (emitted + total) \in Int
      /\ up * total \in Int /\ down * total \in Int
  BY <1>3, ProductType
<1> HIDE DEF sg
<1>7. (sg + 1) * total <= up * total /\ (sg + 1) * total = sg * total + total
  <2>1. sg \in Int /\ sg + 1 \in Int
    BY <1>1
  <2> QED
    BY <2>1, <1>3, ProductMonotone, Distributive
<1>8. (down + 1) * total <= sg * total /\ (down + 1) * total = down * total + total
  <2>1. down + 1 \in Int /\ sg \in Int
    BY <1>1, <1>3
  <2> QED
    BY <2>1, <1>3, ProductMonotone, Distributive
<1>9. s * (emitted - total) < up * total /\ down * total < s * (emitted + total)
  BY <1>4, <1>5, <1>6, <1>7, <1>8
<1> QED
  BY <1>9 DEF up, down

\* Every holder earns its part of every second.
LEMMA TickEarns ==
    ASSUME Inv, Inv', Tick, reward_token # None, total_shares > 0, NEW user \in Users
    PROVE  EarnsItsPart(user)
<1> DEFINE t       == reward_token
           data    == reward_data[t]
           total   == total_shares
           s       == shares[user]
           account == user_rewards[AccountKey(t, user)]
           L0      == LoadUpdated(data, total, now)
           L1      == LoadUpdated(data, total, now + 1)
           g       == L1.index - L0.index
           before  == Due(user, t)
           after   == Due(user, t)'
           earned  == Earned(L0, account, s)
<1>1. /\ t \in Tokens /\ data # None /\ total \in Nat /\ s \in Nat /\ now \in Nat
      /\ DataOK(reward_data, now) /\ AccountsOK(reward_data, user_rewards)
  BY InvParts
<1>2. data \in RewardData /\ data.last_time <= now /\ data.eps > 0
  BY <1>1 DEF DataOK
<1>3. data.last_time \in Nat /\ data.eps \in Nat /\ data.expiration \in Nat
  BY <1>2 DEF RewardData
<1>4. /\ L0 \in RewardData /\ L0.index >= data.index
      /\ L1 \in RewardData /\ L1.index >= data.index
  <2>1. now + 1 \in Nat /\ data.last_time <= now + 1
    BY <1>1, <1>2, <1>3
  <2> DEFINE d == data
  <2>2. d \in RewardData
    BY <1>2
  <2>3. d.last_time <= now /\ d.last_time <= now + 1
    BY <1>2, <2>1
  <2> HIDE DEF d
  <2>4. /\ LoadUpdated(d, total, now) \in RewardData
        /\ LoadUpdated(d, total, now).index >= d.index
    BY <1>1, <2>2, <2>3, LoadUpdatedType
  <2>5. /\ LoadUpdated(d, total, now + 1) \in RewardData
        /\ LoadUpdated(d, total, now + 1).index >= d.index
    BY <1>1, <2>1, <2>2, <2>3, LoadUpdatedType
  <2> QED
    BY <2>4, <2>5 DEF d
<1>5. /\ g \in Nat
      /\ now < data.expiration => /\ data.eps * SCALAR_7 - total < g * total
                                  /\ g * total < data.eps * SCALAR_7 + total
      /\ now >= data.expiration => g = 0
  BY <1>1, <1>2, IndexGain
<1>6. /\ account \in UserRewards \cup {None}
      /\ account # None => account.index <= data.index
  BY <1>1, AccountKeys DEF AccountsOK
<1>7. L0 # None /\ L1 # None /\ data.index \in Nat /\ L0.index \in Nat /\ L1.index \in Nat
  BY <1>2, <1>4, NoneAssumption DEF RewardData
<1>8. before = Accrued(L0, account, s) /\ after = Accrued(L1, account, s)
  BY <1>7 DEF Due, GetRewardData, Account, Tick
<1>9. account # None => account.index <= L0.index /\ account.index <= L1.index
  <2>1. account # None => account.index \in Nat
    BY <1>6 DEF UserRewards
  <2> QED
    BY <2>1, <1>4, <1>6, <1>7
<1>10. L1.index = L0.index + g
  BY <1>7
<1> HIDE DEF L0, L1, g, account, data
<1>11. Earned(L1, account, s) = earned + s * g
  <2> DEFINE d == shares[user]
  <2>1. d \in Nat
    BY <1>1
  <2> HIDE DEF d
  <2>2. Earned(L1, account, d) = Earned(L0, account, d) + d * g
    BY <1>4, <1>5, <1>6, <1>10, <2>1, EarnedGrows
  <2> QED
    BY <2>2 DEF d
<1>12. /\ before \in Nat /\ earned \in Nat
       /\ before * SCALAR_7 <= earned /\ earned < before * SCALAR_7 + SCALAR_7
  BY <1>1, <1>4, <1>6, <1>8, <1>9, EarnedBounds
<1>13. /\ after \in Nat /\ after * SCALAR_7 <= earned + s * g
       /\ earned + s * g < after * SCALAR_7 + SCALAR_7
  BY <1>1, <1>4, <1>6, <1>8, <1>9, <1>11, EarnedBounds
<1>14. CASE now < data.expiration
  <2>1. data.eps * SCALAR_7 \in Int /\ SCALAR_7 \in Nat /\ SCALAR_7 > 0
    BY <1>3, ScalarAssumption, ProductType
  <2> DEFINE emitted == data.eps * SCALAR_7
  <2> HIDE DEF emitted, before, after, earned
  <2>2. /\ s * (emitted - total) < (after - before + 1) * SCALAR_7 * total
        /\ (after - before - 1) * SCALAR_7 * total < s * (emitted + total)
    BY <1>1, <1>5, <1>12, <1>13, <1>14, <2>1, GainBounds DEF emitted
  <2> QED
    BY <2>2, <1>14 DEF EarnsItsPart, emitted, before, after, data
<1>15. CASE ~(now < data.expiration)
  <2>1. g = 0
    BY <1>1, <1>3, <1>5, <1>15
  <2>2. L1.index = L0.index
    BY <2>1, <1>7, <1>10
  <2>3. after = before
    BY <2>2, <1>8, AccruedByIndex
  <2> HIDE DEF before, after
  <2>4. after - before = 0
    BY <2>3, <1>12
  <2> QED
    BY <2>4, <1>15 DEF EarnsItsPart, before, after, data
<1> QED
  BY <1>14, <1>15

\* Every holder earns its part of every second of a period, whenever it was last settled
\* and whether or not it has an account.
THEOREM HoldersTheorem == Spec => HoldersEarnTheirPart
<1>1. ASSUME Inv, Inv', [Next]_vars, now' # now, reward_token # None, total_shares > 0
      PROVE  \A user \in Users : EarnsItsPart(user)
  <2>1. Tick
    BY <1>1 DEF Next, Deposit, Withdraw, SetRewards, ClaimRewards, vars
  <2> QED
    BY <2>1, <1>1, TickEarns
<1> QED
  BY <1>1, Invariance, PTL DEF Spec, HoldersEarnTheirPart

-----------------------------------------------------------------------------
(***************************************************************************)
(* What all users have earned.  `accounts' are the users' accounts of one  *)
(* token, `holdings' the users' shares.                                    *)
(***************************************************************************)

Accounts(ur, token) == [user \in Users |-> ur[AccountKey(token, user)]]

\* The accounts are typed and behind the index.
Behind(accounts, data) ==
    /\ accounts \in [Users -> UserRewards \cup {None}]
    /\ \A user \in Users :
           accounts[user] # None => accounts[user].index <= data.index

EarnedBy(data, accounts, holdings) ==
    [user \in Users |-> Earned(data, accounts[user], holdings[user])]

NoShares == [user \in Users |-> 0]

\* What RewardsFunded says of a token of which the vault holds `funds'.
Funded(data, accounts, holdings, funds) ==
    Total(Users, EarnedBy(data, accounts, holdings)) + Unemitted(data) * SCALAR_7
    <= funds * SCALAR_7

\* The terms of the sum are natural numbers.
LEMMA EarnedByType ==
    ASSUME NEW data \in RewardData, NEW accounts, Behind(accounts, data),
           NEW holdings \in [Users -> Nat]
    PROVE  /\ EarnedBy(data, accounts, holdings) \in [Users -> Nat]
           /\ Total(Users, EarnedBy(data, accounts, holdings)) \in Nat
<1>1. ASSUME NEW user \in Users PROVE Earned(data, accounts[user], holdings[user]) \in Nat
  BY EarnedBounds DEF Behind
<1>2. EarnedBy(data, accounts, holdings) \in [Users -> Nat]
  BY <1>1 DEF EarnedBy
<1> QED
  BY <1>2, UsersAssumption, TotalType

\* Bringing the reward data to the present moves what the period promises to the users,
\* and keeps the token funded: the index is divided among all their shares.
LEMMA FundedUpdated ==
    ASSUME NEW data \in RewardData, NEW accounts, Behind(accounts, data),
           NEW holdings \in [Users -> Nat], NEW funds \in Nat, NEW t \in Nat,
           data.last_time <= t, Funded(data, accounts, holdings, funds)
    PROVE  LET new == LoadUpdated(data, Total(Users, holdings), t)
           IN  Behind(accounts, new) /\ Funded(new, accounts, holdings, funds)
<1> DEFINE total  == Total(Users, holdings)
           new    == LoadUpdated(data, total, t)
           g      == new.index - data.index
           before == EarnedBy(data, accounts, holdings)
           gained == [user \in Users |-> holdings[user] * g]
           after  == EarnedBy(new, accounts, holdings)
<1>1. total \in Nat
  BY UsersAssumption, TotalType
<1> HIDE DEF total
<1>2. new \in RewardData
  BY <1>1, LoadUpdatedType
<1>3. /\ g \in Nat
      /\ g * total + Unemitted(new) * SCALAR_7 <= Unemitted(data) * SCALAR_7
  BY <1>1, LoadUpdatedGain
<1> HIDE DEF new
<1>4. data.index \in Nat /\ new.index \in Nat
  BY <1>2 DEF RewardData
<1>5. new.index = data.index + g /\ data.index <= new.index
  BY <1>3, <1>4
<1>6. Behind(accounts, new)
  <2> SUFFICES ASSUME NEW user \in Users, accounts[user] # None
               PROVE  accounts[user].index <= new.index
    BY DEF Behind
  <2>1. accounts[user].index \in Nat /\ accounts[user].index <= data.index
    BY DEF Behind, UserRewards
  <2> QED
    BY <2>1, <1>4, <1>5
<1> HIDE DEF g
<1>7. gained \in [Users -> Nat]
  <2> SUFFICES ASSUME NEW user \in Users PROVE holdings[user] * g \in Nat
    OBVIOUS
  <2> QED
    BY <1>3, ProductType
<1>8. before \in [Users -> Nat] /\ after \in [Users -> Nat]
  BY <1>2, <1>6, EarnedByType
<1>9. \A user \in Users : after[user] = before[user] + gained[user]
  <2> SUFFICES ASSUME NEW user \in Users
               PROVE  Earned(new, accounts[user], holdings[user])
                      = Earned(data, accounts[user], holdings[user]) + holdings[user] * g
    BY DEF EarnedBy
  <2>1. accounts[user] \in UserRewards \cup {None} /\ holdings[user] \in Nat
    BY DEF Behind
  <2>2. \A account \in UserRewards \cup {None}, n \in Nat :
            Earned(new, account, n) = Earned(data, account, n) + n * g
    BY <1>2, <1>3, <1>5, EarnedGrows
  <2> QED
    BY <2>1, <2>2
<1>10. Total(Users, gained) = total * g
  BY <1>3, UsersAssumption, TotalTimes DEF total
<1> HIDE DEF before, gained, after
<1>11. Total(Users, after) = Total(Users, before) + Total(Users, gained)
  BY <1>7, <1>8, <1>9, UsersAssumption, TotalPlus
<1>12. Total(Users, before) \in Nat /\ total * g = g * total /\ g * total \in Int
  BY <1>1, <1>3, <1>8, UsersAssumption, TotalType, ProductType
<1>13. /\ Unemitted(data) * SCALAR_7 \in Int /\ Unemitted(new) * SCALAR_7 \in Int
       /\ funds * SCALAR_7 \in Int
  BY <1>2, ScalarAssumption, UnemittedBounds, ProductType
<1>14. Total(Users, before) + Unemitted(data) * SCALAR_7 <= funds * SCALAR_7
  BY DEF Funded, before
<1>15. Total(Users, after) + Unemitted(new) * SCALAR_7 <= funds * SCALAR_7
  BY <1>3, <1>10, <1>11, <1>12, <1>13, <1>14
<1>16. Funded(new, accounts, holdings, funds)
  BY <1>15 DEF Funded, after
<1> QED
  BY <1>6, <1>16 DEF new, total

\* What a funded token owes can be paid.
LEMMA FundedCovers ==
    ASSUME NEW data \in RewardData, NEW accounts, Behind(accounts, data),
           NEW holdings \in [Users -> Nat], NEW funds \in Nat,
           Funded(data, accounts, holdings, funds)
    PROVE  Total(Users, [user \in Users |-> Accrued(data, accounts[user], holdings[user])])
           <= funds
<1> DEFINE due    == [user \in Users |-> Accrued(data, accounts[user], holdings[user])]
           scaled == [user \in Users |-> due[user] * SCALAR_7]
           earned == EarnedBy(data, accounts, holdings)
<1>1. SCALAR_7 \in Nat /\ SCALAR_7 > 0
  BY ScalarAssumption
<1>2. \A user \in Users :
          /\ Accrued(data, accounts[user], holdings[user]) \in Nat
          /\ Accrued(data, accounts[user], holdings[user]) * SCALAR_7
             <= Earned(data, accounts[user], holdings[user])
  BY EarnedBounds DEF Behind
<1>3. due \in [Users -> Nat]
  BY <1>2
<1>4. \A user \in Users : scaled[user] <= earned[user]
  BY <1>2 DEF EarnedBy
<1>5. earned \in [Users -> Nat] /\ Total(Users, earned) \in Nat
  BY EarnedByType
<1>6. Total(Users, earned) + Unemitted(data) * SCALAR_7 <= funds * SCALAR_7
  BY DEF Funded
<1> HIDE DEF due, earned
<1>7. scaled \in [Users -> Nat]
  <2> SUFFICES ASSUME NEW user \in Users PROVE due[user] * SCALAR_7 \in Nat
    OBVIOUS
  <2>1. due[user] \in Nat
    BY <1>3
  <2> QED
    BY <2>1, <1>1, ProductType
<1>8. Total(Users, scaled) = Total(Users, due) * SCALAR_7
  BY <1>1, <1>3, UsersAssumption, TotalTimes
<1> HIDE DEF scaled
<1>9. Total(Users, scaled) <= Total(Users, earned)
  BY <1>4, <1>5, <1>7, UsersAssumption, TotalMonotone
<1>10. Unemitted(data) \in Int /\ Unemitted(data) * SCALAR_7 >= 0
  BY <1>1, UnemittedBounds, ProductType
<1>11. Total(Users, due) \in Nat
  BY <1>3, UsersAssumption, TotalType
<1>12. /\ Total(Users, due) * SCALAR_7 \in Int /\ funds * SCALAR_7 \in Int
       /\ Unemitted(data) * SCALAR_7 \in Int
  BY <1>1, <1>10, <1>11, ProductType
<1>13. Total(Users, due) * SCALAR_7 <= funds * SCALAR_7
  BY <1>5, <1>6, <1>8, <1>9, <1>10, <1>12
<1>14. Total(Users, due) <= funds
  BY <1>1, <1>11, <1>13, ProductCancel
<1> QED
  BY <1>14 DEF due

\* A settlement of one user keeps the token funded: it only rounds, and at the index the
\* shares no longer matter.
LEMMA FundedSettled ==
    ASSUME NEW data \in RewardData, NEW accounts, Behind(accounts, data),
           NEW holdings \in [Users -> Nat], NEW after \in [Users -> Nat],
           NEW funds \in Nat, Funded(data, accounts, holdings, funds),
           NEW user \in Users,
           \A other \in Users : other # user => after[other] = holdings[other],
           NEW settled,
           settled = [accounts EXCEPT ![user] =
                         [index   |-> data.index,
                          accrued |-> Accrued(data, accounts[user], holdings[user])]]
    PROVE  Behind(settled, data) /\ Funded(data, settled, after, funds)
<1> DEFINE accrued == Accrued(data, accounts[user], holdings[user])
           account == [index |-> data.index, accrued |-> accrued]
           old     == EarnedBy(data, accounts, holdings)
           new     == EarnedBy(data, settled, after)
<1>1. /\ accounts \in [Users -> UserRewards \cup {None}]
      /\ accounts[user] # None => accounts[user].index <= data.index
      /\ data.index \in Nat
  BY DEF Behind, RewardData
<1>2. accrued \in Nat /\ accrued * SCALAR_7 <= Earned(data, accounts[user], holdings[user])
  BY <1>1, EarnedBounds
<1> HIDE DEF accrued
<1>3. account \in UserRewards /\ account.index = data.index
  BY <1>1, <1>2 DEF UserRewards
<1>4. /\ settled \in [Users -> UserRewards \cup {None}]
      /\ settled[user] = account
      /\ \A other \in Users : other # user => settled[other] = accounts[other]
  BY <1>1, <1>3 DEF accrued
<1>5. Behind(settled, data)
  <2> HIDE DEF account
  <2> QED
    BY <1>1, <1>3, <1>4 DEF Behind
<1>6. Earned(data, account, after[user]) = accrued * SCALAR_7
  BY <1>2, EarnedAtIndex
<1> HIDE DEF account
<1>7. ASSUME NEW u \in Users PROVE new[u] <= old[u]
  <2>1. old[u] \in Nat
    BY EarnedByType
  <2>2. CASE u = user
    BY <1>2, <1>4, <1>6, <2>2 DEF EarnedBy
  <2>3. CASE u # user
    BY <1>4, <2>1, <2>3 DEF EarnedBy
  <2> QED
    BY <2>2, <2>3
<1>8. old \in [Users -> Nat] /\ new \in [Users -> Nat]
  BY <1>5, EarnedByType
<1>9. Total(Users, old) + Unemitted(data) * SCALAR_7 <= funds * SCALAR_7
  BY DEF Funded
<1> HIDE DEF old, new
<1>10. Total(Users, new) <= Total(Users, old)
  BY <1>7, <1>8, UsersAssumption, TotalMonotone
<1>11. Total(Users, new) \in Nat /\ Total(Users, old) \in Nat
  BY <1>8, UsersAssumption, TotalType
<1>12. Unemitted(data) * SCALAR_7 \in Int /\ funds * SCALAR_7 \in Int
  BY ScalarAssumption, UnemittedBounds, ProductType
<1>13. Total(Users, new) + Unemitted(data) * SCALAR_7 <= funds * SCALAR_7
  BY <1>9, <1>10, <1>11, <1>12
<1> QED
  BY <1>5, <1>13 DEF Funded, new

\* A claim keeps the token funded: it takes from the funds what it takes from the user.
LEMMA FundedPaid ==
    ASSUME NEW data \in RewardData, NEW accounts, Behind(accounts, data),
           NEW holdings \in [Users -> Nat],
           NEW funds \in Nat, Funded(data, accounts, holdings, funds),
           NEW user \in Users, NEW amount,
           amount = Accrued(data, accounts[user], holdings[user]), amount <= funds,
           NEW paid,
           paid = [accounts EXCEPT ![user] = [index |-> data.index, accrued |-> 0]]
    PROVE  Behind(paid, data) /\ Funded(data, paid, holdings, funds - amount)
<1> DEFINE account == [index |-> data.index, accrued |-> 0]
           old     == EarnedBy(data, accounts, holdings)
           new     == EarnedBy(data, paid, holdings)
           with    == [u \in Users |-> IF u = user THEN amount * SCALAR_7 ELSE new[u]]
<1>1. /\ accounts \in [Users -> UserRewards \cup {None}]
      /\ accounts[user] # None => accounts[user].index <= data.index
      /\ data.index \in Nat
      /\ SCALAR_7 \in Nat
  BY ScalarAssumption DEF Behind, RewardData
<1>2. amount \in Nat /\ amount * SCALAR_7 <= Earned(data, accounts[user], holdings[user])
  BY <1>1, EarnedBounds
<1>3. account \in UserRewards /\ account.index = data.index
  BY <1>1 DEF UserRewards
<1>4. Earned(data, account, holdings[user]) = 0 * SCALAR_7 /\ 0 * SCALAR_7 = 0
  BY <1>1, EarnedAtIndex
<1>5. /\ paid \in [Users -> UserRewards \cup {None}]
      /\ paid[user] = account
      /\ \A other \in Users : other # user => paid[other] = accounts[other]
  BY <1>1, <1>3
<1> HIDE DEF account
<1>6. Behind(paid, data)
  BY <1>1, <1>3, <1>5 DEF Behind
<1>7. old \in [Users -> Nat] /\ new \in [Users -> Nat]
  BY <1>6, EarnedByType
<1>8. /\ new[user] = 0
      /\ old[user] = Earned(data, accounts[user], holdings[user])
      /\ \A other \in Users : other # user => new[other] = old[other]
  BY <1>4, <1>5 DEF EarnedBy
<1>9. Total(Users, old) + Unemitted(data) * SCALAR_7 <= funds * SCALAR_7
  BY DEF Funded
<1> HIDE DEF old, new
<1>10. amount * SCALAR_7 \in Nat
  BY <1>1, <1>2, ProductType
<1>11. /\ with \in [Users -> Nat]
       /\ with[user] = new[user] + amount * SCALAR_7
       /\ \A other \in Users \ {user} : with[other] = new[other]
       /\ \A other \in Users : with[other] <= old[other]
  BY <1>2, <1>7, <1>8, <1>10
<1> HIDE DEF with
<1>12. Total(Users, with) = Total(Users, new) + amount * SCALAR_7
  <2> DEFINE k == amount * SCALAR_7
  <2> HIDE DEF k
  <2>1. k \in Nat /\ with[user] = new[user] + k
    BY <1>10, <1>11 DEF k
  <2>2. Total(Users, with) = Total(Users, new) + k
    BY <2>1, <1>7, <1>11, UsersAssumption, TotalAdded
  <2> QED
    BY <2>2 DEF k
<1>13. Total(Users, with) <= Total(Users, old)
  BY <1>7, <1>11, UsersAssumption, TotalMonotone
<1>14. /\ Total(Users, new) \in Nat /\ Total(Users, old) \in Nat
       /\ Total(Users, with) \in Nat
  BY <1>7, <1>11, UsersAssumption, TotalType
<1>15. /\ Unemitted(data) * SCALAR_7 \in Int /\ funds * SCALAR_7 \in Int
       /\ (funds - amount) * SCALAR_7 = funds * SCALAR_7 - amount * SCALAR_7
  BY <1>1, <1>2, UnemittedBounds, ProductType, Distributive
<1>16. Total(Users, new) + Unemitted(data) * SCALAR_7 <= (funds - amount) * SCALAR_7
  BY <1>9, <1>10, <1>12, <1>13, <1>14, <1>15
<1> QED
  BY <1>6, <1>16 DEF Funded, new

\* New rewards at the index of the token keep it funded, if the period promises no more
\* than the amount that comes in and what was still promised before.
LEMMA FundedExtended ==
    ASSUME NEW data \in RewardData, NEW new \in RewardData, new.index = data.index,
           NEW accounts, Behind(accounts, data),
           NEW holdings \in [Users -> Nat], NEW funds \in Nat, NEW amount \in Nat,
           Funded(data, accounts, holdings, funds),
           Unemitted(new) <= Unemitted(data) + amount
    PROVE  Behind(accounts, new) /\ Funded(new, accounts, holdings, funds + amount)
<1> DEFINE total == Total(Users, EarnedBy(data, accounts, holdings))
<1>1. SCALAR_7 \in Nat
  BY ScalarAssumption
<1>2. Behind(accounts, new)
  BY DEF Behind
<1>3. EarnedBy(new, accounts, holdings) = EarnedBy(data, accounts, holdings)
  BY DEF EarnedBy, Earned
<1>4. total \in Nat
  BY EarnedByType
<1>5. total + Unemitted(data) * SCALAR_7 <= funds * SCALAR_7
  BY DEF Funded
<1> HIDE DEF total
<1>6. Unemitted(data) \in Nat /\ Unemitted(new) \in Nat
  BY UnemittedBounds
<1>7. Unemitted(new) * SCALAR_7 <= (Unemitted(data) + amount) * SCALAR_7
  BY <1>1, <1>6, ProductMonotone
<1>8. /\ (Unemitted(data) + amount) * SCALAR_7
         = Unemitted(data) * SCALAR_7 + amount * SCALAR_7
      /\ (funds + amount) * SCALAR_7 = funds * SCALAR_7 + amount * SCALAR_7
  BY <1>1, <1>6, Distributive
<1>9. /\ Unemitted(data) * SCALAR_7 \in Int /\ Unemitted(new) * SCALAR_7 \in Int
      /\ amount * SCALAR_7 \in Int /\ funds * SCALAR_7 \in Int
  BY <1>1, <1>6, ProductType
<1>10. total + Unemitted(new) * SCALAR_7 <= (funds + amount) * SCALAR_7
  BY <1>4, <1>5, <1>7, <1>8, <1>9
<1> QED
  BY <1>2, <1>3, <1>10 DEF Funded, total

\* The first rewards of a token are funded, if the period promises no more than the
\* amount that comes in: nobody has an account of it.
LEMMA FundedStarted ==
    ASSUME NEW new \in RewardData, new.index = 0,
           NEW accounts, accounts = [user \in Users |-> None],
           NEW holdings \in [Users -> Nat], NEW funds \in Nat, NEW amount \in Nat,
           Unemitted(new) <= amount
    PROVE  Behind(accounts, new) /\ Funded(new, accounts, holdings, funds + amount)
<1>1. SCALAR_7 \in Nat
  BY ScalarAssumption
<1>2. Behind(accounts, new)
  BY DEF Behind
<1>3. \A user \in Users : EarnedBy(new, accounts, holdings)[user] = 0
  <2> SUFFICES ASSUME NEW user \in Users PROVE Earned(new, None, holdings[user]) = 0
    BY DEF EarnedBy
  <2>1. Earned(new, None, holdings[user]) = 0 * SCALAR_7 + holdings[user] * (0 - 0)
    BY DEF Earned
  <2>2. 0 * SCALAR_7 = 0 /\ holdings[user] * (0 - 0) = 0
    BY <1>1
  <2> QED
    BY <2>1, <2>2
<1>4. Total(Users, EarnedBy(new, accounts, holdings)) = 0
  BY <1>3, TotalZero
<1>5. Unemitted(new) * SCALAR_7 <= (funds + amount) * SCALAR_7
  <2>1. Unemitted(new) \in Nat /\ Unemitted(new) <= funds + amount
    BY UnemittedBounds
  <2> QED
    BY <2>1, <1>1, ProductMonotone
<1>6. Unemitted(new) * SCALAR_7 \in Int
  BY <1>1, UnemittedBounds, ProductType
<1> QED
  BY <1>2, <1>4, <1>5, <1>6 DEF Funded

\* What is owed of a funded token to users without shares is funded too.
LEMMA FundedAside ==
    ASSUME NEW data \in RewardData, NEW accounts, Behind(accounts, data),
           NEW holdings \in [Users -> Nat], NEW funds \in Nat,
           Funded(data, accounts, holdings, funds)
    PROVE  Funded(data, accounts, NoShares, funds)
<1> DEFINE aside  == EarnedBy(data, accounts, NoShares)
           earned == EarnedBy(data, accounts, holdings)
<1>1. NoShares \in [Users -> Nat]
  BY DEF NoShares
<1>2. /\ aside \in [Users -> Nat] /\ earned \in [Users -> Nat]
      /\ Total(Users, aside) \in Nat /\ Total(Users, earned) \in Nat
  BY <1>1, EarnedByType
<1>3. ASSUME NEW user \in Users PROVE aside[user] <= earned[user]
  <2> DEFINE past == IF accounts[user] = None THEN 0 ELSE accounts[user].accrued
             gap  == data.index - IF accounts[user] = None THEN 0 ELSE accounts[user].index
  <2>1. gap \in Nat /\ past \in Nat
    BY DEF Behind, UserRewards, RewardData
  <2>2. /\ aside[user] = past * SCALAR_7 + 0 * gap
        /\ earned[user] = past * SCALAR_7 + holdings[user] * gap
    BY DEF EarnedBy, Earned, NoShares
  <2> HIDE DEF gap, past
  <2>3. /\ past * SCALAR_7 \in Nat /\ holdings[user] * gap \in Nat /\ 0 * gap = 0
    BY <2>1, ScalarAssumption, ProductType
  <2> QED
    BY <2>2, <2>3
<1>4. Total(Users, earned) + Unemitted(data) * SCALAR_7 <= funds * SCALAR_7
  BY DEF Funded
<1>5. /\ Unemitted(data) * SCALAR_7 \in Int /\ funds * SCALAR_7 \in Int
  BY ScalarAssumption, UnemittedBounds, ProductType
<1> HIDE DEF aside, earned
<1>6. Total(Users, aside) <= Total(Users, earned)
  BY <1>2, <1>3, UsersAssumption, TotalMonotone
<1>7. Total(Users, aside) + Unemitted(data) * SCALAR_7 <= funds * SCALAR_7
  BY <1>2, <1>4, <1>5, <1>6
<1> QED
  BY <1>7 DEF Funded, aside

\* If every holder was settled at the index, what is owed does not depend on the shares.
LEMMA FundedAgain ==
    ASSUME NEW data \in RewardData, NEW accounts, Behind(accounts, data),
           NEW holdings \in [Users -> Nat], NEW funds \in Nat,
           \A user \in Users : holdings[user] # 0 => /\ accounts[user] # None
                                                    /\ accounts[user].index = data.index,
           Funded(data, accounts, NoShares, funds)
    PROVE  Funded(data, accounts, holdings, funds)
<1>1. ASSUME NEW user \in Users
      PROVE  Earned(data, accounts[user], holdings[user]) = Earned(data, accounts[user], 0)
  <2>1. data.index \in Nat /\ accounts[user] \in UserRewards \cup {None}
    BY DEF Behind, RewardData
  <2>2. CASE holdings[user] = 0
    BY <2>2
  <2>3. CASE holdings[user] # 0
    <3>1. accounts[user] # None /\ accounts[user].index = data.index
      BY <2>3
    <3>2. /\ holdings[user] * (data.index - data.index) = 0
          /\ 0 * (data.index - data.index) = 0
      BY <2>1
    <3> QED
      BY <3>1, <3>2 DEF Earned
  <2> QED
    BY <2>2, <2>3
<1>2. EarnedBy(data, accounts, holdings) = EarnedBy(data, accounts, NoShares)
  BY <1>1 DEF EarnedBy, NoShares
<1> QED
  BY <1>2 DEF Funded

-----------------------------------------------------------------------------
(***************************************************************************)
(* The tokens that the admin has left for another one.  Their reward data, *)
(* their accounts and what the vault holds of them stand still, and at the *)
(* index they were left at their users can be paid, whatever becomes of    *)
(* the shares.                                                             *)
(***************************************************************************)

AsideFunded ==
    \A token \in Tokens :
        token # reward_token /\ reward_data[token] # None
        => Funded(reward_data[token], Accounts(user_rewards, token), NoShares,
                  balance[token])

\* The inductive invariant: every token that has been used is funded.
AllFunded == RewardsFunded /\ AsideFunded

-----------------------------------------------------------------------------
(***************************************************************************)
(* The calls.                                                              *)
(***************************************************************************)

\* RewardsFunded in these words, in a state and after a step.
LEMMA FundedParts ==
    RewardsFunded
    <=> /\ total_shares = Total(Users, shares)
        /\ reward_token # None
           => Funded(reward_data[reward_token], Accounts(user_rewards, reward_token),
                     shares, balance[reward_token])
BY DEF RewardsFunded, Funded, EarnedBy, Accounts, Account

\* The same in the next state.
LEMMA FundedPartsNext ==
    RewardsFunded'
    <=> /\ total_shares' = Total(Users, shares')
        /\ reward_token' # None
           => Funded(reward_data'[reward_token'], Accounts(user_rewards', reward_token'),
                     shares', balance'[reward_token'])
BY DEF RewardsFunded, Funded, EarnedBy, Accounts, Account

\* The reward data and the accounts of the current token, at its last update.
LEMMA CurrentToken ==
    ASSUME Inv, reward_token # None
    PROVE  /\ reward_token \in Tokens
           /\ reward_data[reward_token] \in RewardData
           /\ reward_data[reward_token].last_time <= now
           /\ now \in Nat
           /\ shares \in [Users -> Nat]
           /\ balance[reward_token] \in Nat
           /\ user_rewards \in [UserRewardKeys -> UserRewards \cup {None}]
           /\ Behind(Accounts(user_rewards, reward_token), reward_data[reward_token])
<1>1. /\ reward_token \in Tokens /\ now \in Nat /\ shares \in [Users -> Nat]
      /\ reward_data[reward_token] # None /\ balance[reward_token] \in Nat
      /\ DataOK(reward_data, now) /\ AccountsOK(reward_data, user_rewards)
  BY InvParts
<1>2. /\ reward_data[reward_token] \in RewardData
      /\ reward_data[reward_token].last_time <= now
  BY <1>1 DEF DataOK
<1>3. user_rewards \in [UserRewardKeys -> UserRewards \cup {None}]
  BY <1>1 DEF AccountsOK
<1>4. ASSUME NEW user \in Users
      PROVE  /\ user_rewards[AccountKey(reward_token, user)] \in UserRewards \cup {None}
             /\ user_rewards[AccountKey(reward_token, user)] # None
                => user_rewards[AccountKey(reward_token, user)].index
                   <= reward_data[reward_token].index
  BY <1>1, <1>3, AccountKeys DEF AccountsOK
<1>5. Behind(Accounts(user_rewards, reward_token), reward_data[reward_token])
  BY <1>4 DEF Behind, Accounts
<1> QED
  BY <1>1, <1>2, <1>3, <1>5

\* The reward data and the accounts of a token used before.
LEMMA UsedToken ==
    ASSUME Inv, NEW token \in Tokens, reward_data[token] # None
    PROVE  /\ reward_data[token] \in RewardData
           /\ reward_data[token].last_time <= now
           /\ Behind(Accounts(user_rewards, token), reward_data[token])
<1>1. DataOK(reward_data, now) /\ AccountsOK(reward_data, user_rewards)
  BY InvParts
<1>2. reward_data[token] \in RewardData /\ reward_data[token].last_time <= now
  BY <1>1 DEF DataOK
<1>3. user_rewards \in [UserRewardKeys -> UserRewards \cup {None}]
  BY <1>1 DEF AccountsOK
<1>4. ASSUME NEW user \in Users
      PROVE  /\ user_rewards[AccountKey(token, user)] \in UserRewards \cup {None}
             /\ user_rewards[AccountKey(token, user)] # None
                => user_rewards[AccountKey(token, user)].index <= reward_data[token].index
  BY <1>1, <1>3, AccountKeys DEF AccountsOK
<1> QED
  BY <1>2, <1>4 DEF Behind, Accounts

\* The same brought to the present, as every call begins with it.
LEMMA CurrentTokenUpdated ==
    ASSUME Inv, RewardsFunded, reward_token # None
    PROVE  LET data     == UpdatedRewardData[reward_token]
               accounts == Accounts(user_rewards, reward_token)
           IN  /\ data \in RewardData
               /\ data = LoadUpdated(reward_data[reward_token], total_shares, now)
               /\ data.last_time <= now
               /\ Behind(accounts, data)
               /\ Funded(data, accounts, shares, balance[reward_token])
<1>1. /\ UpdatedRewardData[reward_token] \in RewardData
      /\ UpdatedRewardData[reward_token]
         = LoadUpdated(reward_data[reward_token], total_shares, now)
  BY UpdatedRewardDataOK
<1>2. /\ total_shares = Total(Users, shares)
      /\ Funded(reward_data[reward_token], Accounts(user_rewards, reward_token), shares,
                balance[reward_token])
  BY FundedParts
<1>3. LET new == LoadUpdated(reward_data[reward_token], Total(Users, shares), now)
      IN  /\ Behind(Accounts(user_rewards, reward_token), new)
          /\ Funded(new, Accounts(user_rewards, reward_token), shares,
                    balance[reward_token])
  BY <1>2, CurrentToken, FundedUpdated
<1>4. LoadUpdated(reward_data[reward_token], total_shares, now).last_time <= now
  <2>1. total_shares \in Nat
    BY InvParts
  <2> QED
    BY <2>1, CurrentToken, LoadUpdatedType
<1> QED
  BY <1>1, <1>2, <1>3, <1>4

\* What one user has more, or less, all users together have.
LEMMA SharesChanged ==
    ASSUME NEW holdings \in [Users -> Nat], NEW user \in Users, NEW k \in Int,
           holdings[user] + k >= 0
    PROVE  Total(Users, [holdings EXCEPT ![user] = holdings[user] + k])
           = Total(Users, holdings) + k
<1> DEFINE after == [holdings EXCEPT ![user] = holdings[user] + k]
<1>1. /\ after \in [Users -> Nat] /\ after[user] = holdings[user] + k
      /\ \A other \in Users \ {user} : after[other] = holdings[other]
  OBVIOUS
<1> HIDE DEF after
<1>2. Total(Users, after) = Total(Users, holdings) + k
  BY <1>1, UsersAssumption, TotalChanged
<1> QED
  BY <1>2 DEF after

\* A deposit or a withdrawal settles the user and then moves k shares: the rewards stay
\* funded.
LEMMA SharesMovedFunded ==
    ASSUME Inv, RewardsFunded, NEW user \in Users, NEW k \in Int, shares[user] + k >= 0,
           UpdateRewards(user), NEW after, shares' = after,
           after = [shares EXCEPT ![user] = shares[user] + k],
           total_shares' = total_shares + k, UNCHANGED <<reward_token, balance>>
    PROVE  RewardsFunded'
<1> DEFINE t        == reward_token
           data     == UpdatedRewardData[t]
           accounts == Accounts(user_rewards, t)
<1>1. shares \in [Users -> Nat] /\ total_shares = Total(Users, shares)
  BY InvParts, FundedParts
<1>2. after \in [Users -> Nat] /\ \A other \in Users : other # user => after[other] = shares[other]
  BY <1>1
<1>3. total_shares' = Total(Users, shares')
  BY <1>1, SharesChanged
<1>4. ASSUME t # None
      PROVE  Funded(reward_data'[t], Accounts(user_rewards', t), shares', balance'[t])
  <2>1. /\ data \in RewardData /\ Behind(accounts, data)
        /\ Funded(data, accounts, shares, balance[t])
    BY <1>4, CurrentTokenUpdated
  <2>2. /\ t \in Tokens /\ balance[t] \in Nat
        /\ user_rewards \in [UserRewardKeys -> UserRewards \cup {None}]
    BY <1>4, CurrentToken
  <2> DEFINE account == [index   |-> data.index,
                         accrued |-> Accrued(data, accounts[user], shares[user])]
             settled == [accounts EXCEPT ![user] = account]
  <2>3. accounts[user] = user_rewards[AccountKey(t, user)]
    BY DEF Accounts
  <2>4. data # None
    BY <2>1, NoneAssumption
  <2>5. /\ reward_data' = UpdatedRewardData
        /\ user_rewards' = [user_rewards EXCEPT ![AccountKey(t, user)] = account]
    BY <1>4, <2>3, <2>4 DEF UpdateRewards
  <2>6. Accounts(user_rewards', t) = settled
    <3> HIDE DEF account
    <3>1. \A u \in Users : user_rewards'[AccountKey(t, u)]
                           = IF u = user THEN account ELSE user_rewards[AccountKey(t, u)]
      BY <2>2, <2>5, AccountKeys
    <3> QED
      BY <3>1 DEF Accounts
  <2>7. Funded(data, settled, after, balance[t])
    <3> HIDE DEF data, accounts
    <3> QED
      BY <1>1, <1>2, <2>1, <2>2, FundedSettled
  <2> QED
    BY <2>5, <2>6, <2>7
<1> QED
  BY <1>3, <1>4, FundedPartsNext

\* A deposit keeps the rewards funded.
LEMMA DepositFunded ==
    ASSUME Inv, RewardsFunded, NEW user \in Users, NEW share_amount \in ShareAmounts,
           Deposit(user, share_amount)
    PROVE  RewardsFunded'
<1>1. share_amount \in Int /\ shares[user] + share_amount >= 0
  BY AmountAssumption, InvParts
<1> QED
  BY <1>1, SharesMovedFunded DEF Deposit

\* A withdrawal keeps the rewards funded.
LEMMA WithdrawFunded ==
    ASSUME Inv, RewardsFunded, NEW user \in Users, NEW share_amount \in ShareAmounts,
           Withdraw(user, share_amount)
    PROVE  RewardsFunded'
<1> DEFINE k == -share_amount
<1>1. /\ k \in Int /\ shares[user] + k >= 0
      /\ shares[user] - share_amount = shares[user] + k
      /\ total_shares - share_amount = total_shares + k
  BY AmountAssumption, InvParts DEF Withdraw
<1>2. /\ shares' = [shares EXCEPT ![user] = shares[user] + k]
      /\ total_shares' = total_shares + k
  BY <1>1 DEF Withdraw
<1> HIDE DEF k
<1> QED
  BY <1>1, <1>2, SharesMovedFunded DEF Withdraw

\* A claim keeps the rewards funded.
LEMMA ClaimRewardsFunded ==
    ASSUME Inv, RewardsFunded, NEW user \in Users, NEW requested \in Tokens,
           ClaimRewards(user, requested)
    PROVE  RewardsFunded'
<1> DEFINE t        == reward_token
           data     == UpdatedRewardData[t]
           accounts == Accounts(user_rewards, t)
           amount   == Accrued(data, accounts[user], shares[user])
           account  == [index |-> data.index, accrued |-> 0]
           paid     == [accounts EXCEPT ![user] = account]
<1>1. t # None
  BY DEF ClaimRewards
<1>2. /\ t \in Tokens /\ balance[t] \in Nat /\ shares \in [Users -> Nat]
      /\ user_rewards \in [UserRewardKeys -> UserRewards \cup {None}]
      /\ balance \in [Tokens -> Nat]
  BY <1>1, CurrentToken, InvParts
<1>3. /\ data \in RewardData /\ Behind(accounts, data)
      /\ Funded(data, accounts, shares, balance[t])
  BY <1>1, CurrentTokenUpdated
<1>4. accounts[user] = Account(t, user)
  BY DEF Accounts, Account
<1>5. /\ amount <= balance[t]
      /\ reward_data' = UpdatedRewardData
      /\ user_rewards' = [user_rewards EXCEPT ![AccountKey(t, user)] = account]
      /\ balance' = [balance EXCEPT ![t] = balance[t] - amount]
      /\ UNCHANGED <<reward_token, shares, total_shares>>
  BY <1>4 DEF ClaimRewards
<1>6. balance'[t] = balance[t] - amount
  <2> HIDE DEF amount
  <2> QED
    BY <1>2, <1>5
<1>7. Accounts(user_rewards', t) = paid
  <2> HIDE DEF account
  <2>1. \A u \in Users : user_rewards'[AccountKey(t, u)]
                         = IF u = user THEN account ELSE user_rewards[AccountKey(t, u)]
    BY <1>2, <1>5, AccountKeys
  <2> QED
    BY <2>1 DEF Accounts
<1>8. Funded(data, paid, shares, balance[t] - amount)
  <2> HIDE DEF data, accounts
  <2> QED
    BY <1>2, <1>3, <1>5, FundedPaid
<1>9. total_shares = Total(Users, shares)
  BY FundedParts
<1> HIDE DEF paid, amount
<1> QED
  BY <1>5, <1>6, <1>7, <1>8, <1>9, FundedPartsNext

\* A period promises no more than the amount its emissions are computed from.
LEMMA EmittedAtMost ==
    ASSUME NEW amount \in Int, NEW t \in Nat, NEW expiration \in Nat, expiration > t,
           NEW new \in RewardData, new.eps = CalculateEps(amount, expiration - t),
           new.expiration = expiration, new.last_time = t
    PROVE  Unemitted(new) <= amount
<1> DEFINE period == expiration - t
<1>1. period \in Int /\ period > 0
  OBVIOUS
<1>2. Unemitted(new) = period * new.eps
  BY DEF Unemitted
<1> HIDE DEF period
<1>3. new.eps \in Int /\ new.eps * period <= amount
  BY <1>1, DivBounds DEF CalculateEps, period
<1> QED
  BY <1>1, <1>2, <1>3, ProductType

\* Extending active rewards keeps the token funded: what is left is at most what was
\* still promised.
LEMMA ExtendRewardsFunded ==
    ASSUME Inv, RewardsFunded, NEW token \in Tokens, NEW amount \in Nat,
           NEW expiration \in Nat, expiration > now, RewardsActive,
           ExtendRewards(token, amount, expiration)
    PROVE  /\ token = reward_token
           /\ reward_token' = token
           /\ Funded(reward_data'[token], Accounts(user_rewards, token), shares,
                     balance[token] + amount)
<1> DEFINE data == UpdatedRewardData[reward_token]
           left == (data.expiration - now) * data.eps
           eps  == CalculateEps(amount + left, expiration - now)
           new  == [eps |-> eps, expiration |-> expiration,
                    index |-> data.index, last_time |-> now]
<1>1. /\ token = reward_token /\ reward_token' = token
      /\ ValidEps(eps)
      /\ reward_data' = [reward_data EXCEPT ![token] = new]
  BY DEF ExtendRewards
<1>2. reward_token # None /\ reward_data[reward_token].expiration > now
  BY DEF RewardsActive
<1>3. /\ data \in RewardData /\ data.last_time <= now
      /\ Behind(Accounts(user_rewards, token), data)
      /\ Funded(data, Accounts(user_rewards, token), shares, balance[token])
  BY <1>1, <1>2, CurrentTokenUpdated
<1>4. /\ reward_data \in [Tokens -> RewardData \cup {None}]
      /\ shares \in [Users -> Nat] /\ balance[token] \in Nat /\ now \in Nat
  BY InvParts DEF DataOK
<1>5. data.expiration \in Nat /\ data.eps \in Nat /\ data.index \in Nat
  BY <1>3 DEF RewardData
<1>6. now < data.expiration
  BY <1>2, UpdatedRewardDataOK
<1>7. left \in Int /\ left <= Unemitted(data)
  BY <1>3, <1>4, <1>5, <1>6, UnemittedBounds, ProductType
<1> HIDE DEF data, left
<1>8. eps \in Nat
  <2>1. amount + left \in Int /\ expiration - now \in Int /\ expiration - now > 0
    BY <1>4, <1>7
  <2>2. eps \in Int
    BY <2>1, DivBounds DEF CalculateEps
  <2> QED
    BY <2>2, <1>1 DEF ValidEps
<1> HIDE DEF eps
<1>9. /\ new \in RewardData /\ new.eps = eps /\ new.expiration = expiration
      /\ new.index = data.index /\ new.last_time = now
  BY <1>4, <1>5, <1>8 DEF RewardData
<1> HIDE DEF new
<1>10. Unemitted(new) <= Unemitted(data) + amount
  <2>1. amount + left \in Int
    BY <1>7
  <2>2. Unemitted(new) <= amount + left
    BY <2>1, <1>4, <1>9, EmittedAtMost DEF eps
  <2>3. Unemitted(new) \in Nat /\ Unemitted(data) \in Nat
    BY <1>3, <1>9, UnemittedBounds
  <2> QED
    BY <2>2, <2>3, <1>7
<1>11. Funded(new, Accounts(user_rewards, token), shares, balance[token] + amount)
  BY <1>3, <1>4, <1>9, <1>10, FundedExtended
<1> QED
  BY <1>1, <1>4, <1>11

\* Starting new rewards keeps the token funded: of the same token they go on at its
\* index, of a new one nobody has an account, and of one that returns every holder has an
\* account at its index.
LEMMA StartRewardsFunded ==
    ASSUME Inv, RewardsFunded, AsideFunded, NEW token \in Tokens, NEW amount \in Nat,
           NEW expiration \in Nat, expiration > now,
           StartRewards(token, amount, expiration),
           reward_token' # reward_token => SettledAtIndex(reward_token')
    PROVE  /\ reward_token' = token
           /\ Funded(reward_data'[token], Accounts(user_rewards, token), shares,
                     balance[token] + amount)
<1> DEFINE rd    == UpdatedRewardData
           old   == LoadUpdated(rd[token], total_shares, now)
           eps   == CalculateEps(amount, expiration - now)
           index == IF old = None THEN 0 ELSE old.index
           new   == [eps |-> eps, expiration |-> expiration,
                     index |-> index, last_time |-> now]
<1>1. ValidEps(eps) /\ reward_token' = token /\ reward_data' = [rd EXCEPT ![token] = new]
  BY DEF StartRewards
<1>2. /\ rd \in [Tokens -> RewardData \cup {None}]
      /\ shares \in [Users -> Nat] /\ balance[token] \in Nat /\ now \in Nat
      /\ total_shares \in Nat
  BY InvParts, UpdatedRewardDataOK DEF DataOK
<1>3. eps \in Nat
  <2>1. expiration - now \in Int /\ expiration - now > 0
    BY <1>2
  <2>2. eps \in Int
    BY <2>1, DivBounds DEF CalculateEps
  <2> QED
    BY <2>2, <1>1 DEF ValidEps
<1>4. reward_data'[token] = new
  <2> HIDE DEF new, rd
  <2> QED
    BY <1>1, <1>2
<1> HIDE DEF eps
<1>5. ASSUME index \in Nat
      PROVE  /\ new \in RewardData /\ new.index = index
             /\ Unemitted(new) <= amount /\ Unemitted(new) \in Nat
  <2> HIDE DEF index
  <2>1. /\ new \in RewardData /\ new.eps = eps /\ new.expiration = expiration
        /\ new.index = index /\ new.last_time = now
    BY <1>2, <1>3, <1>5 DEF RewardData
  <2> HIDE DEF new
  <2>2. Unemitted(new) <= amount
    BY <2>1, <1>2, EmittedAtMost DEF eps
  <2> QED
    BY <2>1, <2>2, UnemittedBounds
\* The rewards go on at the index of data that is funded.
<1>6. ASSUME NEW data \in RewardData, old = data,
             Behind(Accounts(user_rewards, token), data),
             Funded(data, Accounts(user_rewards, token), shares, balance[token])
      PROVE  Funded(new, Accounts(user_rewards, token), shares, balance[token] + amount)
  <2>1. data # None /\ data.index \in Nat
    BY NoneAssumption DEF RewardData
  <2>2. index = data.index
    BY <1>6, <2>1
  <2> HIDE DEF index
  <2>3. /\ new \in RewardData /\ new.index = data.index
        /\ Unemitted(new) <= amount /\ Unemitted(new) \in Nat
    BY <1>5, <2>1, <2>2
  <2> HIDE DEF new
  <2>4. Unemitted(new) <= Unemitted(data) + amount
    <3>1. Unemitted(data) \in Nat
      BY UnemittedBounds
    <3> QED
      BY <3>1, <2>3
  <2> QED
    BY <1>2, <1>6, <2>3, <2>4, FundedExtended
<1>7. CASE token = reward_token
  <2> DEFINE data == rd[token]
  <2>1. reward_token # None
    BY <1>7, NoneAssumption
  <2>2. /\ data \in RewardData
        /\ data = LoadUpdated(reward_data[token], total_shares, now)
        /\ Behind(Accounts(user_rewards, token), data)
        /\ Funded(data, Accounts(user_rewards, token), shares, balance[token])
    BY <1>7, <2>1, CurrentTokenUpdated
  <2>3. reward_data[token] \in RewardData
    BY <1>7, <2>1, CurrentToken
  <2>4. old = data
    BY <2>2, <2>3, <1>2, LoadUpdatedOnce
  <2> HIDE DEF new, data, old
  <2> QED
    BY <1>1, <1>4, <1>6, <2>2, <2>4
<1>8. CASE token # reward_token /\ reward_data[token] = None
  <2>1. rd[token] = None
    BY <1>8, UpdatedRewardDataOK
  <2>2. index = 0
    BY <2>1 DEF LoadUpdated
  <2>3. Accounts(user_rewards, token) = [user \in Users |-> None]
    BY <1>8, InvParts DEF AccountsOK, Accounts
  <2> HIDE DEF index
  <2>4. new \in RewardData /\ new.index = 0 /\ Unemitted(new) <= amount
    BY <1>5, <2>2
  <2> HIDE DEF new
  <2>5. Funded(new, Accounts(user_rewards, token), shares, balance[token] + amount)
    BY <2>3, <2>4, <1>2, FundedStarted
  <2> QED
    BY <2>5, <1>1, <1>4
<1>9. CASE token # reward_token /\ reward_data[token] # None
  <2> DEFINE data     == reward_data[token]
             accounts == Accounts(user_rewards, token)
  <2>1. data \in RewardData /\ data.last_time <= now /\ Behind(accounts, data)
    BY <1>9, UsedToken
  <2>2. rd[token] = data
    BY <1>9, UpdatedRewardDataOK
  <2>3. total_shares = Total(Users, shares)
    BY FundedParts
  <2>4. \A user \in Users : shares[user] # 0 => /\ accounts[user] # None
                                               /\ accounts[user].index = data.index
    BY <1>1, <1>9 DEF SettledAtIndex, Accounts, Account
  <2>5. Funded(data, accounts, NoShares, balance[token])
    BY <1>9 DEF AsideFunded
  <2> HIDE DEF data, accounts
  <2>6. Funded(data, accounts, shares, balance[token])
    BY <1>2, <2>1, <2>4, <2>5, FundedAgain
  <2>7. old = LoadUpdated(data, Total(Users, shares), now)
    BY <2>2, <2>3
  <2>8. Behind(accounts, old) /\ Funded(old, accounts, shares, balance[token])
    BY <1>2, <2>1, <2>6, <2>7, FundedUpdated
  <2>9. old \in RewardData
    BY <1>2, <2>1, <2>3, <2>7, LoadUpdatedType
  <2> HIDE DEF new, old
  <2> QED
    BY <1>1, <1>4, <1>6, <2>8, <2>9 DEF accounts
<1> QED
  BY <1>7, <1>8, <1>9

\* Setting rewards keeps them funded, if a token only returns when all are settled.
LEMMA SetRewardsFunded ==
    ASSUME Inv, RewardsFunded, AsideFunded, NEW token \in Tokens, NEW amount \in RewardAmounts,
           NEW expiration \in 0..MaxExpiration, SetRewards(token, amount, expiration),
           reward_token' # reward_token => SettledAtIndex(reward_token')
    PROVE  RewardsFunded'
<1>1. amount \in Nat /\ expiration \in Nat /\ expiration > now
  BY AmountAssumption, BoundAssumption DEF SetRewards
<1>2. /\ reward_token' = token
      /\ Funded(reward_data'[token], Accounts(user_rewards, token), shares,
                balance[token] + amount)
  <2>1. CASE RewardsActive
    BY <2>1, <1>1, ExtendRewardsFunded DEF SetRewards
  <2>2. CASE ~RewardsActive
    BY <2>2, <1>1, StartRewardsFunded DEF SetRewards
  <2> QED
    BY <2>1, <2>2
<1>3. balance'[token] = balance[token] + amount
  BY InvParts DEF SetRewards
<1>4. UNCHANGED <<user_rewards, shares, total_shares>>
  BY DEF SetRewards
<1>5. total_shares = Total(Users, shares)
  BY FundedParts
<1> QED
  BY <1>2, <1>3, <1>4, <1>5, FundedPartsNext

-----------------------------------------------------------------------------
(***************************************************************************)
(* The tokens set aside.                                                   *)
(***************************************************************************)

\* A settlement of the current token touches no other one.
LEMMA SettlementAside ==
    ASSUME Inv, AsideFunded, NEW user \in Users, UpdateRewards(user),
           UNCHANGED <<reward_token, balance>>
    PROVE  AsideFunded'
<1> SUFFICES ASSUME NEW token \in Tokens, token # reward_token, reward_data'[token] # None
             PROVE  /\ reward_data'[token] = reward_data[token]
                    /\ Accounts(user_rewards', token) = Accounts(user_rewards, token)
  BY DEF AsideFunded
<1>1. UpdatedRewardData[token] = reward_data[token]
  BY UpdatedRewardDataOK
<1>2. user_rewards \in [UserRewardKeys -> UserRewards \cup {None}]
  BY InvParts DEF AccountsOK
<1>3. reward_data'[token] = reward_data[token]
  BY <1>1 DEF UpdateRewards
<1>4. ASSUME NEW u \in Users
      PROVE  user_rewards'[AccountKey(token, u)] = user_rewards[AccountKey(token, u)]
  <2>1. reward_token # None => reward_token \in Tokens
    BY InvParts
  <2> QED
    BY <1>2, <2>1, AccountKeys DEF UpdateRewards
<1> QED
  BY <1>3, <1>4 DEF Accounts

\* A claim pays and settles the current token only.
LEMMA ClaimAside ==
    ASSUME Inv, AsideFunded, NEW user \in Users, NEW requested \in Tokens,
           ClaimRewards(user, requested)
    PROVE  AsideFunded'
<1> SUFFICES ASSUME NEW token \in Tokens, token # reward_token, reward_data'[token] # None
             PROVE  /\ reward_data'[token] = reward_data[token]
                    /\ Accounts(user_rewards', token) = Accounts(user_rewards, token)
                    /\ balance'[token] = balance[token]
  BY DEF AsideFunded, ClaimRewards
<1>1. /\ UpdatedRewardData[token] = reward_data[token]
      /\ reward_token \in Tokens /\ balance \in [Tokens -> Nat]
  BY UpdatedRewardDataOK, InvParts DEF ClaimRewards
<1>2. user_rewards \in [UserRewardKeys -> UserRewards \cup {None}]
  BY InvParts DEF AccountsOK
<1>3. ASSUME NEW u \in Users
      PROVE  user_rewards'[AccountKey(token, u)] = user_rewards[AccountKey(token, u)]
  BY <1>1, <1>2, AccountKeys DEF ClaimRewards
<1>4. reward_data'[token] = reward_data[token] /\ balance'[token] = balance[token]
  BY <1>1 DEF ClaimRewards
<1> QED
  BY <1>3, <1>4 DEF Accounts

\* The admin leaves a token at the index that every user can be paid at.
LEMMA SetRewardsAside ==
    ASSUME Inv, RewardsFunded, AsideFunded, NEW token \in Tokens,
           NEW amount \in RewardAmounts, NEW expiration \in 0..MaxExpiration,
           SetRewards(token, amount, expiration)
    PROVE  AsideFunded'
<1>1. reward_token' = token /\ UNCHANGED user_rewards
  BY DEF SetRewards, ExtendRewards, StartRewards
<1> SUFFICES ASSUME NEW other \in Tokens, other # token, reward_data'[other] # None
             PROVE  Funded(reward_data'[other], Accounts(user_rewards, other), NoShares,
                           balance'[other])
  BY <1>1 DEF AsideFunded
<1>2. balance \in [Tokens -> Nat] /\ shares \in [Users -> Nat]
  BY InvParts
<1>3. balance'[other] = balance[other] /\ balance[other] \in Nat
  BY <1>2 DEF SetRewards
<1>4. reward_data'[other] = UpdatedRewardData[other]
  <2>1. CASE RewardsActive
    <3>1. other # reward_token /\ reward_data'[other] = reward_data[other]
      BY <2>1, InvParts DEF SetRewards, ExtendRewards, DataOK
    <3> QED
      BY <3>1, UpdatedRewardDataOK
  <2>2. CASE ~RewardsActive
    BY <2>2, UpdatedRewardDataOK DEF SetRewards, StartRewards, DataOK
  <2> QED
    BY <2>1, <2>2
<1>5. CASE other = reward_token
  <2>1. reward_token # None
    BY <1>5, NoneAssumption
  <2> QED
    BY <1>2, <1>3, <1>4, <1>5, <2>1, CurrentTokenUpdated, FundedAside
<1>6. CASE other # reward_token
  BY <1>3, <1>4, <1>6, UpdatedRewardDataOK DEF AsideFunded
<1> QED
  BY <1>5, <1>6

-----------------------------------------------------------------------------
(***************************************************************************)
(* The theorem.                                                            *)
(***************************************************************************)

\* Nothing is promised before the first rewards.
LEMMA InitFunded == Init => AllFunded
<1> SUFFICES ASSUME Init PROVE AllFunded
  OBVIOUS
<1>1. Total(Users, shares) = 0
  <2>1. \A user \in Users : shares[user] = 0
    BY DEF Init
  <2> QED
    BY <2>1, TotalZero, Zenon
<1>2. RewardsFunded
  BY <1>1, FundedParts DEF Init
<1>3. AsideFunded
  BY DEF AsideFunded, Init
<1> QED
  BY <1>2, <1>3 DEF AllFunded

\* Every step keeps every token funded, if a token only returns when all are settled.
LEMMA StepFunded ==
    ASSUME Inv, AllFunded, [Next]_vars,
           [reward_token' # reward_token => SettledAtIndex(reward_token')]_vars
    PROVE  AllFunded'
<1> USE DEF AllFunded
<1>1. ASSUME NEW user \in Users, NEW share_amount \in ShareAmounts,
             Deposit(user, share_amount)
      PROVE  AllFunded'
  <2>1. AsideFunded'
    BY <1>1, SettlementAside DEF Deposit
  <2> QED
    BY <1>1, <2>1, DepositFunded
<1>2. ASSUME NEW user \in Users, NEW share_amount \in ShareAmounts,
             Withdraw(user, share_amount)
      PROVE  AllFunded'
  <2>1. AsideFunded'
    BY <1>2, SettlementAside DEF Withdraw
  <2> QED
    BY <1>2, <2>1, WithdrawFunded
<1>3. ASSUME NEW token \in Tokens, NEW amount \in RewardAmounts,
             NEW expiration \in 0..MaxExpiration, SetRewards(token, amount, expiration)
      PROVE  AllFunded'
  <2>1. reward_token' # reward_token => SettledAtIndex(reward_token')
    BY DEF vars
  <2> QED
    BY <1>3, <2>1, SetRewardsFunded, SetRewardsAside
<1>4. ASSUME NEW user \in Users, NEW requested \in Tokens, ClaimRewards(user, requested)
      PROVE  AllFunded'
  BY <1>4, ClaimRewardsFunded, ClaimAside
<1>5. CASE Tick
  BY <1>5, FundedParts, FundedPartsNext DEF Tick, AsideFunded
<1>6. CASE UNCHANGED vars
  BY <1>6, FundedParts, FundedPartsNext DEF vars, AsideFunded
<1> QED
  BY <1>1, <1>2, <1>3, <1>4, <1>5, <1>6 DEF Next

\* As long as the admin returns to a reward token only when every holder of shares was
\* settled at its index, no reward token is promised twice.
THEOREM FundedTheorem == Spec /\ ReturnsSettled => []RewardsFunded
<1>1. AllFunded /\ Inv /\ [Next]_vars
      /\ [reward_token' # reward_token => SettledAtIndex(reward_token')]_vars
      => AllFunded'
  BY StepFunded
<1>2. AllFunded => RewardsFunded
  BY DEF AllFunded
<1> QED
  BY <1>1, <1>2, InitFunded, Invariance, PTL DEF Spec, ReturnsSettled

\* Then the vault can always pay what all users together can claim.
THEOREM CoveredTheorem == Spec /\ ReturnsSettled => []RewardsCovered
<1>1. Inv /\ RewardsFunded => RewardsCovered
  <2> SUFFICES ASSUME Inv, RewardsFunded, reward_token # None
               PROVE  DueTogether(reward_token) <= balance[reward_token]
    BY DEF RewardsCovered
  <2> DEFINE t        == reward_token
             data     == UpdatedRewardData[t]
             accounts == Accounts(user_rewards, t)
  <2>1. /\ data \in RewardData /\ Behind(accounts, data)
        /\ Funded(data, accounts, shares, balance[t])
        /\ shares \in [Users -> Nat] /\ balance[t] \in Nat
    BY CurrentToken, CurrentTokenUpdated
  <2>2. \A user \in Users : Due(user, t) = Accrued(data, accounts[user], shares[user])
    BY DueNow DEF Accounts, Account
  <2> HIDE DEF data, accounts
  <2>3. Total(Users, [user \in Users |-> Accrued(data, accounts[user], shares[user])])
        <= balance[t]
    BY <2>1, FundedCovers
  <2>4. [user \in Users |-> Due(user, t)]
        = [user \in Users |-> Accrued(data, accounts[user], shares[user])]
    BY <2>2
  <2> QED
    BY <2>3, <2>4 DEF DueTogether
<1> QED
  BY <1>1, FundedTheorem, Invariance, PTL

\* With a single reward token the admin cannot return to one, and what RewardsCovered
\* promises holds without any assumption.
THEOREM OneTokenCovered ==
    ASSUME \A s, t \in Tokens : s = t
    PROVE  Spec => []RewardsCovered /\ []RewardsFunded
<1> DEFINE Unused == reward_token = None => \A token \in Tokens : reward_data[token] = None
<1>1. Init => Unused
  BY DEF Init
<1>2. Inv /\ Unused /\ [Next]_vars => Unused'
  <2> SUFFICES ASSUME Inv, Unused, [Next]_vars, reward_token' = None
               PROVE  \A token \in Tokens : reward_data'[token] = None
    OBVIOUS
  <2>1. reward_token = None /\ reward_data' = reward_data
    <3>1. ASSUME NEW token \in Tokens, NEW amount \in RewardAmounts,
                 NEW expiration \in 0..MaxExpiration, SetRewards(token, amount, expiration)
          PROVE  reward_token' \in Tokens
      BY <3>1 DEF SetRewards, ExtendRewards, StartRewards
    <3> QED
      BY <3>1, NoneAssumption
      DEF Next, Deposit, Withdraw, UpdateRewards, ClaimRewards, Tick, vars
  <2> QED
    BY <2>1
<1>3. /\ Inv /\ Inv' /\ Unused /\ [Next]_vars
      => [reward_token' # reward_token => SettledAtIndex(reward_token')]_vars
  <2> SUFFICES ASSUME Inv, Inv', Unused, [Next]_vars, reward_token' # reward_token
               PROVE  reward_data[reward_token'] = None
    BY DEF vars, SettledAtIndex
  <2>1. reward_token \in Tokens \cup {None} /\ reward_token' \in Tokens \cup {None}
    BY InvParts, InvPartsNext
  <2>2. CASE reward_token = None
    BY <2>1, <2>2
  <2>3. CASE reward_token # None
    <3>1. reward_token' # None
      <4>1. \/ reward_token' = reward_token
            \/ reward_token' \in Tokens
        BY DEF Next, Deposit, Withdraw, SetRewards, ExtendRewards, StartRewards,
               ClaimRewards, Tick, vars
      <4> QED
        BY <4>1, NoneAssumption
    <3> QED
      BY <2>1, <2>3, <3>1
  <2> QED
    BY <2>2, <2>3
<1> HIDE DEF Unused
<1>4. Spec => ReturnsSettled
  BY <1>1, <1>2, <1>3, Invariance, PTL DEF Spec, ReturnsSettled
<1> QED
  BY <1>4, FundedTheorem, CoveredTheorem, PTL

=============================================================================
