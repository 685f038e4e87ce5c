--------------------------- MODULE RewardsProofs ----------------------------
(***************************************************************************)
(* Theorems about Rewards, for every set of users and tokens, any amounts  *)
(* and every value of the scalar.                                          *)
(*                                                                         *)
(* The first part is about bringing reward data to the present; the second *)
(* is the invariant; the third shows that only time earns rewards.         *)
(***************************************************************************)
EXTENDS Rewards, ArithmeticProofs

-----------------------------------------------------------------------------
(***************************************************************************)
(* Accrual.                                                                *)
(***************************************************************************)

\* Reward data brought to time t keeps its rate and period; its index and the time of
\* its last update never go back.
LEMMA LoadUpdatedType ==
    ASSUME NEW data \in RewardData, NEW total \in Nat, NEW t \in Nat,
           data.last_time <= t
    PROVE  LET new == LoadUpdated(data, total, t)
           IN  /\ new \in RewardData
               /\ new.eps = data.eps
               /\ new.expiration = data.expiration
               /\ new.index >= data.index
               /\ new.last_time <= t
<1> DEFINE until == IF t > data.expiration THEN data.expiration ELSE t
           gain  == FixedDivFloor((until - data.last_time) * data.eps, total, SCALAR_7)
           new   == [data EXCEPT !.index = @ + gain, !.last_time = t]
<1>1. /\ data.eps \in Nat /\ data.expiration \in Nat
      /\ data.index \in Nat /\ data.last_time \in Nat
  BY DEF RewardData
<1>2. data # None
  BY NoneAssumption
<1>3. CASE \/ data.last_time >= data.expiration
           \/ t = data.last_time
           \/ data.eps = 0
           \/ total = 0
  <2>1. LoadUpdated(data, total, t) = data
    BY <1>3 DEF LoadUpdated
  <2> QED
    BY <2>1, <1>1
<1>4. CASE ~(\/ data.last_time >= data.expiration
             \/ t = data.last_time
             \/ data.eps = 0
             \/ total = 0)
  <2>1. LoadUpdated(data, total, t) = new
    BY <1>4, <1>2 DEF LoadUpdated
  <2>2. until \in Nat /\ until - data.last_time \in Nat
    BY <1>1, <1>4
  <2>3. gain \in Nat
    <3> DEFINE emitted == (until - data.last_time) * data.eps
    <3>1. emitted \in Int /\ emitted >= 0
      BY <2>2, <1>1, ProductType
    <3> HIDE DEF emitted
    <3>2. total \in Int /\ total > 0 /\ SCALAR_7 \in Int /\ SCALAR_7 > 0
      BY <1>4, ScalarAssumption
    <3>3. /\ FixedDivFloor(emitted, total, SCALAR_7) \in Int
          /\ emitted * SCALAR_7 < FixedDivFloor(emitted, total, SCALAR_7) * total + total
      BY <3>1, <3>2, FixedDivFloorBounds
    <3>4. emitted * SCALAR_7 \in Int /\ emitted * SCALAR_7 >= 0 /\ 0 * total = 0
      BY <3>1, <3>2, ProductType
    <3>5. FixedDivFloor(emitted, total, SCALAR_7) * total \in Int
      BY <3>2, <3>3, ProductType
    <3>6. 0 * total < FixedDivFloor(emitted, total, SCALAR_7) * total + total
      BY <3>3, <3>4, <3>5, <3>2
    <3>7. 0 <= FixedDivFloor(emitted, total, SCALAR_7)
      BY <3>6, <3>2, <3>3, ProductCancel
    <3> QED
      BY <3>3, <3>7 DEF emitted
  <2> HIDE DEF gain
  <2>4. data.index + gain \in Nat /\ data.index + gain >= data.index
    BY <2>3, <1>1
  <2>5. new \in RewardData
    BY <2>4, Zenon DEF RewardData
  <2>6. /\ new.eps = data.eps /\ new.expiration = data.expiration
        /\ new.index = data.index + gain /\ new.last_time = t
    BY Zenon DEF RewardData
  <2> HIDE DEF new
  <2> QED
    BY <2>1, <2>4, <2>5, <2>6
<1> QED
  BY <1>3, <1>4

\* Bringing reward data to time t a second time changes nothing, even if shares were
\* minted or burnt in between.
LEMMA LoadUpdatedOnce ==
    ASSUME NEW data \in RewardData \cup {None}, NEW t \in Nat,
           NEW total \in Nat, NEW later \in Nat, total # 0 \/ later = total
    PROVE  LoadUpdated(LoadUpdated(data, total, t), later, t)
           = LoadUpdated(data, total, t)
<1> DEFINE until == IF t > data.expiration THEN data.expiration ELSE t
           gain  == FixedDivFloor((until - data.last_time) * data.eps, total, SCALAR_7)
           new   == [data EXCEPT !.index = @ + gain, !.last_time = t]
<1>1. CASE total = 0
  BY <1>1 DEF LoadUpdated
<1>2. CASE \/ data = None
           \/ data.last_time >= data.expiration
           \/ t = data.last_time
           \/ data.eps = 0
  BY <1>2 DEF LoadUpdated
<1>3. CASE ~(\/ data = None
             \/ data.last_time >= data.expiration
             \/ t = data.last_time
             \/ data.eps = 0
             \/ total = 0)
  <2>1. LoadUpdated(data, total, t) = new
    BY <1>3 DEF LoadUpdated
  <2>2. data \in RewardData
    BY <1>3
  <2> HIDE DEF gain
  <2>3. new.last_time = t
    BY <2>2 DEF RewardData
  <2> HIDE DEF new
  <2>4. LoadUpdated(new, later, t) = new
    BY <2>3 DEF LoadUpdated
  <2> QED
    BY <2>1, <2>4
<1> QED
  BY <1>1, <1>2, <1>3

\* What has accrued to a user is a number of tokens.
LEMMA AccruedType ==
    ASSUME NEW data \in RewardData, NEW account \in UserRewards \cup {None},
           NEW user_shares \in Nat
    PROVE  Accrued(data, account, user_shares) \in Nat
<1> DEFINE since == IF account = None THEN 0 ELSE account.index
           past  == IF account = None THEN 0 ELSE account.accrued
           delta == data.index - since
<1>1. since \in Nat /\ past \in Nat /\ data.index \in Nat
  BY DEF UserRewards, RewardData
<1>2. Accrued(data, account, user_shares)
      = IF user_shares # 0 /\ data.index > since
        THEN past + FixedMulFloor(user_shares, delta, SCALAR_7)
        ELSE past
  BY DEF Accrued
<1> HIDE DEF since, past
<1>3. CASE user_shares # 0 /\ data.index > since
  <2>1. delta \in Int /\ delta >= 0 /\ SCALAR_7 \in Int /\ SCALAR_7 > 0
    BY <1>1, <1>3, ScalarAssumption
  <2> HIDE DEF delta
  <2> DEFINE f == FixedMulFloor(user_shares, delta, SCALAR_7)
  <2>2. f \in Int /\ user_shares * delta < f * SCALAR_7 + SCALAR_7
    BY <2>1, FixedMulFloorBounds
  <2>3. user_shares * delta \in Int /\ user_shares * delta >= 0 /\ 0 * SCALAR_7 = 0
    BY <2>1, ProductType
  <2> HIDE DEF f
  <2>4. f * SCALAR_7 \in Int
    BY <2>1, <2>2, ProductType
  <2>5. 0 * SCALAR_7 < f * SCALAR_7 + SCALAR_7
    BY <2>1, <2>2, <2>3, <2>4
  <2>6. f >= 0
    BY <2>5, <2>1, <2>2, ProductCancel
  <2>7. past + f \in Nat
    BY <2>6, <2>2, <1>1
  <2> QED
    BY <2>7, <1>2, <1>3 DEF f
<1>4. CASE ~(user_shares # 0 /\ data.index > since)
  BY <1>4, <1>1, <1>2
<1> QED
  BY <1>3, <1>4

\* An account that is at the index of the reward data has accrued what it says.
LEMMA AccruedAtIndex ==
    ASSUME NEW data \in RewardData, NEW account \in UserRewards,
           NEW user_shares \in Nat, account.index = data.index
    PROVE  Accrued(data, account, user_shares) = account.accrued
<1>1. account # None /\ account.index \in Nat
  BY NoneAssumption DEF UserRewards
<1> QED
  BY <1>1 DEF Accrued

\* No two users, and no two tokens, share an account.
LEMMA AccountKeys ==
    ASSUME NEW user \in Users, NEW token \in Tokens
    PROVE  /\ AccountKey(token, user) \in UserRewardKeys
           /\ \A u \in Users, t \in Tokens :
                  AccountKey(t, u) = AccountKey(token, user) => u = user /\ t = token
BY DEF AccountKey, UserRwdKey, UserRewardKeys, Addresses

-----------------------------------------------------------------------------
(***************************************************************************)
(* The invariant.                                                          *)
(***************************************************************************)

Inv == TypeOK /\ AccountsBehindIndex

\* What the invariant says of the reward data and the accounts at time t, apart from
\* which token is the current one.
DataOK(rd, t) ==
    /\ rd \in [Tokens -> RewardData \cup {None}]
    /\ \A token \in Tokens :
           rd[token] # None => rd[token].last_time <= t /\ rd[token].eps \in 1..U64_MAX

AccountsOK(rd, ur) ==
    /\ ur \in [UserRewardKeys -> UserRewards \cup {None}]
    /\ \A user \in Users, token \in Tokens :
           ur[AccountKey(token, user)] # None
           => /\ rd[token] # None
              /\ ur[AccountKey(token, user)].index <= rd[token].index

\* Reward data `rd' is later than `old': no token loses its data, or goes back.
Later(old, rd) ==
    \A token \in Tokens :
        old[token] # None => rd[token] # None /\ old[token].index <= rd[token].index

\* The invariant in these words.
LEMMA InvParts ==
    Inv <=> /\ DataOK(reward_data, now)
            /\ AccountsOK(reward_data, user_rewards)
            /\ reward_token \in Tokens \cup {None}
            /\ reward_token # None => reward_data[reward_token] # None
            /\ balance \in [Tokens -> Nat]
            /\ shares \in [Users -> Nat]
            /\ total_shares \in Nat
            /\ now \in Nat
BY DEF Inv, TypeOK, AccountsBehindIndex, DataOK, AccountsOK, Account

\* update_reward_data preserves the invariant.
LEMMA UpdatedRewardDataOK ==
    ASSUME Inv
    PROVE  /\ DataOK(UpdatedRewardData, now)
           /\ Later(reward_data, UpdatedRewardData)
           /\ \A token \in Tokens : token # reward_token
                  => UpdatedRewardData[token] = reward_data[token]
           /\ reward_token # None
              => /\ UpdatedRewardData[reward_token] \in RewardData
                 /\ UpdatedRewardData[reward_token]
                    = LoadUpdated(reward_data[reward_token], total_shares, now)
                 /\ UpdatedRewardData[reward_token].expiration
                    = reward_data[reward_token].expiration
<1> DEFINE new == LoadUpdated(reward_data[reward_token], total_shares, now)
<1>1. /\ DataOK(reward_data, now) /\ now \in Nat /\ total_shares \in Nat
      /\ reward_token \in Tokens \cup {None}
      /\ reward_token # None => reward_data[reward_token] # None
  BY InvParts
<1>2. reward_data \in [Tokens -> RewardData \cup {None}]
  BY <1>1 DEF DataOK
<1>3. CASE reward_token = None
  <2>1. UpdatedRewardData = reward_data
    BY <1>3 DEF UpdatedRewardData
  <2>2. \A token \in Tokens : reward_data[token] # None
            => reward_data[token].index <= reward_data[token].index
    <3> TAKE token \in Tokens
    <3> HAVE reward_data[token] # None
    <3>1. reward_data[token].index \in Nat
      BY <1>2 DEF RewardData
    <3> QED
      BY <3>1
  <2> QED
    BY <1>1, <1>3, <2>1, <2>2 DEF Later
<1>4. CASE reward_token # None
  <2>1. reward_token \in Tokens /\ reward_data[reward_token] \in RewardData
    BY <1>1, <1>2, <1>4
  <2>2. /\ reward_data[reward_token].last_time <= now
        /\ reward_data[reward_token].eps \in 1..U64_MAX
    BY <1>1, <2>1, <1>4 DEF DataOK
  <2>3. /\ new \in RewardData
        /\ new.eps = reward_data[reward_token].eps
        /\ new.expiration = reward_data[reward_token].expiration
        /\ new.index >= reward_data[reward_token].index
        /\ new.last_time <= now
    BY <2>1, <2>2, <1>1, LoadUpdatedType
  <2>4. UpdatedRewardData = [reward_data EXCEPT ![reward_token] = new]
    BY <1>4 DEF UpdatedRewardData
  <2> HIDE DEF new
  <2>5. UpdatedRewardData \in [Tokens -> RewardData \cup {None}]
    BY <2>3, <2>4, <1>2
  <2>6. /\ UpdatedRewardData[reward_token] = new
        /\ \A token \in Tokens : token # reward_token
               => UpdatedRewardData[token] = reward_data[token]
    BY <2>1, <2>4, <1>2
  <2>7. DataOK(UpdatedRewardData, now)
    BY <2>2, <2>3, <2>5, <2>6, <1>1 DEF DataOK
  <2>8. Later(reward_data, UpdatedRewardData)
    <3> SUFFICES ASSUME NEW token \in Tokens, reward_data[token] # None
                 PROVE  /\ UpdatedRewardData[token] # None
                        /\ reward_data[token].index <= UpdatedRewardData[token].index
      BY DEF Later
    <3>1. reward_data[token].index \in Nat /\ new.index \in Nat /\ new # None
      BY <1>2, <2>3, NoneAssumption DEF RewardData
    <3> QED
      BY <3>1, <2>1, <2>3, <2>6
  <2> QED
    BY <2>3, <2>6, <2>7, <2>8, <1>4 DEF new
<1> QED
  BY <1>3, <1>4

\* Accounts stay behind when the reward data gets later.
LEMMA AccountsKept ==
    ASSUME NEW rd \in [Tokens -> RewardData \cup {None}],
           NEW later \in [Tokens -> RewardData \cup {None}],
           NEW ur, AccountsOK(rd, ur), Later(rd, later)
    PROVE  AccountsOK(later, ur)
<1> SUFFICES ASSUME NEW user \in Users, NEW token \in Tokens,
                    ur[AccountKey(token, user)] # None
             PROVE  /\ later[token] # None
                    /\ ur[AccountKey(token, user)].index <= later[token].index
  BY DEF AccountsOK
<1>1. /\ rd[token] # None /\ later[token] # None
      /\ ur[AccountKey(token, user)].index <= rd[token].index
      /\ rd[token].index <= later[token].index
  BY DEF AccountsOK, Later
<1>2. AccountKey(token, user) \in UserRewardKeys
  BY AccountKeys
<1>3. /\ ur[AccountKey(token, user)].index \in Nat
      /\ rd[token].index \in Nat /\ later[token].index \in Nat
  BY <1>1, <1>2 DEF AccountsOK, UserRewards, RewardData
<1> QED
  BY <1>1, <1>3

\* An account written at the index of its token preserves the invariant.
LEMMA AccountWritten ==
    ASSUME NEW rd \in [Tokens -> RewardData \cup {None}], NEW ur, AccountsOK(rd, ur),
           NEW token \in Tokens, NEW user \in Users, rd[token] \in RewardData,
           NEW accrued \in Nat
    PROVE  AccountsOK(rd, [ur EXCEPT ![AccountKey(token, user)] =
                              [index |-> rd[token].index, accrued |-> accrued]])
<1> DEFINE key     == AccountKey(token, user)
           account == [index |-> rd[token].index, accrued |-> accrued]
           new     == [ur EXCEPT ![key] = account]
<1>1. ur \in [UserRewardKeys -> UserRewards \cup {None}] /\ key \in UserRewardKeys
  BY AccountKeys DEF AccountsOK
<1>2. rd[token].index \in Nat /\ rd[token] # None
  BY NoneAssumption DEF RewardData
<1>3. account \in UserRewards /\ account.index = rd[token].index
  BY <1>2 DEF UserRewards
<1> HIDE DEF account
<1>4. new \in [UserRewardKeys -> UserRewards \cup {None}]
  BY <1>1, <1>3
<1>5. ASSUME NEW u \in Users, NEW t \in Tokens, new[AccountKey(t, u)] # None
      PROVE  rd[t] # None /\ new[AccountKey(t, u)].index <= rd[t].index
  <2>1. AccountKey(t, u) \in UserRewardKeys
    BY AccountKeys
  <2>2. CASE AccountKey(t, u) = key
    <3>1. t = token
      BY <2>2, AccountKeys
    <3>2. new[AccountKey(t, u)] = account
      BY <2>1, <2>2, <1>1
    <3> QED
      BY <3>1, <3>2, <1>2, <1>3
  <2>3. CASE AccountKey(t, u) # key
    <3>1. new[AccountKey(t, u)] = ur[AccountKey(t, u)]
      BY <2>1, <2>3, <1>1
    <3> QED
      BY <3>1, <1>5 DEF AccountsOK
  <2> QED
    BY <2>2, <2>3
<1> HIDE DEF new
<1>6. AccountsOK(rd, new)
  BY <1>4, <1>5 DEF AccountsOK
<1> QED
  BY <1>6 DEF new, account, key

\* The settlement that every change of shares begins with preserves the invariant of
\* the reward data and the accounts.
LEMMA UpdateRewardsOK ==
    ASSUME Inv, NEW user \in Users, UpdateRewards(user)
    PROVE  /\ DataOK(reward_data', now)
           /\ AccountsOK(reward_data', user_rewards')
           /\ reward_token # None => reward_data'[reward_token] # None
<1>1. /\ DataOK(reward_data, now) /\ AccountsOK(reward_data, user_rewards)
      /\ reward_token # None => reward_data[reward_token] # None
      /\ reward_token \in Tokens \cup {None}
      /\ shares[user] \in Nat
  BY InvParts
<1>2. CASE reward_token = None \/ UpdatedRewardData[reward_token] = None
  <2>1. reward_data' = reward_data /\ user_rewards' = user_rewards
    BY <1>2 DEF UpdateRewards
  <2> QED
    BY <2>1, <1>1
<1>3. CASE ~(reward_token = None \/ UpdatedRewardData[reward_token] = None)
  <2> DEFINE data    == UpdatedRewardData[reward_token]
             accrued == Accrued(data, user_rewards[AccountKey(reward_token, user)],
                                shares[user])
  <2>1. /\ DataOK(UpdatedRewardData, now) /\ Later(reward_data, UpdatedRewardData)
        /\ data \in RewardData
    BY <1>3, UpdatedRewardDataOK
  <2>2. AccountsOK(UpdatedRewardData, user_rewards)
    BY <2>1, <1>1, AccountsKept DEF DataOK
  <2>3. accrued \in Nat
    <3>1. AccountKey(reward_token, user) \in UserRewardKeys
      BY <1>1, <1>3, AccountKeys
    <3>2. user_rewards[AccountKey(reward_token, user)] \in UserRewards \cup {None}
      BY <3>1, <1>1 DEF AccountsOK
    <3> QED
      BY <3>2, <2>1, <1>1, AccruedType
  <2>4. reward_data' = UpdatedRewardData
    BY <1>3 DEF UpdateRewards
  <2>5. user_rewards' = [user_rewards EXCEPT ![AccountKey(reward_token, user)] =
                             [index |-> data.index, accrued |-> accrued]]
    BY <1>3 DEF UpdateRewards
  <2> HIDE DEF accrued
  <2>6. AccountsOK(UpdatedRewardData, user_rewards')
    BY <2>1, <2>2, <2>3, <2>5, <1>1, <1>3, AccountWritten DEF DataOK
  <2> QED
    BY <2>1, <2>4, <2>6, <1>3
<1> QED
  BY <1>2, <1>3

\* The initial state satisfies the invariant.
LEMMA InitInv == Init => Inv
<1> SUFFICES ASSUME Init PROVE Inv
  OBVIOUS
<1>1. DataOK(reward_data, now)
  BY DEF Init, DataOK
<1>2. AccountsOK(reward_data, user_rewards)
  BY AccountKeys DEF Init, AccountsOK
<1> QED
  BY <1>1, <1>2, InvParts DEF Init

\* The invariant after a step, in parts.
LEMMA InvPartsNext ==
    Inv' <=> /\ DataOK(reward_data', now')
             /\ AccountsOK(reward_data', user_rewards')
             /\ reward_token' \in Tokens \cup {None}
             /\ reward_token' # None => reward_data'[reward_token'] # None
             /\ balance' \in [Tokens -> Nat]
             /\ shares' \in [Users -> Nat]
             /\ total_shares' \in Nat
             /\ now' \in Nat
BY DEF Inv, TypeOK, AccountsBehindIndex, DataOK, AccountsOK, Account

\* A deposit preserves the invariant.
LEMMA DepositInv ==
    ASSUME Inv, NEW user \in Users, NEW share_amount \in ShareAmounts,
           Deposit(user, share_amount)
    PROVE  Inv'
<1>1. /\ DataOK(reward_data', now) /\ AccountsOK(reward_data', user_rewards')
      /\ reward_token # None => reward_data'[reward_token] # None
  BY UpdateRewardsOK DEF Deposit
<1>2. share_amount \in Nat
  BY AmountAssumption
<1>3. shares' \in [Users -> Nat] /\ total_shares' \in Nat
  BY <1>2, InvParts DEF Deposit
<1> QED
  BY <1>1, <1>3, InvParts, InvPartsNext DEF Deposit

\* A withdrawal preserves the invariant.
LEMMA WithdrawInv ==
    ASSUME Inv, NEW user \in Users, NEW share_amount \in ShareAmounts,
           Withdraw(user, share_amount)
    PROVE  Inv'
<1>1. /\ DataOK(reward_data', now) /\ AccountsOK(reward_data', user_rewards')
      /\ reward_token # None => reward_data'[reward_token] # None
  BY UpdateRewardsOK DEF Withdraw
<1>2. share_amount \in Nat
  BY AmountAssumption
<1>3. shares' \in [Users -> Nat] /\ total_shares' \in Nat
  BY <1>2, InvParts DEF Withdraw
<1> QED
  BY <1>1, <1>3, InvParts, InvPartsNext DEF Withdraw

\* Reward data written with the index of the token, or a later one, preserves the
\* invariant of the reward data and the accounts.
LEMMA DataWritten ==
    ASSUME NEW rd \in [Tokens -> RewardData \cup {None}], NEW t \in Nat, DataOK(rd, t),
           NEW ur, AccountsOK(rd, ur), NEW token \in Tokens,
           NEW new \in RewardData, new.last_time <= t, new.eps \in 1..U64_MAX,
           rd[token] # None => rd[token].index <= new.index
    PROVE  /\ DataOK([rd EXCEPT ![token] = new], t)
           /\ AccountsOK([rd EXCEPT ![token] = new], ur)
<1> DEFINE later == [rd EXCEPT ![token] = new]
<1>1. /\ later \in [Tokens -> RewardData \cup {None}]
      /\ later[token] = new
      /\ \A other \in Tokens : other # token => later[other] = rd[other]
  OBVIOUS
<1> HIDE DEF later
<1>2. DataOK(later, t)
  BY <1>1 DEF DataOK
<1>3. Later(rd, later)
  <2> SUFFICES ASSUME NEW other \in Tokens, rd[other] # None
               PROVE  later[other] # None /\ rd[other].index <= later[other].index
    BY DEF Later
  <2>1. rd[other].index \in Nat /\ new # None
    BY NoneAssumption DEF RewardData
  <2> QED
    BY <2>1, <1>1
<1>4. AccountsOK(later, ur)
  BY <1>1, <1>3, AccountsKept
<1> QED
  BY <1>2, <1>4 DEF later

\* Extending active rewards preserves the invariant of the reward data and accounts.
LEMMA ExtendRewardsOK ==
    ASSUME Inv, NEW token \in Tokens, NEW amount \in Int, NEW expiration \in Nat,
           expiration > now, amount > 0, RewardsActive,
           ExtendRewards(token, amount, expiration)
    PROVE  /\ DataOK(reward_data', now)
           /\ AccountsOK(reward_data', user_rewards)
           /\ reward_token' = token
           /\ reward_data'[token] # None
<1> DEFINE data == UpdatedRewardData[reward_token]
           eps  == CalculateEps(amount + (data.expiration - now) * data.eps,
                                expiration - now)
           new  == [eps |-> eps, expiration |-> expiration,
                    index |-> data.index, last_time |-> now]
<1>1. /\ DataOK(reward_data, now) /\ AccountsOK(reward_data, user_rewards)
      /\ now \in Nat /\ reward_token # None
  BY InvParts DEF RewardsActive
<1>2. /\ data \in RewardData /\ data.expiration = reward_data[reward_token].expiration
      /\ Later(reward_data, UpdatedRewardData)
  BY <1>1, UpdatedRewardDataOK
<1>3. data.expiration \in Nat /\ data.eps \in Nat /\ data.index \in Nat
  BY <1>2 DEF RewardData
<1>4. token = reward_token /\ reward_token' = token
  BY DEF ExtendRewards
<1>5. eps \in 1..U64_MAX
  <2>1. (data.expiration - now) * data.eps \in Int
    BY <1>1, <1>3, ProductType
  <2> DEFINE left == (data.expiration - now) * data.eps
  <2> HIDE DEF left
  <2>2. CalculateEps(amount + left, expiration - now) \in Int
    <3>1. amount + left \in Int /\ expiration - now \in Int /\ expiration - now > 0
      BY <2>1, <1>1 DEF left
    <3> QED
      BY <3>1, DivBounds DEF CalculateEps
  <2>3. ValidEps(eps)
    BY DEF ExtendRewards
  <2> QED
    BY <2>2, <2>3, ScalarAssumption DEF ValidEps, left
<1> HIDE DEF eps
<1>6. new \in RewardData /\ new.last_time <= now /\ new.eps \in 1..U64_MAX /\ new.index = data.index
  BY <1>1, <1>3, <1>5 DEF RewardData
<1>7. reward_data' = [reward_data EXCEPT ![token] = new]
  BY DEF ExtendRewards, eps
<1>8. reward_data[token] # None => reward_data[token].index <= new.index
  BY <1>2, <1>4, <1>6 DEF Later
<1> HIDE DEF new, data
<1>9. /\ DataOK(reward_data', now) /\ AccountsOK(reward_data', user_rewards)
  BY <1>1, <1>6, <1>7, <1>8, DataWritten DEF DataOK
<1>10. reward_data'[token] # None
  BY <1>1, <1>6, <1>7, NoneAssumption DEF DataOK
<1> QED
  BY <1>4, <1>9, <1>10

\* Starting new rewards preserves the invariant of the reward data and accounts.
LEMMA StartRewardsOK ==
    ASSUME Inv, NEW token \in Tokens, NEW amount \in Int, NEW expiration \in Nat,
           expiration > now, StartRewards(token, amount, expiration)
    PROVE  /\ DataOK(reward_data', now)
           /\ AccountsOK(reward_data', user_rewards)
           /\ reward_token' = token
           /\ reward_data'[token] # None
<1> DEFINE rd    == UpdatedRewardData
           old   == LoadUpdated(rd[token], total_shares, now)
           eps   == CalculateEps(amount, expiration - now)
           index == IF old = None THEN 0 ELSE old.index
           new   == [eps |-> eps, expiration |-> expiration,
                     index |-> index, last_time |-> now]
<1>1. /\ AccountsOK(reward_data, user_rewards) /\ DataOK(reward_data, now)
      /\ now \in Nat /\ total_shares \in Nat
  BY InvParts
<1>2. DataOK(rd, now) /\ Later(reward_data, rd)
  BY UpdatedRewardDataOK
<1>3. AccountsOK(rd, user_rewards)
  BY <1>1, <1>2, AccountsKept DEF DataOK
<1>4. ValidEps(eps) /\ reward_token' = token /\ reward_data' = [rd EXCEPT ![token] = new]
  BY DEF StartRewards
<1>5. eps \in 1..U64_MAX
  <2>1. expiration - now \in Int /\ expiration - now > 0
    BY <1>1
  <2>2. eps \in Int
    BY <2>1, DivBounds DEF CalculateEps
  <2> QED
    BY <2>2, <1>4, ScalarAssumption DEF ValidEps
<1> HIDE DEF eps, rd
<1>6. index \in Nat /\ (rd[token] # None => rd[token].index <= index)
  <2>1. CASE rd[token] = None
    BY <2>1 DEF LoadUpdated
  <2>2. CASE rd[token] # None
    <3>1. rd[token] \in RewardData /\ rd[token].last_time <= now
      BY <2>2, <1>2 DEF DataOK
    <3>2. old \in RewardData /\ old.index >= rd[token].index
      BY <3>1, <1>1, LoadUpdatedType
    <3>3. old # None /\ old.index \in Nat /\ rd[token].index \in Nat
      BY <3>1, <3>2, NoneAssumption DEF RewardData
    <3> HIDE DEF old
    <3> QED
      BY <3>2, <3>3
  <2> QED
    BY <2>1, <2>2
<1> HIDE DEF index
<1>7. new \in RewardData /\ new.last_time <= now /\ new.eps \in 1..U64_MAX /\ new.index = index
  BY <1>1, <1>5, <1>6 DEF RewardData
<1> HIDE DEF new
<1>8. /\ DataOK(reward_data', now) /\ AccountsOK(reward_data', user_rewards)
  BY <1>1, <1>2, <1>3, <1>4, <1>6, <1>7, DataWritten DEF DataOK
<1>9. reward_data'[token] # None
  BY <1>2, <1>4, <1>7, NoneAssumption DEF DataOK
<1> QED
  BY <1>4, <1>8, <1>9

\* Setting rewards preserves the invariant.
LEMMA SetRewardsInv ==
    ASSUME Inv, NEW token \in Tokens, NEW amount \in RewardAmounts,
           NEW expiration \in 0..MaxExpiration, SetRewards(token, amount, expiration)
    PROVE  Inv'
<1>1. amount \in Int /\ amount > 0 /\ expiration \in Nat /\ expiration > now
  BY AmountAssumption, BoundAssumption DEF SetRewards
<1>2. /\ DataOK(reward_data', now) /\ AccountsOK(reward_data', user_rewards)
      /\ reward_token' = token /\ reward_data'[token] # None
  <2>1. CASE RewardsActive
    BY <2>1, <1>1, ExtendRewardsOK DEF SetRewards
  <2>2. CASE ~RewardsActive
    BY <2>2, <1>1, StartRewardsOK DEF SetRewards
  <2> QED
    BY <2>1, <2>2
<1>3. balance' \in [Tokens -> Nat]
  <2>1. balance[token] + amount \in Nat
    BY <1>1, InvParts
  <2> QED
    BY <2>1, InvParts DEF SetRewards
<1> QED
  BY <1>2, <1>3, InvParts, InvPartsNext DEF SetRewards

\* A claim preserves the invariant.
LEMMA ClaimRewardsInv ==
    ASSUME Inv, NEW user \in Users, NEW requested \in Tokens,
           ClaimRewards(user, requested)
    PROVE  Inv'
<1> DEFINE data   == UpdatedRewardData[reward_token]
           amount == Accrued(data, Account(reward_token, user), shares[user])
<1>1. /\ DataOK(reward_data, now) /\ AccountsOK(reward_data, user_rewards)
      /\ reward_token \in Tokens /\ reward_token # None
      /\ shares[user] \in Nat /\ balance \in [Tokens -> Nat]
  BY InvParts, NoneAssumption DEF ClaimRewards
<1>2. /\ DataOK(UpdatedRewardData, now) /\ Later(reward_data, UpdatedRewardData)
      /\ data \in RewardData
  BY <1>1, UpdatedRewardDataOK
<1>3. amount \in Nat
  <2>1. Account(reward_token, user) \in UserRewards \cup {None}
    BY <1>1, AccountKeys DEF AccountsOK, Account
  <2> QED
    BY <2>1, <1>1, <1>2, AccruedType
<1>4. /\ reward_data' = UpdatedRewardData
      /\ user_rewards' = [user_rewards EXCEPT ![AccountKey(reward_token, user)] =
                              [index |-> data.index, accrued |-> 0]]
      /\ amount <= balance[reward_token]
      /\ balance' = [balance EXCEPT ![reward_token] = @ - amount]
  BY DEF ClaimRewards
<1> HIDE DEF amount
<1>5. balance' \in [Tokens -> Nat]
  BY <1>1, <1>3, <1>4
<1>6. AccountsOK(UpdatedRewardData, user_rewards)
  BY <1>1, <1>2, AccountsKept DEF DataOK
<1>7. AccountsOK(UpdatedRewardData, user_rewards')
  BY <1>1, <1>2, <1>4, <1>6, AccountWritten DEF DataOK
<1>8. reward_data'[reward_token] # None
  BY <1>2, <1>4, NoneAssumption
<1> QED
  BY <1>2, <1>4, <1>5, <1>7, <1>8, InvParts, InvPartsNext DEF ClaimRewards

\* The passing of time preserves the invariant.
LEMMA TickInv ==
    ASSUME Inv, Tick
    PROVE  Inv'
<1>1. now \in Nat /\ now' = now + 1 /\ reward_data' = reward_data
  BY InvParts DEF Tick
<1>2. DataOK(reward_data', now')
  <2>1. DataOK(reward_data, now)
    BY InvParts
  <2> SUFFICES ASSUME NEW token \in Tokens, reward_data[token] # None
               PROVE  /\ reward_data[token].last_time <= now'
                      /\ reward_data[token].eps \in 1..U64_MAX
    BY <2>1, <1>1 DEF DataOK
  <2>2. reward_data[token].last_time \in Nat
    BY <2>1 DEF DataOK, RewardData
  <2> QED
    BY <2>1, <2>2, <1>1 DEF DataOK
<1> QED
  BY <1>1, <1>2, InvParts, InvPartsNext DEF Tick

\* Every step preserves the invariant.
LEMMA StepInv == Inv /\ [Next]_vars => Inv'
<1> SUFFICES ASSUME Inv, [Next]_vars PROVE Inv'
  OBVIOUS
<1>1. ASSUME NEW user \in Users, NEW share_amount \in ShareAmounts,
             Deposit(user, share_amount)
      PROVE  Inv'
  BY <1>1, DepositInv
<1>2. ASSUME NEW user \in Users, NEW share_amount \in ShareAmounts,
             Withdraw(user, share_amount)
      PROVE  Inv'
  BY <1>2, WithdrawInv
<1>3. ASSUME NEW token \in Tokens, NEW amount \in RewardAmounts,
             NEW expiration \in 0..MaxExpiration, SetRewards(token, amount, expiration)
      PROVE  Inv'
  BY <1>3, SetRewardsInv
<1>4. ASSUME NEW user \in Users, NEW requested \in Tokens, ClaimRewards(user, requested)
      PROVE  Inv'
  BY <1>4, ClaimRewardsInv
<1>5. CASE Tick
  BY <1>5, TickInv
<1>6. CASE UNCHANGED vars
  BY <1>6 DEF vars, Inv, TypeOK, AccountsBehindIndex, Account
<1> QED
  BY <1>1, <1>2, <1>3, <1>4, <1>5, <1>6 DEF Next

\* Every reachable state satisfies the invariant.
THEOREM Invariance == Spec => []Inv
BY InitInv, StepInv, PTL DEF Spec

\* In every reachable state the variables have their types, whatever the admin sets and
\* whoever deposits, withdraws and claims.
THEOREM TypeCorrect == Spec => []TypeOK
BY Invariance, PTL DEF Inv

\* No account is ever ahead of the index of its token.
THEOREM AccountsTheorem == Spec => []AccountsBehindIndex
BY Invariance, PTL DEF Inv

-----------------------------------------------------------------------------
(***************************************************************************)
(* Only time earns rewards.                                                *)
(***************************************************************************)

\* What is due depends on the reward data only by its index.
LEMMA AccruedByIndex ==
    ASSUME NEW data, NEW other, data.index = other.index, NEW account, NEW user_shares
    PROVE  Accrued(data, account, user_shares) = Accrued(other, account, user_shares)
BY DEF Accrued

\* What a user is due of the current token, in terms of the updated reward data.
LEMMA DueNow ==
    ASSUME Inv, reward_token # None, NEW user \in Users
    PROVE  Due(user, reward_token)
           = Accrued(UpdatedRewardData[reward_token], Account(reward_token, user),
                     shares[user])
<1>1. /\ UpdatedRewardData[reward_token]
         = LoadUpdated(reward_data[reward_token], total_shares, now)
      /\ UpdatedRewardData[reward_token] # None
  BY UpdatedRewardDataOK, NoneAssumption
<1> QED
  BY <1>1 DEF Due, GetRewardData

\* What a user is due of the current token is a number.
LEMMA DueTyped ==
    ASSUME Inv, NEW t \in Tokens, t = reward_token, NEW user \in Users
    PROVE  Due(user, t) \in Nat
<1>1. /\ reward_token # None /\ UpdatedRewardData[t] \in RewardData /\ shares[user] \in Nat
      /\ Account(t, user) \in UserRewards \cup {None}
  BY InvParts, UpdatedRewardDataOK, AccountKeys, NoneAssumption DEF AccountsOK, Account
<1> QED
  BY <1>1, DueNow, AccruedType

\* A step after which the token `t', the current one until then, has the index it had
\* been brought to leaves what a user is due of it as it was, if it leaves the user's
\* shares and account as they were, or writes to the account what had accrued.
LEMMA TokenDueUnmoved ==
    ASSUME Inv, Inv', NEW t \in Tokens, t = reward_token, reward_data'[t] # None,
           now' = now, NEW user \in Users,
           LoadUpdated(reward_data'[t], total_shares', now).index
           = UpdatedRewardData[t].index,
           \/ /\ shares'[user] = shares[user]
              /\ user_rewards'[AccountKey(t, user)] = user_rewards[AccountKey(t, user)]
           \/ user_rewards'[AccountKey(t, user)]
              = [index |-> UpdatedRewardData[t].index, accrued |-> Due(user, t)]
    PROVE  Due(user, t)' = Due(user, t)
<1> DEFINE data == UpdatedRewardData[t]
           new  == LoadUpdated(reward_data'[t], total_shares', now)
           key  == AccountKey(t, user)
<1>1. /\ reward_token # None /\ data \in RewardData /\ new.index = data.index
      /\ shares[user] \in Nat
      /\ user_rewards \in [UserRewardKeys -> UserRewards \cup {None}]
  BY InvParts, UpdatedRewardDataOK, NoneAssumption DEF AccountsOK
<1>2. new \in RewardData
  <2>1. DataOK(reward_data', now) /\ total_shares' \in Nat
    BY InvPartsNext
  <2>2. /\ reward_data'[t] \in RewardData
        /\ reward_data'[t].last_time <= now
    BY <2>1 DEF DataOK
  <2>3. now \in Nat
    BY InvParts
  <2> QED
    BY <2>1, <2>2, <2>3, LoadUpdatedType
<1>3. Due(user, t) = Accrued(data, user_rewards[key], shares[user])
  BY <1>1, DueNow DEF Account
<1>4. Due(user, t)' = Accrued(new, user_rewards'[key], shares'[user])
  <2>1. Due(user, t)'
        = IF new = None THEN 0 ELSE Accrued(new, user_rewards'[key], shares'[user])
    BY DEF Due, GetRewardData, Account
  <2> QED
    BY <2>1, <1>2, NoneAssumption
<1> HIDE DEF new
<1>5. CASE shares'[user] = shares[user] /\ user_rewards'[key] = user_rewards[key]
  BY <1>5, <1>1, <1>3, <1>4, AccruedByIndex
<1>6. CASE user_rewards'[key] = [index |-> data.index, accrued |-> Due(user, t)]
  <2>1. Due(user, t) \in Nat
    <3>1. user_rewards[key] \in UserRewards \cup {None}
      BY <1>1, AccountKeys
    <3> QED
      BY <3>1, <1>1, <1>3, AccruedType
  <2>2. data.index \in Nat
    BY <1>1 DEF RewardData
  <2>3. user_rewards'[key] \in UserRewards
    BY <1>6, <2>1, <2>2 DEF UserRewards
  <2>4. user_rewards'[key].index = new.index /\ user_rewards'[key].accrued = Due(user, t)
    BY <1>1, <1>6
  <2>5. shares'[user] \in Nat
    BY InvPartsNext
  <2>6. Accrued(new, user_rewards'[key], shares'[user]) = user_rewards'[key].accrued
    BY <2>3, <2>4, <2>5, <1>2, AccruedAtIndex
  <2> QED
    BY <2>4, <2>6, <1>4
<1> QED
  BY <1>5, <1>6

\* The same, of a token that stays the current one.
LEMMA DueUnmoved ==
    ASSUME Inv, Inv', reward_token # None, reward_token' = reward_token, now' = now,
           NEW user \in Users,
           LoadUpdated(reward_data'[reward_token], total_shares', now).index
           = UpdatedRewardData[reward_token].index,
           \/ /\ shares'[user] = shares[user]
              /\ user_rewards'[AccountKey(reward_token, user)]
                 = user_rewards[AccountKey(reward_token, user)]
           \/ user_rewards'[AccountKey(reward_token, user)]
              = [index   |-> UpdatedRewardData[reward_token].index,
                 accrued |-> Due(user, reward_token)]
    PROVE  Due(user, reward_token)' = Due(user, reward_token)
<1>1. PICK t \in Tokens : t = reward_token
  BY InvParts
<1>2. reward_data'[t] # None
  BY <1>1, InvPartsNext
<1>3. Due(user, t)' = Due(user, t)
  BY <1>1, <1>2, TokenDueUnmoved
<1>4. Due(user, reward_token)' = Due(user, t)'
  BY <1>1 DEF Due, GetRewardData, Account
<1> QED
  BY <1>1, <1>3, <1>4

\* A settlement of one user leaves what every user is due as it was, however the shares
\* of that user change after it.
LEMMA SettlementKeepsDue ==
    ASSUME Inv, Inv', reward_token # None, reward_token' = reward_token, now' = now,
           total_shares # 0, NEW settled \in Users, UpdateRewards(settled),
           \A other \in Users : other # settled => shares'[other] = shares[other],
           NEW user \in Users
    PROVE  Due(user, reward_token)' = Due(user, reward_token)
<1> DEFINE t    == reward_token
           data == UpdatedRewardData[t]
<1>1. /\ t \in Tokens /\ data \in RewardData /\ data # None
      /\ data = LoadUpdated(reward_data[t], total_shares, now)
      /\ reward_data[t] \in RewardData \cup {None}
      /\ total_shares \in Nat /\ total_shares' \in Nat /\ now \in Nat
      /\ user_rewards \in [UserRewardKeys -> UserRewards \cup {None}]
  BY InvParts, InvPartsNext, UpdatedRewardDataOK, NoneAssumption DEF DataOK, AccountsOK
<1>2. /\ reward_data' = UpdatedRewardData
      /\ user_rewards' =
           [user_rewards EXCEPT ![AccountKey(t, settled)] =
               [index   |-> data.index,
                accrued |-> Accrued(data, user_rewards[AccountKey(t, settled)],
                                    shares[settled])]]
  BY <1>1 DEF UpdateRewards
<1>3. LoadUpdated(reward_data'[t], total_shares', now) = data
  BY <1>1, <1>2, LoadUpdatedOnce
<1>4. AccountKey(t, settled) \in UserRewardKeys /\ AccountKey(t, user) \in UserRewardKeys
  BY <1>1, AccountKeys
<1>5. CASE user = settled
  <2>1. Due(user, t) = Accrued(data, user_rewards[AccountKey(t, settled)], shares[settled])
    BY <1>5, DueNow DEF Account
  <2>2. user_rewards'[AccountKey(t, user)]
        = [index |-> data.index, accrued |-> Due(user, t)]
    BY <2>1, <1>1, <1>2, <1>4, <1>5
  <2> QED
    BY <2>2, <1>3, DueUnmoved
<1>6. CASE user # settled
  <2>1. AccountKey(t, user) # AccountKey(t, settled)
    BY <1>6, <1>1, AccountKeys
  <2>2. user_rewards'[AccountKey(t, user)] = user_rewards[AccountKey(t, user)]
    BY <2>1, <1>1, <1>2, <1>4
  <2> QED
    BY <2>2, <1>3, <1>6, DueUnmoved
<1> QED
  BY <1>5, <1>6

\* Setting rewards of the same token leaves what every user is due as it was.
LEMMA SetRewardsKeepsDue ==
    ASSUME Inv, Inv', reward_token # None, reward_token' = reward_token, now' = now,
           NEW token \in Tokens, NEW amount \in RewardAmounts,
           NEW expiration \in 0..MaxExpiration, SetRewards(token, amount, expiration),
           NEW user \in Users
    PROVE  Due(user, reward_token)' = Due(user, reward_token)
<1> DEFINE t    == reward_token
           data == UpdatedRewardData[t]
           new  == reward_data'[t]
<1>1. /\ t \in Tokens /\ data \in RewardData /\ data # None
      /\ data = LoadUpdated(reward_data[t], total_shares, now)
      /\ reward_data \in [Tokens -> RewardData \cup {None}]
      /\ UpdatedRewardData \in [Tokens -> RewardData \cup {None}]
      /\ total_shares \in Nat /\ now \in Nat
  BY InvParts, UpdatedRewardDataOK, NoneAssumption DEF DataOK
<1>2. UNCHANGED <<user_rewards, shares, total_shares>>
  BY DEF SetRewards
<1>3. token = t /\ new.index = data.index /\ new.last_time = now
  <2>1. CASE RewardsActive
    BY <2>1, <1>1 DEF SetRewards, ExtendRewards
  <2>2. CASE ~RewardsActive
    <3>1. token = t
      BY <2>2 DEF SetRewards, StartRewards
    <3>2. LoadUpdated(data, total_shares, now) = data
      BY <1>1, LoadUpdatedOnce
    <3> QED
      BY <2>2, <3>1, <3>2, <1>1 DEF SetRewards, StartRewards
  <2> QED
    BY <2>1, <2>2
<1> HIDE DEF new
<1>4. LoadUpdated(new, total_shares', now).index = data.index
  BY <1>3 DEF LoadUpdated
<1> QED
  BY <1>2, <1>4, DueUnmoved DEF new

\* A claim leaves what every user is due as it was, but pays the claimant's.
LEMMA ClaimKeepsDue ==
    ASSUME Inv, Inv', reward_token # None, reward_token' = reward_token, now' = now,
           total_shares # 0, NEW claimant \in Users, NEW requested \in Tokens,
           ClaimRewards(claimant, requested), NEW user \in Users
    PROVE  DueKept(user)
<1> DEFINE t    == reward_token
           data == UpdatedRewardData[t]
           new  == LoadUpdated(reward_data'[t], total_shares', now)
<1>1. /\ t \in Tokens /\ data \in RewardData /\ data # None
      /\ data = LoadUpdated(reward_data[t], total_shares, now)
      /\ reward_data[t] \in RewardData \cup {None}
      /\ total_shares \in Nat /\ now \in Nat
      /\ user_rewards \in [UserRewardKeys -> UserRewards \cup {None}]
      /\ balance \in [Tokens -> Nat]
      /\ shares[user] \in Nat
  BY InvParts, UpdatedRewardDataOK, NoneAssumption DEF DataOK, AccountsOK
<1>2. /\ reward_data' = UpdatedRewardData
      /\ user_rewards' = [user_rewards EXCEPT ![AccountKey(t, claimant)] =
                              [index |-> data.index, accrued |-> 0]]
      /\ balance' = [balance EXCEPT ![t] =
                         @ - Accrued(data, Account(t, claimant), shares[claimant])]
      /\ UNCHANGED <<shares, total_shares>>
  BY DEF ClaimRewards
<1>3. new = data
  BY <1>1, <1>2, LoadUpdatedOnce
<1>4. AccountKey(t, claimant) \in UserRewardKeys /\ AccountKey(t, user) \in UserRewardKeys
  BY <1>1, AccountKeys
<1>5. CASE user = claimant
  <2>1. balance'[t] = balance[t] - Due(user, t)
    BY <1>1, <1>2, <1>5, DueNow
  <2>2. user_rewards'[AccountKey(t, user)] = [index |-> data.index, accrued |-> 0]
    BY <1>1, <1>2, <1>4, <1>5
  <2>3. Due(user, reward_token)'
        = IF new = None THEN 0
          ELSE Accrued(new, user_rewards'[AccountKey(t, user)], shares'[user])
    BY DEF Due, GetRewardData, Account
  <2>4. Accrued(data, user_rewards'[AccountKey(t, user)], shares[user]) = 0
    <3>1. data.index \in Nat
      BY <1>1 DEF RewardData
    <3>2. user_rewards'[AccountKey(t, user)] \in UserRewards
      BY <2>2, <3>1 DEF UserRewards
    <3> QED
      BY <2>2, <3>2, <1>1, AccruedAtIndex
  <2>5. Due(user, reward_token)' = 0
    BY <2>3, <2>4, <1>1, <1>2, <1>3
  <2> QED
    BY <2>1, <2>5 DEF DueKept
<1>6. CASE user # claimant
  <2>1. AccountKey(t, user) # AccountKey(t, claimant)
    BY <1>6, <1>1, AccountKeys
  <2>2. user_rewards'[AccountKey(t, user)] = user_rewards[AccountKey(t, user)]
    BY <2>1, <1>1, <1>2, <1>4
  <2>3. Due(user, reward_token)' = Due(user, reward_token)
    BY <2>2, <1>2, <1>3, DueUnmoved
  <2> QED
    BY <2>3 DEF DueKept
<1> QED
  BY <1>5, <1>6

\* The step that RewardsEarnedOverTime is about keeps what every user is due.
LEMMA StepKeepsDue ==
    ASSUME Inv, Inv', [Next]_vars, now' = now, reward_token # None,
           reward_token' = reward_token, total_shares # 0, NEW user \in Users
    PROVE  DueKept(user)
<1> SUFFICES Due(user, reward_token)' = Due(user, reward_token) \/ DueKept(user)
  BY DEF DueKept
<1>1. ASSUME NEW u \in Users, NEW share_amount \in ShareAmounts, Deposit(u, share_amount)
      PROVE  Due(user, reward_token)' = Due(user, reward_token)
  <2>1. UpdateRewards(u) /\ \A other \in Users : other # u => shares'[other] = shares[other]
    BY <1>1, InvParts DEF Deposit
  <2> QED
    BY <2>1, SettlementKeepsDue
<1>2. ASSUME NEW u \in Users, NEW share_amount \in ShareAmounts, Withdraw(u, share_amount)
      PROVE  Due(user, reward_token)' = Due(user, reward_token)
  <2>1. UpdateRewards(u) /\ \A other \in Users : other # u => shares'[other] = shares[other]
    BY <1>2, InvParts DEF Withdraw
  <2> QED
    BY <2>1, SettlementKeepsDue
<1>3. ASSUME NEW token \in Tokens, NEW amount \in RewardAmounts,
             NEW expiration \in 0..MaxExpiration, SetRewards(token, amount, expiration)
      PROVE  Due(user, reward_token)' = Due(user, reward_token)
  BY <1>3, SetRewardsKeepsDue
<1>4. ASSUME NEW u \in Users, NEW requested \in Tokens, ClaimRewards(u, requested)
      PROVE  DueKept(user)
  BY <1>4, ClaimKeepsDue
<1>5. CASE Tick
  <2>1. now \in Nat /\ now' = now + 1
    BY <1>5, InvParts DEF Tick
  <2> QED
    BY <2>1
<1>6. CASE UNCHANGED vars
  BY <1>6 DEF vars, Due, GetRewardData, Account
<1> QED
  BY <1>1, <1>2, <1>3, <1>4, <1>5, <1>6 DEF Next

\* Only holding shares over time earns rewards of the current token, and only a claim
\* takes them, paying what it takes: for any number of users and any history of
\* deposits, withdrawals, claims and changes of the rewards.
THEOREM EarnedOverTimeTheorem == Spec => RewardsEarnedOverTime
<1>1. ASSUME Inv, Inv', [Next]_vars
      PROVE  \/ now' # now
             \/ reward_token = None
             \/ reward_token' # reward_token
             \/ total_shares = 0
             \/ \A user \in Users : DueKept(user)
  BY <1>1, StepKeepsDue
<1> QED
  BY <1>1, Invariance, PTL DEF Spec, RewardsEarnedOverTime

\* While the clock stands still nobody but the user itself, by claiming, takes away what
\* it is due of the token that was current, not even the admin by setting other rewards.
LEMMA OthersKeepDue ==
    ASSUME Inv, Inv', now' = now, NEW t \in Tokens, t = reward_token,
           NEW user \in Users, shares'[user] = shares[user],
           total_shares = 0 => shares[user] = 0,
           \/ \E u \in Users, share_amount \in ShareAmounts :
                  Deposit(u, share_amount) \/ Withdraw(u, share_amount)
           \/ \E token \in Tokens, amount \in RewardAmounts, expiration \in 0..MaxExpiration :
                  SetRewards(token, amount, expiration)
           \/ \E u \in Users \ {user}, requested \in Tokens : ClaimRewards(u, requested)
    PROVE  Due(user, t)' = Due(user, t)
<1> DEFINE data == UpdatedRewardData[t]
           key  == AccountKey(t, user)
<1>1. /\ reward_token # None /\ data \in RewardData /\ data # None
      /\ data = LoadUpdated(reward_data[t], total_shares, now)
      /\ reward_data[t] \in RewardData \cup {None}
      /\ UpdatedRewardData \in [Tokens -> RewardData \cup {None}]
      /\ total_shares \in Nat /\ total_shares' \in Nat /\ now \in Nat
      /\ shares[user] \in Nat
      /\ user_rewards \in [UserRewardKeys -> UserRewards \cup {None}]
      /\ key \in UserRewardKeys
  BY InvParts, InvPartsNext, UpdatedRewardDataOK, AccountKeys, NoneAssumption
  DEF DataOK, AccountsOK
<1>2. CASE total_shares = 0 /\ \E u \in Users : UpdateRewards(u) /\ reward_token' = reward_token
  <2>1. PICK u \in Users : UpdateRewards(u) /\ reward_token' = reward_token
    BY <1>2
  <2>2. shares[user] = 0 /\ shares'[user] = 0
    BY <1>2
  <2> DEFINE past(ur) == IF ur[key] = None THEN 0 ELSE ur[key].accrued
  <2>3. reward_data' = UpdatedRewardData
    BY <1>1, <2>1 DEF UpdateRewards
  <2>4. user_rewards' = [user_rewards EXCEPT ![AccountKey(t, u)] =
                            [index   |-> data.index,
                             accrued |-> Accrued(data, @, shares[u])]]
    BY <1>1, <2>1 DEF UpdateRewards
  <2>5. past(user_rewards') = past(user_rewards)
    <3>1. CASE u = user
      <4>1. user_rewards'[key]
            = [index |-> data.index, accrued |-> Accrued(data, user_rewards[key], 0)]
        BY <2>2, <2>4, <3>1, <1>1
      <4>2. Accrued(data, user_rewards[key], 0) = past(user_rewards)
        BY DEF Accrued
      <4>3. Accrued(data, user_rewards[key], 0) \in Nat
        BY <1>1, AccruedType
      <4>4. user_rewards'[key] \in UserRewards
        BY <4>1, <4>3, <1>1 DEF UserRewards, RewardData
      <4> QED
        BY <4>1, <4>2, <4>4, NoneAssumption
    <3>2. CASE u # user
      <4>1. AccountKey(t, u) # key
        BY <3>2, AccountKeys
      <4> QED
        BY <4>1, <2>4, <1>1
    <3> QED
      BY <3>1, <3>2
  <2>6. Due(user, t) = past(user_rewards)
    BY <1>1, <2>2, DueNow DEF Accrued, Account
  <2>7. Due(user, t)' = past(user_rewards')
    <3> DEFINE new == LoadUpdated(reward_data'[t], total_shares', now)
    <3>1. new # None
      BY <1>1, <2>3, NoneAssumption, LoadUpdatedType, UpdatedRewardDataOK DEF DataOK
    <3>2. Due(user, t)' = Accrued(new, user_rewards'[key], 0)
      BY <2>2, <3>1 DEF Due, GetRewardData, Account
    <3> QED
      BY <3>2 DEF Accrued
  <2> QED
    BY <2>5, <2>6, <2>7
<1>3. CASE total_shares # 0 /\ \E u \in Users :
               /\ UpdateRewards(u) /\ reward_token' = reward_token
               /\ \A other \in Users : other # u => shares'[other] = shares[other]
  <2>1. Due(user, reward_token)' = Due(user, reward_token)
    BY <1>1, <1>3, SettlementKeepsDue
  <2>2. Due(user, reward_token)' = Due(user, t)'
    BY <1>3 DEF Due, GetRewardData, Account
  <2> QED
    BY <2>1, <2>2
<1>4. ASSUME NEW u \in Users, NEW share_amount \in ShareAmounts,
             Deposit(u, share_amount) \/ Withdraw(u, share_amount)
      PROVE  Due(user, t)' = Due(user, t)
  <2>1. /\ UpdateRewards(u) /\ reward_token' = reward_token
        /\ \A other \in Users : other # u => shares'[other] = shares[other]
    BY <1>4, InvParts DEF Deposit, Withdraw
  <2> QED
    BY <2>1, <1>2, <1>3
<1>5. ASSUME NEW token \in Tokens, NEW amount \in RewardAmounts,
             NEW expiration \in 0..MaxExpiration, SetRewards(token, amount, expiration)
      PROVE  Due(user, t)' = Due(user, t)
  <2>1. CASE reward_token' = t
    <3>1. Due(user, reward_token)' = Due(user, reward_token)
      BY <1>1, <1>5, <2>1, SetRewardsKeepsDue
    <3>2. Due(user, reward_token)' = Due(user, t)'
      BY <2>1 DEF Due, GetRewardData, Account
    <3> QED
      BY <3>1, <3>2
  <2>2. CASE reward_token' # t
    <3>1. ~RewardsActive
      BY <1>5, <2>2 DEF SetRewards, ExtendRewards
    <3>2. /\ StartRewards(token, amount, expiration)
          /\ UNCHANGED <<user_rewards, shares, total_shares>>
      BY <1>5, <3>1 DEF SetRewards
    <3>3. token # t /\ reward_data'[t] = data
      BY <1>1, <2>2, <3>2 DEF StartRewards
    <3>4. LoadUpdated(reward_data'[t], total_shares', now) = data
      BY <1>1, <3>2, <3>3, LoadUpdatedOnce
    <3>5. /\ LoadUpdated(reward_data'[t], total_shares', now).index = data.index
          /\ reward_data'[t] # None
          /\ user_rewards'[key] = user_rewards[key]
      BY <1>1, <3>2, <3>3, <3>4
    <3> QED
      BY <3>5, TokenDueUnmoved
  <2> QED
    BY <2>1, <2>2
<1>6. ASSUME NEW u \in Users \ {user}, NEW requested \in Tokens, ClaimRewards(u, requested)
      PROVE  Due(user, t)' = Due(user, t)
  <2>1. u # user
    OBVIOUS
  <2>2. /\ reward_data' = UpdatedRewardData
        /\ user_rewards' = [user_rewards EXCEPT ![AccountKey(t, u)] =
                                [index |-> data.index, accrued |-> 0]]
        /\ UNCHANGED <<shares, total_shares>>
    BY <1>6 DEF ClaimRewards
  <2>3. LoadUpdated(reward_data'[t], total_shares', now) = data
    BY <1>1, <2>2, LoadUpdatedOnce
  <2>4. AccountKey(t, u) # key
    BY <2>1, AccountKeys
  <2>5. user_rewards'[key] = user_rewards[key]
    BY <2>2, <2>4, <1>1
  <2> QED
    BY <1>1, <2>2, <2>3, <2>5, TokenDueUnmoved
<1> QED
  BY <1>4, <1>5, <1>6

=============================================================================
