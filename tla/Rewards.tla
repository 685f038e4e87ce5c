------------------------------ MODULE Rewards ------------------------------
(***************************************************************************)
(* The reward token emissions of the fee vault: src/src/rewards.rs, its    *)
(* callers in src/src/contract.rs and src/src/vault.rs, and the reward     *)
(* storage of src/src/storage.rs.                                          *)
(*                                                                         *)
(* The admin funds a period of rewards.  Until it expires, `eps' tokens a  *)
(* second are shared by all shares: the index of the token is what one     *)
(* share (SCALAR_7 units of it) has earned since the token was first used, *)
(* and a user's account remembers the index it was last settled at.        *)
(* Nothing is paid until a user claims; indices move lazily, when somebody *)
(* calls the contract.                                                     *)
(*                                                                         *)
(* A call is one atomic transaction: one that panics is a stutter.  How a  *)
(* deposit or withdrawal decides the number of shares is in module Vault;  *)
(* here it is any number.                                                  *)
(***************************************************************************)
EXTENDS FixedPoint, Totals

CONSTANTS
    Users,         \* the depositors
    Tokens,        \* the tokens the admin may give as rewards
    None,          \* a storage entry that does not exist
    RewardAmounts, \* amounts a caller may pass to set_rewards
    ShareAmounts,  \* shares that a deposit may mint or a withdrawal burn
    SCALAR_7,      \* constants.rs: 10^7
    U64_MAX,       \* the largest eps
    MaxTime,       \* bound: the last ledger timestamp
    MaxExpiration, \* bound: the last timestamp a caller passes as expiration
    MaxShares,     \* bound: the most shares outstanding
    MaxBalance     \* bound: the most reward tokens the vault holds

RewardData  == [eps : Nat, expiration : Nat, index : Nat, last_time : Nat]
UserRewards == [index : Nat, accrued : Nat]

ASSUME UsersAssumption  == IsFiniteSet(Users)
ASSUME NoneAssumption   == None \notin Tokens \cup RewardData \cup UserRewards
ASSUME AmountAssumption == RewardAmounts \subseteq Int /\ ShareAmounts \subseteq Nat \ {0}
ASSUME ScalarAssumption == SCALAR_7 \in Nat \ {0} /\ U64_MAX \in Nat \ {0}
ASSUME BoundAssumption  == /\ MaxTime \in Nat /\ MaxExpiration \in Nat
                           /\ MaxShares \in Nat /\ MaxBalance \in Nat

VARIABLES
    reward_token,  \* storage "RwdToken": the token of the current rewards
    reward_data,   \* storage Rwd(token)
    user_rewards,  \* storage UserRwd(key)
    balance,       \* the reward tokens the contract holds (the token contracts)
    shares,        \* storage Shares(user)
    total_shares,  \* VaultData.total_shares
    now            \* the ledger timestamp

vars == <<reward_token, reward_data, user_rewards, balance, shares, total_shares, now>>

-----------------------------------------------------------------------------
(***************************************************************************)
(* Storage.                                                                *)
(***************************************************************************)

Addresses == Users \cup Tokens

UserRewardKeys == [user : Addresses, token : Addresses]

\* The key that get_user_rewards(user, token) and set_user_rewards(user, token, _)
\* of storage.rs build from their parameters.
UserRwdKey(user, token) == [user |-> user, token |-> token]

\* What rewards.rs calls the account of `user' for `token': it passes the two in the
\* other order.
AccountKey(token, user) == UserRwdKey(token, user)

Account(token, user) == user_rewards[AccountKey(token, user)]

-----------------------------------------------------------------------------
(***************************************************************************)
(* Accrual.  `data' is a RewardData record.                                *)
(***************************************************************************)

\* Mutant: rewards go on after they expire.
AccrueForever(data, total, t) ==
    IF data = None \/ total = 0
    THEN data
    ELSE [data EXCEPT !.index = @ + FixedDivFloor((t - data.last_time) * data.eps,
                                                  total, SCALAR_7),
                      !.last_time = t]

\* The reward data of a token brought to time t.  Nothing moves, not even last_time,
\* while there are no shares.
LoadUpdated(data, total, t) ==
    IF \/ data = None
       \/ data.last_time >= data.expiration
       \/ t = data.last_time
       \/ data.eps = 0
       \/ total = 0
    THEN data
    ELSE LET until == IF t > data.expiration THEN data.expiration ELSE t
         IN  [data EXCEPT !.index = @ + FixedDivFloor((until - data.last_time) * data.eps,
                                                      total, SCALAR_7),
                          !.last_time = t]

\* The reward data of every token, after update_reward_data for the current one.
UpdatedRewardData ==
    IF reward_token = None
    THEN reward_data
    ELSE [reward_data EXCEPT ![reward_token] = LoadUpdated(@, total_shares, now)]

\* Mutant: a user without an account has no past.
NoHistoricalRewards(data, account, user_shares) ==
    IF account = None \/ user_shares = 0 \/ data.index <= account.index
    THEN IF account = None THEN 0 ELSE account.accrued
    ELSE account.accrued
         + FixedMulFloor(user_shares, data.index - account.index, SCALAR_7)

\* What a user with `account' and `user_shares' has accrued at data.index: a user
\* without an account had its shares before the token's first rewards.
Accrued(data, account, user_shares) ==
    LET since == IF account = None THEN 0 ELSE account.index
        past  == IF account = None THEN 0 ELSE account.accrued
    IN  IF user_shares # 0 /\ data.index > since
        THEN past + FixedMulFloor(user_shares, data.index - since, SCALAR_7)
        ELSE past

\* update_rewards, before the shares of `user' change.  An account already at the
\* index is written back as it was.
UpdateRewards(user) ==
    IF reward_token = None \/ UpdatedRewardData[reward_token] = None
    THEN UNCHANGED <<reward_data, user_rewards>>
    ELSE LET data == UpdatedRewardData[reward_token]
         IN  /\ reward_data' = UpdatedRewardData
             /\ user_rewards' =
                  [user_rewards EXCEPT ![AccountKey(reward_token, user)] =
                      [index   |-> data.index,
                       accrued |-> Accrued(data, @, shares[user])]]

\* Mutant: the emissions per second are rounded up.
CalculateEpsUp(amount, period) == -((-amount) \div period)

\* calculate_eps: the emissions per second of `amount' over a period, and what they
\* must be for it not to panic.
CalculateEps(amount, period) == amount \div period

\* Mutant: an amount that does not last the period is accepted.
EpsMayBeZero(eps) == 0 <= eps /\ eps <= U64_MAX

ValidEps(eps) == 0 < eps /\ eps <= U64_MAX

-----------------------------------------------------------------------------
(***************************************************************************)
(* The entry points.                                                       *)
(***************************************************************************)

Init ==
    /\ reward_token = None
    /\ reward_data = [token \in Tokens |-> None]
    /\ user_rewards = [key \in UserRewardKeys |-> None]
    /\ balance = [token \in Tokens |-> 0]
    /\ shares = [user \in Users |-> 0]
    /\ total_shares = 0
    /\ now = 0

\* Mutant: the shares change without a settlement before.
DepositUnsettled(user, share_amount) ==
    /\ total_shares + share_amount <= MaxShares
    /\ shares' = [shares EXCEPT ![user] = @ + share_amount]
    /\ total_shares' = total_shares + share_amount
    /\ UNCHANGED <<reward_token, reward_data, user_rewards, balance, now>>

Deposit(user, share_amount) ==
    /\ total_shares + share_amount <= MaxShares
    /\ UpdateRewards(user)
    /\ shares' = [shares EXCEPT ![user] = @ + share_amount]
    /\ total_shares' = total_shares + share_amount
    /\ UNCHANGED <<reward_token, balance, now>>

Withdraw(user, share_amount) ==
    /\ share_amount <= shares[user]
    /\ share_amount <= total_shares
    /\ UpdateRewards(user)
    /\ shares' = [shares EXCEPT ![user] = @ - share_amount]
    /\ total_shares' = total_shares - share_amount
    /\ UNCHANGED <<reward_token, balance, now>>

\* What is left of the active rewards, and the new amount, over the new period: the
\* token must be the current one and the period may not get shorter.
ExtendRewards(token, amount, expiration) ==
    LET data == UpdatedRewardData[reward_token]
        eps  == CalculateEps(amount + (data.expiration - now) * data.eps, expiration - now)
    IN  /\ token = reward_token
        /\ expiration >= data.expiration
        /\ ValidEps(eps)
        /\ reward_data' = [reward_data EXCEPT ![token] =
                              [eps |-> eps, expiration |-> expiration,
                               index |-> data.index, last_time |-> now]]
        /\ UNCHANGED reward_token

\* Mutant: a new period starts from index zero.
StartFromZero(token, amount, expiration) ==
    LET eps == CalculateEps(amount, expiration - now)
    IN  /\ ValidEps(eps)
        /\ reward_data' = [UpdatedRewardData EXCEPT ![token] =
                              [eps |-> eps, expiration |-> expiration,
                               index |-> 0, last_time |-> now]]
        /\ reward_token' = token

\* New rewards, of any token.  A token used before keeps its index.
StartRewards(token, amount, expiration) ==
    LET old == LoadUpdated(UpdatedRewardData[token], total_shares, now)
        eps == CalculateEps(amount, expiration - now)
    IN  /\ ValidEps(eps)
        /\ reward_data' = [UpdatedRewardData EXCEPT ![token] =
                              [eps |-> eps, expiration |-> expiration,
                               index |-> IF old = None THEN 0 ELSE old.index,
                               last_time |-> now]]
        /\ reward_token' = token

\* The current rewards, if there are any, have not expired.
RewardsActive ==
    /\ reward_token # None
    /\ reward_data[reward_token] # None
    /\ reward_data[reward_token].expiration > now

SetRewards(token, amount, expiration) ==
    /\ expiration > now
    /\ amount > 0
    /\ balance[token] + amount <= MaxBalance
    /\ balance' = [balance EXCEPT ![token] = @ + amount]
    /\ IF RewardsActive THEN ExtendRewards(token, amount, expiration)
                        ELSE StartRewards(token, amount, expiration)
    /\ UNCHANGED <<user_rewards, shares, total_shares, now>>

\* claim_rewards of contract.rs: `requested' only goes into the event; the token paid
\* is the current one.
ClaimRewards(user, requested) ==
    /\ reward_token # None
    /\ UpdatedRewardData[reward_token] # None
    /\ LET data   == UpdatedRewardData[reward_token]
           amount == Accrued(data, Account(reward_token, user), shares[user])
       IN  /\ amount <= balance[reward_token]
           /\ reward_data' = UpdatedRewardData
           /\ user_rewards' = [user_rewards EXCEPT ![AccountKey(reward_token, user)] =
                                  [index |-> data.index, accrued |-> 0]]
           /\ balance' = [balance EXCEPT ![reward_token] = @ - amount]
    /\ UNCHANGED <<reward_token, shares, total_shares, now>>

Tick ==
    /\ now < MaxTime
    /\ now' = now + 1
    /\ UNCHANGED <<reward_token, reward_data, user_rewards, balance, shares, total_shares>>

Next ==
    \/ \E user \in Users, share_amount \in ShareAmounts : Deposit(user, share_amount)
    \/ \E user \in Users, share_amount \in ShareAmounts : Withdraw(user, share_amount)
    \/ \E token \in Tokens, amount \in RewardAmounts, expiration \in 0..MaxExpiration :
           SetRewards(token, amount, expiration)
    \/ \E user \in Users, requested \in Tokens : ClaimRewards(user, requested)
    \/ Tick

Spec == Init /\ [][Next]_vars

\* get_rewards of contract.rs.
GetRewards(user, token) == user_rewards[UserRwdKey(user, token)]

\* get_reward_data of contract.rs.
GetRewardData(token) == LoadUpdated(reward_data[token], total_shares, now)

-----------------------------------------------------------------------------
(***************************************************************************)
(* Safety.                                                                 *)
(***************************************************************************)

\* What `user' would be paid for `token', if it were the current reward token.
Due(user, token) ==
    IF GetRewardData(token) = None THEN 0
    ELSE Accrued(GetRewardData(token), Account(token, user), shares[user])

\* What a user with `account' and `user_shares' has earned at data.index and not been
\* paid, in units of 1/SCALAR_7 token and before the rounding of Accrued.
Earned(data, account, user_shares) ==
    LET since == IF account = None THEN 0 ELSE account.index
        past  == IF account = None THEN 0 ELSE account.accrued
    IN  past * SCALAR_7 + user_shares * (data.index - since)

\* What the rest of the period will emit.
Unemitted(data) ==
    IF data.last_time < data.expiration
    THEN (data.expiration - data.last_time) * data.eps
    ELSE 0

\* What all users together would be paid for `token'.
DueTogether(token) == Total(Users, [user \in Users |-> Due(user, token)])

\* Every variable has its type; a current reward token has reward data, which was
\* last settled at some time that has passed, and emits something that fits in a u64.
TypeOK ==
    /\ reward_token \in Tokens \cup {None}
    /\ reward_data \in [Tokens -> RewardData \cup {None}]
    /\ user_rewards \in [UserRewardKeys -> UserRewards \cup {None}]
    /\ balance \in [Tokens -> Nat]
    /\ shares \in [Users -> Nat]
    /\ total_shares \in Nat
    /\ now \in Nat
    /\ reward_token # None => reward_data[reward_token] # None
    /\ \A token \in Tokens :
           reward_data[token] # None
           => /\ reward_data[token].last_time <= now
              /\ reward_data[token].eps \in 1..U64_MAX

\* The vault holds what all users together can claim of the current reward token.
\* contract.rs: the full reward_amount is "transferred to the vault to be distributed
\* to the users until the `expiration` timestamp"; a claim never fails, whoever is
\* first, however often the users and the admin change shares and rewards.
RewardsCovered ==
    reward_token # None => DueTogether(reward_token) <= balance[reward_token]

\* No token is promised twice: what the users have earned and what the rest of the
\* period will emit are together within what the vault holds, and what the users have
\* earned is counted for exactly the shares that the index is divided among.  It is
\* why RewardsCovered holds, at every later time too.
RewardsFunded ==
    /\ total_shares = Total(Users, shares)
    /\ reward_token # None
       => LET data   == reward_data[reward_token]
              earned == [user \in Users |->
                            Earned(data, Account(reward_token, user), shares[user])]
          IN  Total(Users, earned) + Unemitted(data) * SCALAR_7
              <= balance[reward_token] * SCALAR_7

\* `token' is new, or every holder of shares has an account of it at the index it has now:
\* no holder would be paid for a time before it came, or with shares it did not have.
SettledAtIndex(token) ==
    \/ reward_data[token] = None
    \/ \A user \in Users :
           shares[user] # 0
           => /\ Account(token, user) # None
              /\ Account(token, user).index = reward_data[token].index

\* The admin returns to a reward token that it has used before only when everybody who
\* holds shares was settled at its index.  The code does not see to it.
ReturnsSettled ==
    [][reward_token' # reward_token => SettledAtIndex(reward_token')]_vars

\* A user's account is never ahead of the index of its token: otherwise the user
\* would earn nothing until the index caught up.  Indices survive the end of a period
\* and a change of the token.
AccountsBehindIndex ==
    \A user \in Users, token \in Tokens :
        Account(token, user) # None
        => /\ reward_data[token] # None
           /\ Account(token, user).index <= reward_data[token].index

-----------------------------------------------------------------------------
(***************************************************************************)
(* Action properties.                                                      *)
(***************************************************************************)

\* What a user is due of the current reward token, and what it has been paid of it,
\* stand still while the clock does.
DueKept(user) ==
    LET t == reward_token
    IN  \/ Due(user, t)' = Due(user, t)
        \/ Due(user, t)' = 0 /\ balance'[t] = balance[t] - Due(user, t)

\* Rewards are earned by holding shares over time (README, Rewards) and by nothing
\* else: no deposit, withdrawal, claim or change of the rewards, by whomever, gives a
\* user rewards or takes some away at the instant it happens, except that a claim
\* pays exactly what the user was due.  The settlement of one user at a new index
\* changes nothing for the others.
RewardsEarnedOverTime ==
    [][\/ now' # now
       \/ reward_token = None
       \/ reward_token' # reward_token
       \/ total_shares = 0
       \/ \A user \in Users : DueKept(user)]_vars

\* One second, while `user' holds shares and the clock moves: up to the rounding of the
\* index and of its own accrual the user gains its part of `eps', and nothing after
\* the expiration.
EarnsItsPart(user) ==
    LET t     == reward_token
        gain  == Due(user, t)' - Due(user, t)
        eps   == reward_data[t].eps
    IN  IF now < reward_data[t].expiration
        THEN /\ shares[user] * (eps * SCALAR_7 - total_shares)
                < (gain + 1) * SCALAR_7 * total_shares
             /\ (gain - 1) * SCALAR_7 * total_shares
                < shares[user] * (eps * SCALAR_7 + total_shares)
        ELSE gain = 0

\* README, Rewards: rewards "are distributed equally to all vault `share` holders".
\* Every holder earns its part in every second of the period, whenever it was last
\* settled, and also if it has no account because it came before the rewards.
HoldersEarnTheirPart ==
    [][now' # now /\ reward_token # None /\ total_shares > 0
       => \A user \in Users : EarnsItsPart(user)]_vars

\* RewardsEarnedOverTime also when no shares are outstanding: a first deposit is not due
\* any rewards for the time before it.  README: "All rewards are issued based on vault
\* `shares` held over time".
NothingForTheGap ==
    [][now' # now \/ \A user \in Users, token \in Tokens :
                          Due(user, token)' <= Due(user, token)]_vars

\* contract.rs, claim_rewards: its reward_token is "The address of the reward token to
\* claim".  A claim pays no other token.
ClaimPaysRequested ==
    [][\A user \in Users, requested \in Tokens :
           ClaimRewards(user, requested)
           => \A token \in Tokens \ {requested} : balance'[token] = balance[token]]_vars

\* contract.rs, get_rewards: "Fetch a user's rewards for a specific token".  It shows
\* an account to a user who has just claimed that token.
RewardsShown ==
    [][\A user \in Users, token \in Tokens :
           ClaimRewards(user, token) /\ reward_token = token
           => GetRewards(user, token)' # None]_vars

=============================================================================
