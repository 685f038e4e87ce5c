--------------------------- MODULE FeeVaultProofs --------------------------
(***************************************************************************)
(* Proofs about FeeVault.  The contract takes the steps of the vault and,  *)
(* with the shares that the vault computes, those of the reward emissions: *)
(* what is proved of each of the two holds of the whole contract.  Then,   *)
(* of the contract itself: the events tell the ledger, and nothing moves   *)
(* without the consent of its owner.                                       *)
(***************************************************************************)
EXTENDS FeeVault, VaultProofs

-----------------------------------------------------------------------------
(***************************************************************************)
(* Every transaction is a call of the vault or leaves it alone.  This is   *)
(* by the form of FeeVault, which conjoins the actions of Vault; it lets   *)
(* the theorems of VaultProofs be cited below.                             *)
(***************************************************************************)

\* Roles, emissions and rewards do not touch the accounting.
LEMMA TransactionIsVaultStep ==
    ASSUME NEW signed, Transaction(signed)
    PROVE  Next \/ UNCHANGED vars
  <1>1. CASE \E user \in Users, amount \in Amounts : CallDeposit(signed, user, amount)
    BY <1>1 DEF CallDeposit, Next
  <1>2. CASE \E user \in Users, amount \in Amounts : CallWithdraw(signed, user, amount)
    BY <1>2 DEF CallWithdraw, Next
  <1>3. CASE \E amount \in Amounts : CallAdminDeposit(signed, amount)
    BY <1>3 DEF CallAdminDeposit, Next
  <1>4. CASE \E amount \in Amounts : CallAdminWithdraw(signed, amount)
    BY <1>4 DEF CallAdminWithdraw, Next
  <1>5. CASE \E f \in FeeConfigs : CallSetFee(signed, f)
    BY <1>5 DEF CallSetFee, Next
  <1>6. CASE \/ \E new_admin \in RoleHolders : CallSetAdmin(signed, new_admin)
             \/ \E new_signer \in RoleHolders \cup {None} : CallSetSigner(signed, new_signer)
             \/ CallClaimEmissions(signed)
    BY <1>6 DEF CallSetAdmin, CallSetSigner, CallClaimEmissions
  <1>7. CASE \E token \in Tokens, amount \in RewardAmounts, expiration \in 0..MaxExpiration :
                CallSetRewards(signed, token, amount, expiration)
    BY <1>7 DEF CallSetRewards, R!SetRewards, vars
  <1>8. CASE \E user \in Users, requested \in Tokens : CallClaimRewards(signed, user, requested)
    BY <1>8 DEF CallClaimRewards, R!ClaimRewards, vars
  <1>9. QED
    BY <1>1, <1>2, <1>3, <1>4, <1>5, <1>6, <1>7, <1>8 DEF Transaction

\* Every behaviour of the contract is one of the vault.
LEMMA ContractIsVault == ContractSpec => Spec
  <1>1. ContractInit => Init
    BY DEF ContractInit
  <1>2. [ContractNext]_contractVars => [Next]_vars
    BY TransactionIsVaultStep DEF ContractNext, Environment, Next, contractVars
  <1>3. QED
    BY <1>1, <1>2, PTL DEF ContractSpec, Spec

-----------------------------------------------------------------------------
(***************************************************************************)
(* The contract implements Rewards.  The number of shares that Rewards     *)
(* leaves open is the one that Vault computes: it must be shown to be one  *)
(* that a deposit may mint and a withdrawal burn.  For that the shares     *)
(* have to be within the bound, which is an invariant of its own.          *)
(***************************************************************************)

ContractInv == Inv /\ vault.total_shares <= MaxShares

\* A deposit mints a positive number of shares and adds it to user and total.
LEMMA DepositMints ==
    ASSUME Inv, NEW user \in Users, NEW amount \in Amounts, Deposit(user, amount)
    PROVE  \E s \in 1..MaxShares :
               /\ vault.total_shares + s <= MaxShares
               /\ shares' = [shares EXCEPT ![user] = @ + s]
               /\ vault'.total_shares = vault.total_shares + s
  <1>. DEFINE v == GetVaultUpdated
              b == UnderlyingToBTokensDown(v, amount)
              s == BTokensToSharesDown(v, b)
  <1>1. /\ v \in VaultRecord /\ Priced(v)
        /\ v.total_shares = vault.total_shares /\ v.total_shares \in Nat
    BY Settled DEF VaultRecord
  <1>2. amount \in Int /\ b > 0 /\ s > 0
    BY AmountsAssumption DEF Deposit
  <1>3. b \in Int
    <2>1. v.b_rate \in Int /\ v.b_rate > 0 /\ SCALAR_12 \in Int
      BY <1>1, ScalarAssumption DEF VaultRecord
    <2>2. QED
      BY <1>2, <2>1, FixedDivFloorBounds DEF UnderlyingToBTokensDown
  <1>4. s \in Int
    BY <1>1, <1>2, <1>3, MintBounds
  <1>5. /\ v.total_shares + s <= MaxShares
        /\ vault' = [v EXCEPT !.total_shares = v.total_shares + s,
                              !.total_b_tokens = v.total_b_tokens + b]
        /\ shares' = [shares EXCEPT ![user] = @ + s]
    BY DEF Deposit
  <1>6. v.total_shares + s = vault'.total_shares
    BY <1>1, <1>5 DEF VaultRecord
  <1>7. s \in 1..MaxShares
    BY <1>1, <1>2, <1>4, <1>5, BoundAssumption
  <1>. HIDE DEF s
  <1>8. QED
    BY <1>1, <1>5, <1>6, <1>7

\* A withdrawal burns a positive number of shares, which the user has, whether it is
\* cut down to the user's balance or not.
LEMMA WithdrawBurns ==
    ASSUME ContractInv, NEW user \in Users, NEW amount \in Amounts, Withdraw(user, amount)
    PROVE  \E s \in 1..MaxShares :
               /\ s <= shares[user] /\ s <= vault.total_shares
               /\ shares' = [shares EXCEPT ![user] = @ - s]
               /\ vault'.total_shares = vault.total_shares - s
  <1>. DEFINE v == GetVaultUpdated
              w == Withdrawal(v, shares[user], amount)
  <1>1. /\ v \in VaultRecord /\ Priced(v)
        /\ v.total_shares = vault.total_shares /\ v.total_shares \in Nat
        /\ shares[user] \in Nat /\ shares[user] <= v.total_shares
    BY Settled DEF VaultRecord, ContractInv
  <1>2. amount \in Int /\ WithdrawalAccepted(v, shares[user], amount)
    BY AmountsAssumption DEF Withdraw
  <1>3. w.shares \in Nat /\ w.shares <= shares[user]
    BY <1>1, <1>2, WithdrawalBounds
  <1>4. w.shares # 0
    BY <1>1, <1>2 DEF Withdrawal, FullWithdrawal, WithdrawalAccepted
  <1>5. /\ vault' = [v EXCEPT !.total_shares = @ - w.shares,
                              !.total_b_tokens = @ - w.b_tokens]
        /\ shares' = [shares EXCEPT ![user] = @ - w.shares]
    BY DEF Withdraw
  <1>. HIDE DEF w
  <1>6. vault'.total_shares = v.total_shares - w.shares
    BY <1>1, <1>5 DEF VaultRecord
  <1>7. w.shares \in 1..MaxShares
    BY <1>1, <1>3, <1>4, BoundAssumption DEF ContractInv
  <1>8. w.shares <= vault.total_shares /\ vault'.total_shares = vault.total_shares - w.shares
    BY <1>1, <1>3, <1>6
  <1>. HIDE DEF v
  <1>9. QED
    BY <1>3, <1>5, <1>7, <1>8

\* Nothing else changes the total: settling moves b_tokens, not shares.
LEMMA OtherCallsKeepShares ==
    ASSUME Inv,
           \/ \E amount \in Amounts : AdminDeposit(amount) \/ AdminWithdraw(amount)
           \/ \E f \in FeeConfigs : SetFee(f)
    PROVE  vault'.total_shares = vault.total_shares /\ UNCHANGED <<shares, now>>
  <1>1. /\ GetVaultUpdated \in VaultRecord
        /\ GetVaultUpdated.total_shares = vault.total_shares
    BY Settled
  <1>2. CASE \E amount \in Amounts : AdminDeposit(amount)
    BY <1>1, <1>2 DEF AdminDeposit, VaultRecord
  <1>3. CASE \E amount \in Amounts : AdminWithdraw(amount)
    BY <1>1, <1>3 DEF AdminWithdraw, VaultRecord
  <1>4. CASE \E f \in FeeConfigs : SetFee(f)
    BY <1>1, <1>4 DEF SetFee
  <1>5. QED
    BY <1>2, <1>3, <1>4

\* A deposit or withdrawal of the contract is one of Rewards, of as many shares.
LEMMA UserCallIsRewardsStep ==
    ASSUME ContractInv, NEW signed, NEW user \in Users, NEW amount \in Amounts,
           CallDeposit(signed, user, amount) \/ CallWithdraw(signed, user, amount)
    PROVE  \E s \in 1..MaxShares : R!Deposit(user, s) \/ R!Withdraw(user, s)
  <1>. USE DEF ContractInv
  <1>1. CASE CallDeposit(signed, user, amount)
    <2>1. /\ Deposit(user, amount) /\ R!UpdateRewards(user)
          /\ UNCHANGED <<reward_token, balance, now>>
      BY <1>1 DEF CallDeposit, Deposit
    <2>2. PICK s \in 1..MaxShares :
                  /\ vault.total_shares + s <= MaxShares
                  /\ shares' = [shares EXCEPT ![user] = @ + s]
                  /\ vault'.total_shares = vault.total_shares + s
      BY <2>1, DepositMints
    <2>3. QED
      BY <2>1, <2>2 DEF R!Deposit
  <1>2. CASE CallWithdraw(signed, user, amount)
    <2>1. /\ Withdraw(user, amount) /\ R!UpdateRewards(user)
          /\ UNCHANGED <<reward_token, balance, now>>
      BY <1>2 DEF CallWithdraw, Withdraw
    <2>2. PICK s \in 1..MaxShares :
                  /\ s <= shares[user] /\ s <= vault.total_shares
                  /\ shares' = [shares EXCEPT ![user] = @ - s]
                  /\ vault'.total_shares = vault.total_shares - s
      BY <2>1, WithdrawBurns
    <2>3. QED
      BY <2>1, <2>2 DEF R!Withdraw
  <1>3. QED
    BY <1>1, <1>2

\* Every transaction is a call of Rewards, or leaves it alone.
LEMMA TransactionIsRewardsStep ==
    ASSUME ContractInv, NEW signed, Transaction(signed)
    PROVE  R!Next \/ UNCHANGED R!vars
  <1>. USE DEF ContractInv
  <1>1. CASE \E user \in Users, amount \in Amounts :
                 CallDeposit(signed, user, amount) \/ CallWithdraw(signed, user, amount)
    BY <1>1, UserCallIsRewardsStep DEF R!Next
  <1>2. CASE \/ \E amount \in Amounts : \/ CallAdminDeposit(signed, amount)
                                        \/ CallAdminWithdraw(signed, amount)
             \/ \E f \in FeeConfigs : CallSetFee(signed, f)
    <2>1. /\ \/ \E amount \in Amounts : AdminDeposit(amount) \/ AdminWithdraw(amount)
             \/ \E f \in FeeConfigs : SetFee(f)
          /\ UNCHANGED rewardVars
      BY <1>2 DEF CallAdminDeposit, CallAdminWithdraw, CallSetFee
    <2>2. QED
      BY <2>1, OtherCallsKeepShares DEF R!vars, rewardVars
  <1>3. CASE \/ \E new_admin \in RoleHolders : CallSetAdmin(signed, new_admin)
             \/ \E new_signer \in RoleHolders \cup {None} : CallSetSigner(signed, new_signer)
             \/ CallClaimEmissions(signed)
    BY <1>3 DEF CallSetAdmin, CallSetSigner, CallClaimEmissions, R!vars, vars, rewardVars
  <1>4. CASE \E token \in Tokens, amount \in RewardAmounts, expiration \in 0..MaxExpiration :
                CallSetRewards(signed, token, amount, expiration)
    BY <1>4 DEF CallSetRewards, R!Next
  <1>5. CASE \E user \in Users, requested \in Tokens : CallClaimRewards(signed, user, requested)
    BY <1>5 DEF CallClaimRewards, R!Next
  <1>6. QED
    BY <1>1, <1>2, <1>3, <1>4, <1>5 DEF Transaction

\* The pool and the clock are, for Rewards, the clock.
LEMMA EnvironmentIsRewardsStep ==
    ASSUME Environment
    PROVE  R!Next \/ UNCHANGED R!vars
  <1>1. CASE PoolRateMoves
    BY <1>1 DEF Environment, PoolRateMoves, R!vars, rewardVars
  <1>2. CASE Tick
    BY <1>2 DEF Environment, Tick, R!Next, R!Tick, rewardVars
  <1>3. QED
    BY <1>1, <1>2 DEF Environment

\* The bound on the shares is kept: only deposits add shares, and they check it.
LEMMA BoundKept == ContractInv /\ [Next]_vars => vault'.total_shares <= MaxShares
  <1>1. SUFFICES ASSUME ContractInv, [Next]_vars
                 PROVE  vault'.total_shares <= MaxShares
    OBVIOUS
  <1>2. vault.total_shares \in Nat /\ vault.total_shares <= MaxShares /\ Inv
    BY <1>1 DEF ContractInv, Inv, TypeOK
  <1>3. CASE \E user \in Users, amount \in Amounts : Deposit(user, amount)
    BY <1>2, <1>3, DepositMints, BoundAssumption
  <1>4. CASE \E user \in Users, amount \in Amounts : Withdraw(user, amount)
    BY <1>1, <1>2, <1>4, WithdrawBurns, BoundAssumption
  <1>5. CASE \/ \E amount \in Amounts : AdminDeposit(amount) \/ AdminWithdraw(amount)
             \/ \E f \in FeeConfigs : SetFee(f)
    BY <1>2, <1>5, OtherCallsKeepShares
  <1>6. CASE PoolRateMoves \/ Tick \/ UNCHANGED vars
    BY <1>2, <1>6 DEF PoolRateMoves, Tick, vars
  <1>7. QED
    BY <1>1, <1>3, <1>4, <1>5, <1>6 DEF Next

\* The books of the vault are right in every state of the contract.
THEOREM ContractInvariance == ContractSpec => []ContractInv
  <1>1. ContractInit => ContractInv
    BY InitInv, BoundAssumption DEF ContractInit, Init, ContractInv
  <1>2. ContractInv /\ [ContractNext]_contractVars => ContractInv'
    <2>1. [ContractNext]_contractVars => [Next]_vars
      BY TransactionIsVaultStep DEF ContractNext, Environment, Next, contractVars
    <2>2. QED
      BY <2>1, StepInv, BoundKept DEF ContractInv
  <1>3. QED
    BY <1>1, <1>2, PTL DEF ContractSpec

\* The whole contract implements the emissions of Rewards, so that every theorem of
\* RewardsProofs holds of it: no call changes a user's shares without settling its
\* rewards at the shares it had before.
THEOREM RewardsTheorem == ContractSpec => ImplementsRewards
  <1>1. ContractInit => R!Init
    BY DEF ContractInit
  <1>2. ContractInv /\ [ContractNext]_contractVars => [R!Next]_(R!vars)
    <2>1. SUFFICES ASSUME ContractInv, [ContractNext]_contractVars
                   PROVE  R!Next \/ UNCHANGED R!vars
      OBVIOUS
    <2>2. CASE ContractNext
      BY <2>1, <2>2, TransactionIsRewardsStep, EnvironmentIsRewardsStep DEF ContractNext
    <2>3. CASE UNCHANGED contractVars
      BY <2>3 DEF contractVars, vars, rewardVars, R!vars
    <2>4. QED
      BY <2>1, <2>2, <2>3
  <1>3. QED
    BY <1>1, <1>2, ContractInvariance, PTL DEF ContractSpec, ImplementsRewards, R!Spec

-----------------------------------------------------------------------------
(***************************************************************************)
(* What is proved of Rewards holds of the contract: RP is RewardsProofs    *)
(* and RewardsEarnedProofs, instantiated as FeeVault instantiates Rewards. *)
(***************************************************************************)

RP == INSTANCE RewardsEarnedProofs WITH ShareAmounts <- 1..MaxShares,
                                        total_shares <- vault.total_shares

\* What Rewards assumes of its constants is so in the contract.
LEMMA RewardsAssumptions ==
    /\ RP!IsFiniteSet(Users)
    /\ None \notin Tokens \cup RP!RewardData \cup RP!UserRewards
    /\ RewardAmounts \subseteq Int /\ 1..MaxShares \subseteq Nat \ {0}
    /\ SCALAR_7 \in Nat \ {0} /\ U64_MAX \in Nat \ {0}
    /\ MaxTime \in Nat /\ MaxExpiration \in Nat /\ MaxShares \in Nat /\ MaxBalance \in Nat
<1>1. RP!IsFiniteSet(Users)
  BY UsersAssumption DEF RP!IsFiniteSet, IsFiniteSet
<1> QED
  BY <1>1, EmissionsAssumption, BoundAssumption, ScalarAssumption
  DEF R!RewardData, RP!RewardData, R!UserRewards, RP!UserRewards

\* The two instances take the same steps.
LEMMA SameCalls ==
    /\ \A user, n : /\ R!Deposit(user, n) <=> RP!Deposit(user, n)
                    /\ R!Withdraw(user, n) <=> RP!Withdraw(user, n)
    /\ \A token, amount, expiration :
           R!SetRewards(token, amount, expiration) <=> RP!SetRewards(token, amount, expiration)
    /\ \A user, token : R!ClaimRewards(user, token) <=> RP!ClaimRewards(user, token)
BY
  DEF R!Deposit, RP!Deposit, R!Withdraw, RP!Withdraw, R!SetRewards, RP!SetRewards,
      R!ClaimRewards, RP!ClaimRewards, R!UpdateRewards, RP!UpdateRewards,
      R!UpdatedRewardData, RP!UpdatedRewardData, R!LoadUpdated, RP!LoadUpdated,
      R!Accrued, RP!Accrued, R!Account, RP!Account, R!AccountKey, RP!AccountKey,
      R!UserRwdKey, RP!UserRwdKey, R!ExtendRewards, RP!ExtendRewards, R!StartRewards,
      RP!StartRewards, R!RewardsActive, RP!RewardsActive, R!CalculateEps,
      RP!CalculateEps, R!ValidEps, RP!ValidEps, R!FixedDivFloor, RP!FixedDivFloor,
      R!FixedMulFloor, RP!FixedMulFloor

\* The two specifications are the same.
LEMMA SameSpec == R!Spec <=> RP!Spec
<1>1. R!Init <=> RP!Init
  BY DEF R!Init, RP!Init, R!UserRewardKeys, RP!UserRewardKeys, R!Addresses, RP!Addresses
<1>2. [R!Next]_(R!vars) <=> [RP!Next]_(RP!vars)
  BY SameCalls DEF R!Next, RP!Next, R!Tick, RP!Tick, R!vars, RP!vars
<1> QED
  BY <1>1, <1>2, PTL DEF R!Spec, RP!Spec

\* The books of the emissions are right in every state of the contract.
THEOREM ContractRewardsInvariance == ContractSpec => []RP!Inv
BY RewardsTheorem, RewardsAssumptions, SameSpec, RP!Invariance, PTL DEF ImplementsRewards

\* What is due, in the two instances.
LEMMA SameDue ==
    ASSUME NEW user, NEW token
    PROVE  R!Due(user, token) = RP!Due(user, token) /\ R!Due(user, token)' = RP!Due(user, token)'
BY DEF R!Due, RP!Due, R!GetRewardData, RP!GetRewardData, R!LoadUpdated, RP!LoadUpdated,
       R!Accrued, RP!Accrued, R!Account, RP!Account, R!AccountKey, RP!AccountKey,
       R!UserRwdKey, RP!UserRwdKey, R!FixedDivFloor, RP!FixedDivFloor,
       R!FixedMulFloor, RP!FixedMulFloor

\* A user's rewards in the contract: accounts are never ahead of the index, only time
\* earns rewards, and every holder earns its part.  The shares and the total are those
\* that the vault computes, at whatever price.
THEOREM ContractRewards ==
    ContractSpec => []R!AccountsBehindIndex /\ R!RewardsEarnedOverTime /\ R!HoldersEarnTheirPart
<1>1. ContractSpec => RP!Spec
  BY RewardsTheorem, SameSpec, PTL DEF ImplementsRewards
<1>2. /\ RP!Spec => []RP!AccountsBehindIndex
      /\ RP!Spec => RP!RewardsEarnedOverTime
      /\ RP!Spec => RP!HoldersEarnTheirPart
  BY RewardsAssumptions, RP!AccountsTheorem, RP!EarnedOverTimeTheorem, RP!HoldersTheorem
<1>3. RP!AccountsBehindIndex <=> R!AccountsBehindIndex
  BY DEF R!AccountsBehindIndex, RP!AccountsBehindIndex, R!Account, RP!Account,
         R!AccountKey, RP!AccountKey, R!UserRwdKey, RP!UserRwdKey
<1>4. RP!RewardsEarnedOverTime <=> R!RewardsEarnedOverTime
  <2>1. \A user \in Users : R!DueKept(user) <=> RP!DueKept(user)
    BY SameDue DEF R!DueKept, RP!DueKept
  <2>2. [\/ now' # now
          \/ reward_token = None
          \/ reward_token' # reward_token
          \/ vault.total_shares = 0
          \/ \A user \in Users : R!DueKept(user)]_(R!vars)
        <=> [\/ now' # now
          \/ reward_token = None
          \/ reward_token' # reward_token
          \/ vault.total_shares = 0
          \/ \A user \in Users : RP!DueKept(user)]_(RP!vars)
    BY <2>1 DEF R!vars, RP!vars
  <2> QED
    BY <2>2, PTL DEF R!RewardsEarnedOverTime, RP!RewardsEarnedOverTime
<1>5. RP!HoldersEarnTheirPart <=> R!HoldersEarnTheirPart
  <2>1. \A user \in Users : R!EarnsItsPart(user) <=> RP!EarnsItsPart(user)
    BY SameDue DEF R!EarnsItsPart, RP!EarnsItsPart
  <2>2. [now' # now /\ reward_token # None /\ vault.total_shares > 0
         => \A user \in Users : R!EarnsItsPart(user)]_(R!vars)
        <=> [now' # now /\ reward_token # None /\ vault.total_shares > 0
         => \A user \in Users : RP!EarnsItsPart(user)]_(RP!vars)
    BY <2>1 DEF R!vars, RP!vars
  <2> QED
    BY <2>2, PTL DEF R!HoldersEarnTheirPart, RP!HoldersEarnTheirPart
<1> QED
  BY <1>1, <1>2, <1>3, <1>4, <1>5, PTL

\* As long as the admin returns to a reward token only when every holder of shares was
\* settled at its index, the contract holds what all
\* users together are due, and what the rest of the period will emit.
THEOREM ContractRewardsCovered ==
    ContractSpec /\ R!ReturnsSettled => []R!RewardsCovered /\ []R!RewardsFunded
<1>1. ContractSpec => RP!Spec
  BY RewardsTheorem, SameSpec, PTL DEF ImplementsRewards
<1>2. /\ RP!Spec /\ RP!ReturnsSettled => []RP!RewardsCovered
      /\ RP!Spec /\ RP!ReturnsSettled => []RP!RewardsFunded
  BY RewardsAssumptions, RP!CoveredTheorem, RP!FundedTheorem
<1>3. R!ReturnsSettled <=> RP!ReturnsSettled
  BY DEF R!ReturnsSettled, RP!ReturnsSettled, R!vars, RP!vars,
         R!SettledAtIndex, RP!SettledAtIndex, R!Account, RP!Account,
         R!AccountKey, RP!AccountKey, R!UserRwdKey, RP!UserRwdKey
<1>4. \A n : R!Total(Users, n) = RP!Total(Users, n)
  BY DEF R!Total, RP!Total, R!Units, RP!Units, R!Cardinality, RP!Cardinality
<1>5. R!RewardsCovered <=> RP!RewardsCovered
  <2>1. \A token : [user \in Users |-> R!Due(user, token)]
                    = [user \in Users |-> RP!Due(user, token)]
    BY SameDue
  <2>2. \A token : R!DueTogether(token) = RP!DueTogether(token)
    BY <2>1, <1>4 DEF R!DueTogether, RP!DueTogether
  <2> QED
    BY <2>2 DEF R!RewardsCovered, RP!RewardsCovered
<1>6. R!RewardsFunded <=> RP!RewardsFunded
  BY <1>4 DEF R!RewardsFunded, RP!RewardsFunded, R!Earned, RP!Earned, R!Unemitted, RP!Unemitted,
     R!Account, RP!Account, R!AccountKey, RP!AccountKey, R!UserRwdKey, RP!UserRwdKey
<1> QED
  BY <1>1, <1>2, <1>3, <1>5, <1>6, PTL

-----------------------------------------------------------------------------
(***************************************************************************)
(* What the events tell.                                                   *)
(***************************************************************************)

\* The types that a difference in the ledger is counted with.
LEMMA LedgerTyped ==
    ASSUME ContractInv, RP!Inv
    PROVE  /\ shares \in [Users -> Nat] /\ balance \in [Tokens -> Nat]
           /\ pool \in [b_rate : Nat \ {0}, b_tokens : Int]
           /\ GetVaultUpdated.b_rate = pool.b_rate
BY Settled DEF ContractInv, Inv, TypeOK, RP!Inv, RP!TypeOK

\* A deposit is told: the shares the user gets, and the b_tokens the pool mints.
LEMMA DepositTells ==
    ASSUME ContractInv, RP!Inv, NEW signed, NEW user \in Users, NEW amount \in Amounts,
           CallDeposit(signed, user, amount)
    PROVE  EventTells
<1> DEFINE v == GetVaultUpdated
           b == UnderlyingToBTokensDown(v, amount)
           s == BTokensToSharesDown(v, b)
<1>1. /\ event' = DepositEvent(user, amount, s, b) /\ UNCHANGED <<balance, reward_token>>
      /\ Deposit(user, amount)
  BY DEF CallDeposit
<1>2. event'.name = "vault_deposit" /\ event'.topics = <<PoolAddress, user>>
      /\ event'.data[2] = s /\ event'.data[3] = b
  BY <1>1 DEF DepositEvent, PoolEvent
<1>3. /\ shares' = [shares EXCEPT ![user] = @ + s] /\ fee' = fee
      /\ pool' = [pool EXCEPT !.b_tokens = @ + b] /\ s > 0
  <2>1. amount \in Int
    BY AmountsAssumption
  <2> QED
    BY <1>1, <2>1, PoolAgrees, LedgerTyped DEF Deposit, PoolSupply
<1>4. b \in Int /\ s \in Int
  <2>1. /\ v \in VaultRecord /\ Priced(v) /\ v.b_rate \in Int /\ v.b_rate > 0
        /\ SCALAR_12 \in Int /\ amount \in Int
    BY Settled, ScalarAssumption, AmountsAssumption DEF VaultRecord, ContractInv
  <2>2. b \in Int
    BY <2>1, FixedDivFloorBounds DEF UnderlyingToBTokensDown
  <2>3. b > 0
    BY <1>1 DEF Deposit
  <2> QED
    BY <2>1, <2>2, <2>3, MintBounds
<1> HIDE DEF b, s
<1>5. \A u \in Users : shares'[u] # shares[u] => u = user
  BY <1>3, LedgerTyped
<1>6. shares'[user] - shares[user] = s /\ pool'.b_tokens - pool.b_tokens = b
  BY <1>3, <1>4, LedgerTyped
<1> QED
  BY <1>1, <1>2, <1>3, <1>5, <1>6 DEF EventTells

\* A withdrawal is told as it happens, also one that is cut down to what the user has.
LEMMA WithdrawTells ==
    ASSUME ContractInv, RP!Inv, NEW signed, NEW user \in Users, NEW amount \in Amounts,
           CallWithdraw(signed, user, amount)
    PROVE  EventTells
<1> DEFINE v == GetVaultUpdated
           w == Withdrawal(v, shares[user], amount)
<1>1. /\ event' = WithdrawEvent(user, amount, w.shares, w.b_tokens)
      /\ UNCHANGED <<balance, reward_token>>
      /\ Withdraw(user, amount)
  BY DEF CallWithdraw
<1>2. event'.name = "vault_withdraw" /\ event'.topics = <<PoolAddress, user>>
      /\ event'.data[2] = w.shares /\ event'.data[3] = w.b_tokens
  BY <1>1 DEF WithdrawEvent, PoolEvent
<1>3. /\ w.shares \in Nat /\ w.b_tokens \in Nat /\ w.underlying \in Nat
      /\ w.b_tokens = UnderlyingToBTokensUp(v, w.underlying)
  <2>1. /\ v \in VaultRecord /\ Priced(v) /\ shares[user] \in Nat
        /\ shares[user] <= v.total_shares
    BY Settled DEF ContractInv
  <2>2. amount \in Int /\ WithdrawalAccepted(v, shares[user], amount)
    BY <1>1, AmountsAssumption DEF Withdraw
  <2> QED
    BY <2>1, <2>2, WithdrawalBounds
<1>4. /\ shares' = [shares EXCEPT ![user] = @ - w.shares] /\ fee' = fee
      /\ pool' = [pool EXCEPT !.b_tokens = @ - w.b_tokens]
  <2>1. w.underlying \in Int
    BY <1>3
  <2>2. PoolBurnt(w.underlying) = w.b_tokens
    BY <1>3, <2>1, PoolAgrees, LedgerTyped
  <2> QED
    BY <1>1, <2>2 DEF Withdraw, PoolWithdraw
<1> HIDE DEF w
<1>5. \A u \in Users : shares'[u] # shares[u] => u = user
  BY <1>4, LedgerTyped
<1>6. shares[user] - shares'[user] = w.shares /\ pool.b_tokens - pool'.b_tokens = w.b_tokens
  BY <1>3, <1>4, LedgerTyped
<1> QED
  BY <1>1, <1>2, <1>4, <1>5, <1>6 DEF EventTells

\* The admin's deposits and withdrawals are told in the b_tokens of the pool.
LEMMA AdminTells ==
    ASSUME ContractInv, RP!Inv, NEW signed, NEW amount \in Amounts,
           CallAdminDeposit(signed, amount) \/ CallAdminWithdraw(signed, amount)
    PROVE  EventTells
<1> DEFINE v    == GetVaultUpdated
           down == UnderlyingToBTokensDown(v, amount)
           up   == UnderlyingToBTokensUp(v, amount)
<1>1. /\ amount \in Int /\ v.b_rate = pool.b_rate
      /\ (amount * SCALAR_12) \div pool.b_rate = down /\ PoolBurnt(amount) = up
  BY AmountsAssumption, LedgerTyped, PoolAgrees
<1>2. down \in Int /\ up \in Int
  <2>1. v.b_rate \in Int /\ v.b_rate > 0 /\ SCALAR_12 \in Int
    BY <1>1, LedgerTyped, ScalarAssumption
  <2> QED
    BY <1>1, <2>1, FixedDivFloorBounds, FixedDivCeilBounds
    DEF UnderlyingToBTokensDown, UnderlyingToBTokensUp
<1>3. CASE CallAdminDeposit(signed, amount)
  <2>1. /\ event'.name = "vault_admin_deposit" /\ event'.data[2] = down
        /\ UNCHANGED <<balance, reward_token, shares, fee>>
        /\ pool' = [pool EXCEPT !.b_tokens = @ + down]
    BY <1>1, <1>3 DEF CallAdminDeposit, AdminDeposit, PoolSupply, AdminDepositEvent, PoolEvent,
       rewardVars
  <2> HIDE DEF down
  <2>2. pool'.b_tokens - pool.b_tokens = down
    BY <1>2, <2>1, LedgerTyped
  <2> QED
    BY <2>1, <2>2 DEF EventTells
<1>4. CASE CallAdminWithdraw(signed, amount)
  <2>1. /\ event'.name = "vault_admin_withdraw" /\ event'.data[2] = up
        /\ UNCHANGED <<balance, reward_token, shares, fee>>
        /\ pool' = [pool EXCEPT !.b_tokens = @ - up]
    BY <1>1, <1>4 DEF CallAdminWithdraw, AdminWithdraw, PoolWithdraw, AdminWithdrawEvent,
       PoolEvent, rewardVars
  <2> HIDE DEF up
  <2>2. pool.b_tokens - pool'.b_tokens = up
    BY <1>2, <2>1, LedgerTyped
  <2> QED
    BY <2>1, <2>2 DEF EventTells
<1> QED
  BY <1>3, <1>4

\* A change of the fee is told, and moves nothing else that is told of.
LEMMA SetFeeTells ==
    ASSUME NEW signed, NEW f \in FeeConfigs, CallSetFee(signed, f)
    PROVE  EventTells
BY DEF CallSetFee, SetFee, FeeUpdateEvent, rewardVars, EventTells

\* Rewards set are told, with the token that becomes, or stays, the current one.
LEMMA SetRewardsTells ==
    ASSUME RP!Inv, NEW signed, NEW token \in Tokens, NEW amount \in RewardAmounts,
           NEW expiration \in 0..MaxExpiration,
           CallSetRewards(signed, token, amount, expiration)
    PROVE  EventTells
<1>1. balance \in [Tokens -> Nat] /\ amount \in Int
  BY EmissionsAssumption DEF RP!Inv, RP!TypeOK
<1>2. /\ event'.name = "vault_rewards_set" /\ event'.topics[2] = token
      /\ event'.data[1] = amount
      /\ UNCHANGED <<pool, fee, shares>> /\ balance' = [balance EXCEPT ![token] = @ + amount]
  BY DEF CallSetRewards, R!SetRewards, RewardsSetEvent
<1>3. reward_token' # reward_token => reward_token' = token
  BY DEF CallSetRewards, R!SetRewards, R!ExtendRewards, R!StartRewards
<1>4. \A t \in Tokens :
          balance'[t] # balance[t] => t = token /\ amount = balance'[t] - balance[t]
  BY <1>1, <1>2
<1> QED
  BY <1>2, <1>3, <1>4 DEF EventTells

\* A claim is told by the user and by what it was due of the current reward token.
LEMMA ClaimRewardsTells ==
    ASSUME RP!Inv, NEW signed, NEW user \in Users, NEW requested \in Tokens,
           CallClaimRewards(signed, user, requested)
    PROVE  EventTells
<1>1. /\ balance \in [Tokens -> Nat] /\ reward_token \in Tokens \cup {None}
      /\ reward_data \in [Tokens -> RP!RewardData \cup {None}]
  BY DEF RP!Inv, RP!TypeOK
<1>2. /\ event'.name = "vault_rewards_claim" /\ event'.topics[1] = user
      /\ event'.data[1] = balance[reward_token] - balance'[reward_token]
      /\ UNCHANGED <<pool, fee, shares, reward_token>>
  BY DEF CallClaimRewards, R!ClaimRewards, RewardsClaimEvent
<1>3. reward_token \in Tokens
  BY <1>1 DEF CallClaimRewards, R!ClaimRewards
<1>4. balance' = [balance EXCEPT ![reward_token] = @ - R!Due(user, reward_token)]
  BY <1>1, <1>3 DEF CallClaimRewards, R!ClaimRewards, R!Due, R!GetRewardData,
     R!UpdatedRewardData
<1>5. R!Due(user, reward_token) \in Int
  BY <1>3, RewardsAssumptions, SameDue, RP!DueTyped
<1>6. \A t \in Tokens : balance'[t] # balance[t] => t = reward_token
  BY <1>1, <1>3, <1>4
<1>7. event'.data[1] = R!Due(user, reward_token)
  BY <1>1, <1>2, <1>3, <1>4, <1>5
<1> QED
  BY <1>2, <1>6, <1>7 DEF EventTells

\* Whoever follows the events knows every user's shares, the vault's position, the
\* reward tokens it holds, the one that claims are paid in and the fee, after any number
\* of transactions and with any number of reward tokens.
THEOREM EventsTheorem == ContractSpec => EventsTellTheLedger
<1>1. ContractInv /\ RP!Inv /\ [ContractNext]_contractVars => [EventTells]_contractVars
  <2> SUFFICES ASSUME ContractInv, RP!Inv, ContractNext PROVE EventTells
    OBVIOUS
  <2>1. CASE Environment
    BY <2>1, LedgerTyped DEF Environment, PoolRateMoves, Tick, rewardVars, EventTells
  <2>2. ASSUME NEW signed \in Signatures, Transaction(signed) PROVE EventTells
    <3>1. CASE \/ \E new_admin \in RoleHolders : CallSetAdmin(signed, new_admin)
               \/ \E new_signer \in RoleHolders \cup {None} : CallSetSigner(signed, new_signer)
               \/ CallClaimEmissions(signed)
      BY <3>1 DEF CallSetAdmin, CallSetSigner, CallClaimEmissions, vars, rewardVars, EventTells
    <3> QED
      BY <2>2, <3>1, DepositTells, WithdrawTells, AdminTells, SetFeeTells, SetRewardsTells,
         ClaimRewardsTells
      DEF Transaction
  <2> QED
    BY <2>1, <2>2 DEF ContractNext
<1> QED
  BY <1>1, ContractInvariance, ContractRewardsInvariance, PTL DEF ContractSpec, EventsTellTheLedger

-----------------------------------------------------------------------------
(***************************************************************************)
(* Consent.  Each conjunct of Untouched(x) is shown of a transaction that  *)
(* everybody but x has signed.                                             *)
(***************************************************************************)

\* Who has shares keeps them.
LEMMA SharesNeedConsent ==
    ASSUME ContractInv, NEW x \in Users, NEW signed, x \notin signed, Transaction(signed)
    PROVE  shares'[x] = shares[x]
<1>1. shares \in [Users -> Nat]
  BY DEF ContractInv, Inv, TypeOK
<1>2. ASSUME NEW user \in Users, NEW amount \in Amounts,
             CallDeposit(signed, user, amount) \/ CallWithdraw(signed, user, amount)
      PROVE  shares'[x] = shares[x]
  <2>1. user # x
    BY <1>2 DEF CallDeposit, DepositAuthorized, CallWithdraw
  <2> QED
    BY <1>1, <1>2, <2>1 DEF CallDeposit, CallWithdraw, Deposit, Withdraw
<1> QED
  BY <1>2 DEF Transaction, CallAdminDeposit, AdminDeposit, CallAdminWithdraw, AdminWithdraw,
     CallSetFee, SetFee, CallSetAdmin, CallSetSigner, CallClaimEmissions, CallSetRewards,
     R!SetRewards, CallClaimRewards, R!ClaimRewards, vars

\* Who is due rewards stays so.
LEMMA RewardsNeedConsent ==
    ASSUME ContractInv, RP!Inv, RP!Inv', NEW x \in Users, NEW signed, x \notin signed,
           Transaction(signed), NEW token \in Tokens, token = reward_token
    PROVE  R!Due(x, token)' = R!Due(x, token)
<1>1. shares'[x] = shares[x]
  BY SharesNeedConsent
<1>2. vault.total_shares = 0 => shares[x] = 0
  <2>1. shares[x] \in Nat /\ shares[x] <= vault.total_shares
    BY Settled DEF ContractInv
  <2> QED
    BY <2>1
<1>3. now' = now
  BY DEF Transaction, CallDeposit, Deposit, CallWithdraw, Withdraw, CallAdminDeposit,
     AdminDeposit, CallAdminWithdraw, AdminWithdraw, CallSetFee, SetFee, CallSetAdmin,
     CallSetSigner, CallClaimEmissions, CallSetRewards, R!SetRewards, CallClaimRewards,
     R!ClaimRewards, vars
<1>4. CASE UNCHANGED R!vars
  BY <1>4 DEF R!vars, R!Due, R!GetRewardData, R!Account
<1>5. CASE \/ \E user \in Users, s \in 1..MaxShares : R!Deposit(user, s) \/ R!Withdraw(user, s)
           \/ \E t \in Tokens, amount \in RewardAmounts, expiration \in 0..MaxExpiration :
                  R!SetRewards(t, amount, expiration)
           \/ \E user \in Users \ {x}, requested \in Tokens : R!ClaimRewards(user, requested)
  <2>1. \/ \E user \in Users, s \in 1..MaxShares : RP!Deposit(user, s) \/ RP!Withdraw(user, s)
        \/ \E t \in Tokens, amount \in RewardAmounts, expiration \in 0..MaxExpiration :
               RP!SetRewards(t, amount, expiration)
        \/ \E user \in Users \ {x}, requested \in Tokens : RP!ClaimRewards(user, requested)
    BY <1>5, SameCalls
  <2>2. RP!Due(x, token)' = RP!Due(x, token)
    BY <2>1, <1>1, <1>2, <1>3, RewardsAssumptions, RP!OthersKeepDue
  <2> QED
    BY <2>2, SameDue
<1>6. CASE \E user \in Users, amount \in Amounts :
               CallDeposit(signed, user, amount) \/ CallWithdraw(signed, user, amount)
  BY <1>5, <1>6, UserCallIsRewardsStep
<1>7. CASE \/ \E amount \in Amounts : \/ CallAdminDeposit(signed, amount)
                                      \/ CallAdminWithdraw(signed, amount)
           \/ \E f \in FeeConfigs : CallSetFee(signed, f)
  <2>1. /\ \/ \E amount \in Amounts : AdminDeposit(amount) \/ AdminWithdraw(amount)
           \/ \E f \in FeeConfigs : SetFee(f)
        /\ UNCHANGED rewardVars
    BY <1>7 DEF CallAdminDeposit, CallAdminWithdraw, CallSetFee
  <2>2. UNCHANGED R!vars
    BY <2>1, OtherCallsKeepShares DEF R!vars, rewardVars, ContractInv
  <2> QED
    BY <2>2, <1>4
<1>8. CASE \/ \E new_admin \in RoleHolders : CallSetAdmin(signed, new_admin)
           \/ \E new_signer \in RoleHolders \cup {None} : CallSetSigner(signed, new_signer)
           \/ CallClaimEmissions(signed)
  BY <1>4, <1>8 DEF CallSetAdmin, CallSetSigner, CallClaimEmissions, R!vars, vars, rewardVars
<1>9. CASE \/ \E t \in Tokens, amount \in RewardAmounts, expiration \in 0..MaxExpiration :
                  CallSetRewards(signed, t, amount, expiration)
           \/ \E user \in Users, requested \in Tokens : CallClaimRewards(signed, user, requested)
  BY <1>5, <1>9 DEF CallSetRewards, CallClaimRewards
<1> QED
  BY <1>6, <1>7, <1>8, <1>9 DEF Transaction

\* The admin keeps its role, the fee, the signer, the rewards and its settled balance.
LEMMA AdminNeedsConsent ==
    ASSUME ContractInv, NEW x, admin = x, NEW signed, x \notin signed, Transaction(signed)
    PROVE  /\ UNCHANGED <<roleVars, fee, reward_token>>
           /\ vault'.admin_balance >= IF vault' = vault THEN vault.admin_balance
                                      ELSE GetVaultUpdated.admin_balance
<1>1. /\ GetVaultUpdated \in VaultRecord /\ GetVaultUpdated.admin_balance \in Int
      /\ vault.admin_balance \in Int
  BY Settled DEF ContractInv, Inv, TypeOK, VaultRecord
<1>2. ASSUME NEW user \in Users, NEW amount \in Amounts,
             CallDeposit(signed, user, amount) \/ CallWithdraw(signed, user, amount)
      PROVE  /\ UNCHANGED <<roleVars, fee, reward_token>>
             /\ vault'.admin_balance = GetVaultUpdated.admin_balance
  <2>1. UNCHANGED <<roleVars, fee, reward_token>>
    BY <1>2 DEF CallDeposit, CallWithdraw, Deposit, Withdraw
  <2>2. \E s, b : vault' = [GetVaultUpdated EXCEPT !.total_shares = s, !.total_b_tokens = b]
    BY <1>2 DEF CallDeposit, CallWithdraw, Deposit, Withdraw
  <2>3. vault'.admin_balance = GetVaultUpdated.admin_balance
    BY <2>2, <1>1 DEF VaultRecord
  <2> QED
    BY <2>1, <2>3
<1>3. ASSUME NEW user \in Users, NEW requested \in Tokens,
             CallClaimRewards(signed, user, requested)
      PROVE  UNCHANGED <<roleVars, fee, reward_token, vault>>
  BY <1>3 DEF CallClaimRewards, R!ClaimRewards
<1>4. \/ \E user \in Users, amount \in Amounts :
             CallDeposit(signed, user, amount) \/ CallWithdraw(signed, user, amount)
      \/ \E user \in Users, requested \in Tokens : CallClaimRewards(signed, user, requested)
  BY DEF Transaction, CallAdminDeposit, CallAdminWithdraw, CallSetFee, CallSetAdmin,
     CallSetSigner, CallClaimEmissions, CallSetRewards
<1>5. CASE \E user \in Users, amount \in Amounts :
               CallDeposit(signed, user, amount) \/ CallWithdraw(signed, user, amount)
  <2>1. /\ UNCHANGED <<roleVars, fee, reward_token>>
        /\ vault'.admin_balance = GetVaultUpdated.admin_balance
    BY <1>2, <1>5
  <2> QED
    BY <2>1, <1>1
<1>6. CASE \E user \in Users, requested \in Tokens : CallClaimRewards(signed, user, requested)
  <2>1. UNCHANGED <<roleVars, fee, reward_token, vault>>
    BY <1>3, <1>6
  <2> QED
    BY <2>1, <1>1
<1> QED
  BY <1>4, <1>5, <1>6

\* No user gains shares without the signer.
LEMMA SharesNeedSigner ==
    ASSUME ContractInv, NEW x \in Addresses, signer = x, NEW signed, x \notin signed,
           Transaction(signed), NEW user \in Users
    PROVE  shares'[user] <= shares[user]
<1>1. shares \in [Users -> Nat] /\ x # None
  BY RolesAssumption DEF ContractInv, Inv, TypeOK
<1>2. ASSUME NEW u \in Users, NEW amount \in Amounts, CallWithdraw(signed, u, amount)
      PROVE  shares'[user] <= shares[user]
  <2>1. PICK s \in 1..MaxShares : s <= shares[u] /\ shares' = [shares EXCEPT ![u] = @ - s]
    BY <1>2, WithdrawBurns DEF CallWithdraw
  <2> QED
    BY <2>1, <1>1
<1>3. \A u \in Users, amount \in Amounts : ~CallDeposit(signed, u, amount)
  BY <1>1 DEF CallDeposit, DepositAuthorized
<1>4. \/ shares' = shares
      \/ \E u \in Users, amount \in Amounts : CallWithdraw(signed, u, amount)
  BY <1>3 DEF Transaction, CallAdminDeposit, AdminDeposit, CallAdminWithdraw, AdminWithdraw,
     CallSetFee, SetFee, CallSetAdmin, CallSetSigner, CallClaimEmissions, CallSetRewards,
     R!SetRewards, CallClaimRewards, R!ClaimRewards, vars
<1> QED
  BY <1>1, <1>2, <1>4

\* Nobody is given a role without having agreed to it.
LEMMA RolesNeedConsent ==
    ASSUME NEW x \in Addresses, NEW signed, x \notin signed, Transaction(signed)
    PROVE  (admin' = x => admin = x) /\ (signer' = x => signer = x)
<1>1. x # None
  BY RolesAssumption
<1>2. CASE \E new_admin \in RoleHolders : CallSetAdmin(signed, new_admin)
  BY <1>2 DEF CallSetAdmin
<1>3. CASE \E new_signer \in RoleHolders \cup {None} : CallSetSigner(signed, new_signer)
  BY <1>1, <1>3 DEF CallSetSigner
<1>4. CASE UNCHANGED roleVars
  BY <1>4 DEF roleVars
<1> QED
  BY <1>2, <1>3, <1>4 DEF Transaction, CallDeposit, CallWithdraw, CallAdminDeposit,
     CallAdminWithdraw, CallSetFee, CallClaimEmissions, CallSetRewards, CallClaimRewards

\* Nothing that belongs to an address changes without its signature, in any history of
\* the contract and for any number of users, roles and reward tokens.
THEOREM ConsentTheorem == ContractSpec => NothingWithoutConsent
<1>1. ASSUME ContractInv, RP!Inv, RP!Inv', NEW x \in Addresses, Transaction(Addresses \ {x})
      PROVE  Untouched(x)
  <2> DEFINE signed == Addresses \ {x}
  <2>1. x \notin signed /\ Transaction(signed)
    BY <1>1
  <2> HIDE DEF signed
  <2>2. x \in Users => /\ shares'[x] = shares[x]
                       /\ \A token \in Tokens :
                              token = reward_token => R!Due(x, token)' >= R!Due(x, token)
    <3> SUFFICES ASSUME x \in Users
                 PROVE  /\ shares'[x] = shares[x]
                        /\ \A token \in Tokens :
                               token = reward_token => R!Due(x, token)' >= R!Due(x, token)
      OBVIOUS
    <3>1. shares'[x] = shares[x]
      BY <1>1, <2>1, SharesNeedConsent
    <3>2. ASSUME NEW token \in Tokens, token = reward_token
          PROVE  R!Due(x, token)' >= R!Due(x, token)
      <4>1. R!Due(x, token)' = R!Due(x, token)
        BY <1>1, <2>1, <3>2, RewardsNeedConsent
      <4>2. R!Due(x, token) \in Int
        BY <1>1, <3>2, RewardsAssumptions, SameDue, RP!DueTyped
      <4> QED
        BY <4>1, <4>2
    <3> QED
      BY <3>1, <3>2
  <2>3. admin = x => /\ UNCHANGED <<roleVars, fee, reward_token>>
                     /\ vault'.admin_balance >= IF vault' = vault THEN vault.admin_balance
                                                ELSE GetVaultUpdated.admin_balance
    BY <1>1, <2>1, AdminNeedsConsent
  <2>4. signer = x => \A user \in Users : shares'[user] <= shares[user]
    BY <1>1, <2>1, SharesNeedSigner
  <2>5. (admin' = x => admin = x) /\ (signer' = x => signer = x)
    BY <2>1, RolesNeedConsent
  <2> QED
    BY <2>2, <2>3, <2>4, <2>5 DEF Untouched
<1>2. ContractInv /\ RP!Inv /\ RP!Inv'
      => [\A x \in Addresses : ~Untouched(x) => ~Transaction(Addresses \ {x})]_contractVars
  BY <1>1
<1> QED
  BY <1>2, ContractInvariance, ContractRewardsInvariance, PTL
  DEF ContractSpec, NothingWithoutConsent

\* Whatever is proved of the vault holds of the contract.
THEOREM ContractVault ==
    ContractSpec => /\ []AdminBalanceNotNegative /\ []SharesConserved /\ []Backed
                    /\ []NoWorthlessShares /\ []WithdrawalsCovered /\ []WithdrawPaysBalance
                    /\ []HoldersMayLeave
                    /\ []TakeRateKept /\ []CapRespected /\ []FixedRateKept
                    /\ SharePriceNeverFalls /\ BystandersUnharmed /\ RoundingBounded
BY ContractIsVault, AdminBalanceTheorem, SharesTheorem, BackingTheorem, WorthTheorem,
   WithdrawalsTheorem, PaymentTheorem, TakeRateTheorem, CapTheorem, FixedRateTheorem,
   SharePriceTheorem, BystandersTheorem, LeavingTheorem, RoundingTheorem, PTL

=============================================================================
