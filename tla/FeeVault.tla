------------------------------ MODULE FeeVault ------------------------------
(***************************************************************************)
(* The whole contract: src/src/contract.rs.  Each entry point is one       *)
(* transaction that checks who signed it, moves the vault (Vault), settles *)
(* the rewards of the user whose shares change (Rewards) and publishes an  *)
(* event (src/src/events.rs).                                              *)
(*                                                                         *)
(* Vault is extended: its actions are the functions of vault.rs.  Rewards  *)
(* is instantiated on the same shares and the same clock, with the total   *)
(* that it is told taken from the vault.                                   *)
(*                                                                         *)
(* A transaction that lacks a signature panics and reverts: a stutter.     *)
(***************************************************************************)
EXTENDS Vault

CONSTANTS
    Tokens,         \* the tokens the admin may give as rewards
    RoleHolders,    \* the addresses that may be admin or signer
    PoolAddress,    \* the address of the pool
    None,           \* an optional address, or a storage entry, that is absent
    Signatures,     \* the sets of addresses that may have signed a transaction
    RewardAmounts,  \* amounts the admin may pass to set_rewards
    U64_MAX,        \* the largest eps
    MaxExpiration,  \* bound: the last timestamp the admin passes as expiration
    MaxBalance      \* bound: the most reward tokens the contract holds

Addresses == Users \cup RoleHolders

ASSUME RolesAssumption == /\ None \notin Addresses
                          /\ Signatures \subseteq SUBSET Addresses

VARIABLES
    admin,         \* storage "Admin"
    signer,        \* storage "Signer", or None
    reward_token, reward_data, user_rewards, balance,  \* see Rewards
    event          \* what the latest transaction published

R == INSTANCE Rewards WITH ShareAmounts <- 1..MaxShares,
                           total_shares <- vault.total_shares

\* What the emissions assume of their constants.
ASSUME EmissionsAssumption ==
    /\ None \notin Tokens \cup R!RewardData \cup R!UserRewards
    /\ RewardAmounts \subseteq Int
    /\ U64_MAX \in Nat \ {0} /\ MaxExpiration \in Nat /\ MaxBalance \in Nat

roleVars     == <<admin, signer>>
rewardVars   == <<reward_token, reward_data, user_rewards, balance>>
contractVars == <<vars, roleVars, rewardVars, event>>

-----------------------------------------------------------------------------
(***************************************************************************)
(* Events: the name, the addresses among the topics, and the data.  The    *)
(* address of the asset, which is a constant, is left out.                 *)
(***************************************************************************)

NoEvent == [name |-> "none", topics |-> <<>>, data |-> <<>>]

\* Events whose topics name the pool and an address.
PoolEvent(name, address, data) ==
    [name |-> name, topics |-> <<PoolAddress, address>>, data |-> data]

DepositEvent(from, amount, share_amount, b_tokens) ==
    PoolEvent("vault_deposit", from, <<amount, share_amount, b_tokens>>)

WithdrawEvent(from, amount, share_amount, b_tokens) ==
    PoolEvent("vault_withdraw", from, <<amount, share_amount, b_tokens>>)

AdminDepositEvent(from, amount, b_tokens) ==
    PoolEvent("vault_admin_deposit", from, <<amount, b_tokens>>)

AdminWithdrawEvent(from, amount, b_tokens) ==
    PoolEvent("vault_admin_withdraw", from, <<amount, b_tokens>>)

\* The parameters are the admin and the pool, the topics the pool and the admin.  The
\* caller passes the two in the other order.  The data is not modelled: it is what the
\* pool answered.
EmissionsClaimEvent(admin_arg, pool_arg) ==
    [name |-> "vault_emissions_claim", topics |-> <<pool_arg, admin_arg>>, data |-> <<>>]

FeeUpdateEvent(f) ==
    [name |-> "fee_update", topics |-> <<>>, data |-> <<f.rate_type, f.rate>>]

RewardsSetEvent(from, token, amount, expiration) ==
    [name |-> "vault_rewards_set", topics |-> <<from, token>>,
     data |-> <<amount, expiration>>]

RewardsClaimEvent(user, token, amount) ==
    [name |-> "vault_rewards_claim", topics |-> <<user, token>>, data |-> <<amount>>]

-----------------------------------------------------------------------------
(***************************************************************************)
(* The entry points, in transactions signed by the addresses `signed'.     *)
(***************************************************************************)

ContractInit ==
    /\ Init
    /\ admin \in RoleHolders
    /\ signer \in RoleHolders \cup {None}
    /\ R!Init
    /\ event = NoEvent

\* Mutant: a permissioned vault lets anybody in.
DepositWithoutSigner(signed, user) == user \in signed

\* Who must sign a deposit: the user, and the signer if there is one.
DepositAuthorized(signed, user) ==
    /\ user \in signed
    /\ signer # None => signer \in signed

CallDeposit(signed, user, amount) ==
    LET b_tokens == UnderlyingToBTokensDown(GetVaultUpdated, amount)
    IN  /\ DepositAuthorized(signed, user)
        /\ Deposit(user, amount)
        /\ R!UpdateRewards(user)
        /\ event' = DepositEvent(user, amount,
                                 BTokensToSharesDown(GetVaultUpdated, b_tokens), b_tokens)
        /\ UNCHANGED <<roleVars, reward_token, balance>>

\* Mutant: rewards are settled on deposits only.
WithdrawUnsettled(signed, user, amount) ==
    LET w == Withdrawal(GetVaultUpdated, shares[user], amount)
    IN  /\ user \in signed
        /\ Withdraw(user, amount)
        /\ event' = WithdrawEvent(user, amount, w.shares, w.b_tokens)
        /\ UNCHANGED <<roleVars, rewardVars>>

\* The event carries the amount asked for, not the one paid.
CallWithdraw(signed, user, amount) ==
    LET w == Withdrawal(GetVaultUpdated, shares[user], amount)
    IN  /\ user \in signed
        /\ Withdraw(user, amount)
        /\ R!UpdateRewards(user)
        /\ event' = WithdrawEvent(user, amount, w.shares, w.b_tokens)
        /\ UNCHANGED <<roleVars, reward_token, balance>>

CallAdminDeposit(signed, amount) ==
    /\ admin \in signed
    /\ AdminDeposit(amount)
    /\ event' = AdminDepositEvent(admin, amount,
                                  UnderlyingToBTokensDown(GetVaultUpdated, amount))
    /\ UNCHANGED <<roleVars, rewardVars>>

\* Mutant: the b_tokens of the event are rounded as in a deposit.
AdminWithdrawMisreported(signed, amount) ==
    /\ admin \in signed
    /\ AdminWithdraw(amount)
    /\ event' = AdminWithdrawEvent(admin, amount,
                                   UnderlyingToBTokensDown(GetVaultUpdated, amount))
    /\ UNCHANGED <<roleVars, rewardVars>>

CallAdminWithdraw(signed, amount) ==
    /\ admin \in signed
    /\ AdminWithdraw(amount)
    /\ event' = AdminWithdrawEvent(admin, amount,
                                   UnderlyingToBTokensUp(GetVaultUpdated, amount))
    /\ UNCHANGED <<roleVars, rewardVars>>

CallSetFee(signed, f) ==
    /\ admin \in signed
    /\ SetFee(f)
    /\ event' = FeeUpdateEvent(f)
    /\ UNCHANGED <<roleVars, rewardVars>>

CallSetAdmin(signed, new_admin) ==
    /\ {admin, new_admin} \subseteq signed
    /\ admin' = new_admin
    /\ event' = NoEvent
    /\ UNCHANGED <<vars, signer, rewardVars>>

CallSetSigner(signed, new_signer) ==
    /\ admin \in signed
    /\ new_signer # None => new_signer \in signed
    /\ signer' = new_signer
    /\ event' = NoEvent
    /\ UNCHANGED <<vars, admin, rewardVars>>

\* The pool pays the emissions of the vault's position to whom the admin says.
CallClaimEmissions(signed) ==
    /\ admin \in signed
    /\ event' = EmissionsClaimEvent(PoolAddress, admin)
    /\ UNCHANGED <<vars, roleVars, rewardVars>>

CallSetRewards(signed, token, amount, expiration) ==
    /\ admin \in signed
    /\ UNCHANGED <<vault, fee, pool, roleVars>>
    /\ R!SetRewards(token, amount, expiration)
    /\ event' = RewardsSetEvent(admin, token, amount, expiration)

CallClaimRewards(signed, user, requested) ==
    /\ user \in signed
    /\ UNCHANGED <<vault, fee, pool, roleVars>>
    /\ R!ClaimRewards(user, requested)
    /\ event' = RewardsClaimEvent(user, requested,
                                  balance[reward_token] - balance'[reward_token])

Transaction(signed) ==
    \/ \E user \in Users, amount \in Amounts : CallDeposit(signed, user, amount)
    \/ \E user \in Users, amount \in Amounts : CallWithdraw(signed, user, amount)
    \/ \E amount \in Amounts : CallAdminDeposit(signed, amount)
    \/ \E amount \in Amounts : CallAdminWithdraw(signed, amount)
    \/ \E f \in FeeConfigs : CallSetFee(signed, f)
    \/ \E new_admin \in RoleHolders : CallSetAdmin(signed, new_admin)
    \/ \E new_signer \in RoleHolders \cup {None} : CallSetSigner(signed, new_signer)
    \/ CallClaimEmissions(signed)
    \/ \E token \in Tokens, amount \in RewardAmounts, expiration \in 0..MaxExpiration :
           CallSetRewards(signed, token, amount, expiration)
    \/ \E user \in Users, requested \in Tokens : CallClaimRewards(signed, user, requested)

\* The pool and the clock move; nothing is published.
Environment ==
    /\ PoolRateMoves \/ Tick
    /\ event' = NoEvent
    /\ UNCHANGED <<roleVars, rewardVars>>

ContractNext == Environment \/ \E signed \in Signatures : Transaction(signed)

ContractSpec == ContractInit /\ [][ContractNext]_contractVars

-----------------------------------------------------------------------------
(***************************************************************************)
(* Properties of the whole.                                                *)
(***************************************************************************)

\* The contract implements the emissions of Rewards: every change of a user's shares,
\* at whatever price, is settled first and for the same number of shares, and the total
\* that rewards.rs is told is the vault's at that moment.
ImplementsRewards == R!Spec

\* Nothing that belongs to an address changes in a transaction signed by everybody but
\* that address.  A user keeps its shares and what it is due.  The admin keeps its role,
\* the fee, the signer, the rewards and the b_tokens of its (settled) balance.  While
\* there is a signer, no user gains shares without it.  And nobody becomes admin, nor
\* signer, without having agreed to it, whichever role it has already.
Untouched(x) ==
    /\ x \in Users => /\ shares'[x] = shares[x]
                      /\ \A token \in Tokens :
                             token = reward_token => R!Due(x, token)' >= R!Due(x, token)
    /\ admin = x => /\ UNCHANGED <<roleVars, fee, reward_token>>
                    /\ vault'.admin_balance >= IF vault' = vault THEN vault.admin_balance
                                               ELSE GetVaultUpdated.admin_balance
    /\ signer = x => \A user \in Users : shares'[user] <= shares[user]
    /\ admin' = x => admin = x
    /\ signer' = x => signer = x

NothingWithoutConsent ==
    [][\A x \in Addresses : ~Untouched(x) => ~Transaction(Addresses \ {x})]_contractVars

\* What the event of a step says of the step.
EventTells ==
    LET data     == event'.data
        is(name) == event'.name = name
    IN  /\ \A user \in Users : shares'[user] # shares[user] =>
               /\ event'.topics = <<PoolAddress, user>>
               /\ \/ is("vault_deposit") /\ data[2] = shares'[user] - shares[user]
                  \/ is("vault_withdraw") /\ data[2] = shares[user] - shares'[user]
        /\ pool'.b_tokens # pool.b_tokens =>
               \/ is("vault_deposit") /\ data[3] = pool'.b_tokens - pool.b_tokens
               \/ is("vault_withdraw") /\ data[3] = pool.b_tokens - pool'.b_tokens
               \/ is("vault_admin_deposit") /\ data[2] = pool'.b_tokens - pool.b_tokens
               \/ is("vault_admin_withdraw") /\ data[2] = pool.b_tokens - pool'.b_tokens
        /\ reward_token' # reward_token =>
               is("vault_rewards_set") /\ event'.topics[2] = reward_token'
        /\ \A token \in Tokens : balance'[token] # balance[token] =>
               \/ /\ is("vault_rewards_set") /\ event'.topics[2] = token
                  /\ data[1] = balance'[token] - balance[token]
               \/ /\ is("vault_rewards_claim") /\ token = reward_token
                  /\ data[1] = balance[token] - balance'[token]
                  /\ data[1] = R!Due(event'.topics[1], token)
        /\ fee' # fee =>
               is("fee_update") /\ data = <<fee'.rate_type, fee'.rate>>

\* Somebody who follows the events knows the ledger: a user's shares, the position in
\* the pool, the reward tokens held, the current reward token and the fee change only
\* together with an event that says so, by exactly the amount that it says.
\*   - For b_tokens the event has the vault's own figure, not what the pool did.
\*   - The token that a claim is paid in is the one of the last vault_rewards_set, and
\*     the amount what the user of the claim was due of it.  It is not the token that
\*     the claim's own topics name: that one is whatever the user asked for, see
\*     ClaimPaysRequested of Rewards.
EventsTellTheLedger == [][EventTells]_contractVars

=============================================================================
