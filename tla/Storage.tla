------------------------------ MODULE Storage ------------------------------
(***************************************************************************)
(* How long the contract's ledger entries live: the time to live (TTL) of  *)
(* every entry of src/src/storage.rs.  An entry whose TTL runs out is      *)
(* archived; a transaction that reads or writes an archived entry fails    *)
(* until somebody restores it.  Reading does not extend a TTL.             *)
(*                                                                         *)
(* A call is its footprint: the entries that it reads and the ones whose   *)
(* life it extends.  What is in them is in the other modules.              *)
(***************************************************************************)
EXTENDS Integers

CONSTANTS
    Users, Tokens,
    None,                   \* an entry that does not exist, or no reward token
    LEDGER_BUMP_SHARED,     \* 31 days
    LEDGER_THRESHOLD_SHARED,
    LEDGER_BUMP_USER,       \* 120 days
    LEDGER_THRESHOLD_USER,  \* 100 days
    MIN_PERSISTENT_TTL      \* the network's, for an entry that is created or restored

ASSUME NamesAssumption == None \notin Int \cup Tokens
ASSUME TtlAssumption ==
    /\ LEDGER_BUMP_SHARED \in Nat /\ LEDGER_THRESHOLD_SHARED \in Nat
    /\ LEDGER_THRESHOLD_SHARED < LEDGER_BUMP_SHARED
    /\ LEDGER_BUMP_USER \in Nat /\ LEDGER_THRESHOLD_USER \in Nat
    /\ LEDGER_THRESHOLD_USER < LEDGER_BUMP_USER
    /\ MIN_PERSISTENT_TTL \in Nat \ {0}

VARIABLES
    ttl,           \* for each entry the ledgers it has left to live, or None
    reward_token,  \* instance storage "RwdToken"
    since_move,    \* history: ledgers since a user's latest deposit or withdrawal
    since_call     \* history: ledgers since the latest call of the contract

vars == <<ttl, reward_token, since_move, since_call>>

-----------------------------------------------------------------------------
(***************************************************************************)
(* Entries.                                                                *)
(***************************************************************************)

\* Pool, asset, admin, signer, fee and reward token are one entry.
Instance == <<"Instance">>
Vault    == <<"Vault">>

Shares(user) == <<"Shares", user>>

Rwd(token) == <<"Rwd", token>>

UserRwd(token, user) == <<"UserRwd", token, user>>

Keys == {Instance, Vault} \cup {Shares(user) : user \in Users}
        \cup {Rwd(token) : token \in Tokens}
        \cup {UserRwd(token, user) : token \in Tokens, user \in Users}

Archived == -1

Exists(key) == ttl[key] # None

\* The host's extend_ttl (external): nothing happens above the threshold.
Extended(t, threshold, extend_to) ==
    IF t <= threshold /\ t < extend_to THEN extend_to ELSE t

\* The setters of persistent entries: what is written is extended.
Written(t) ==
    Extended(IF t = None THEN MIN_PERSISTENT_TTL - 1 ELSE t,
             LEDGER_THRESHOLD_USER, LEDGER_BUMP_USER)

\* extend_instance.
ExtendedInstance(t) == Extended(t, LEDGER_THRESHOLD_SHARED, LEDGER_BUMP_SHARED)

\* A call that reads the entries `reads', and the instance, and extends the life of the
\* entries `extends': persistent entries by writing them, the instance by a call of
\* extend_instance.
Call(reads, extends) ==
    /\ \A key \in {Instance} \cup reads \cup extends : ttl[key] # Archived
    /\ ttl' = [key \in Keys |-> IF key \notin extends THEN ttl[key]
                                ELSE IF key = Instance THEN ExtendedInstance(ttl[key])
                                ELSE Written(ttl[key])]
    /\ since_call' = 0

-----------------------------------------------------------------------------
(***************************************************************************)
(* The footprints of the calls.                                            *)
(***************************************************************************)

CurrentRwd == IF reward_token = None THEN {} ELSE {Rwd(reward_token)}

CurrentAccount(user) ==
    IF reward_token = None THEN {} ELSE {UserRwd(reward_token, user)}

\* Mutant: reward data is not written when it does not change.
LazyRewardWrites(user, moved) ==
    IF moved THEN CurrentRwd \cup CurrentAccount(user)
    ELSE {key \in CurrentAccount(user) : ~Exists(key)}

\* What update_rewards writes: the reward data always; the account if it is new or the
\* index has moved away from it (`moved', which the data decides).
RewardWrites(user, moved) ==
    CurrentRwd \cup {key \in CurrentAccount(user) : moved \/ ~Exists(key)}

Moves(user) ==
    since_move' = [since_move EXCEPT ![user] = 0]

\* deposit, and withdraw: the same entries.  Who never deposited cannot withdraw.
Deposit(user, moved) ==
    /\ Call({Vault, Shares(user)} \cup CurrentRwd \cup CurrentAccount(user),
            {Instance, Vault, Shares(user)} \cup RewardWrites(user, moved))
    /\ Moves(user)
    /\ UNCHANGED reward_token

Withdraw(user, moved) ==
    /\ Exists(Shares(user))
    /\ Call({Vault, Shares(user)} \cup CurrentRwd \cup CurrentAccount(user),
            {Instance, Vault, Shares(user)} \cup RewardWrites(user, moved))
    /\ Moves(user)
    /\ UNCHANGED reward_token

\* Mutant: a claim forgets the instance.
ClaimRewardsUnextended(user) ==
    /\ reward_token # None
    /\ Call({Vault, Shares(user)}, CurrentRwd \cup CurrentAccount(user))
    /\ UNCHANGED <<reward_token, since_move>>

\* claim_rewards reads the vault and the shares and writes neither.
ClaimRewards(user) ==
    /\ reward_token # None
    /\ Call({Vault, Shares(user)}, {Instance} \cup CurrentRwd \cup CurrentAccount(user))
    /\ UNCHANGED <<reward_token, since_move>>

\* Mutant: the data of a new reward token is left to its first settlement.
SetRewardsUnsaved(token) ==
    /\ Call({Vault, Rwd(token)}, {Instance} \cup CurrentRwd)
    /\ reward_token' = token
    /\ UNCHANGED since_move

\* Current reward data is written (settled) before that of the new token.
SetRewards(token) ==
    /\ Call({Vault}, {Instance, Rwd(token)} \cup CurrentRwd)
    /\ reward_token' = token
    /\ UNCHANGED since_move

\* admin_deposit, admin_withdraw and set_fee.
AdminCall ==
    /\ Call({}, {Instance, Vault})
    /\ UNCHANGED <<reward_token, since_move>>

\* set_admin, set_signer and claim_emissions: the instance only.
RoleCall ==
    /\ Call({}, {Instance})
    /\ UNCHANGED <<reward_token, since_move>>

\* Anybody may have an archived entry restored (external).
Restore(key) ==
    /\ ttl[key] = Archived
    /\ ttl' = [ttl EXCEPT ![key] = MIN_PERSISTENT_TTL - 1]
    /\ UNCHANGED <<reward_token, since_move, since_call>>

\* A ledger closes (external).  The histories stop counting where nothing depends on
\* them any more.
LedgerCloses ==
    /\ ttl' = [key \in Keys |-> IF ttl[key] \in {None, Archived} THEN ttl[key]
                                ELSE ttl[key] - 1]
    /\ since_move' = [user \in Users |-> IF since_move[user] > LEDGER_THRESHOLD_USER
                                         THEN since_move[user] ELSE since_move[user] + 1]
    /\ since_call' = IF since_call > LEDGER_THRESHOLD_SHARED
                     THEN since_call ELSE since_call + 1
    /\ UNCHANGED reward_token

\* The constructor: the instance is created but not extended, the vault is set.
Init ==
    /\ ttl = [key \in Keys |-> IF key = Instance THEN MIN_PERSISTENT_TTL - 1
                               ELSE IF key = Vault THEN Written(None)
                               ELSE None]
    /\ reward_token = None
    /\ since_move = [user \in Users |-> LEDGER_THRESHOLD_USER + 1]
    /\ since_call = LEDGER_THRESHOLD_SHARED + 1

Next ==
    \/ \E user \in Users, moved \in BOOLEAN : Deposit(user, moved)
    \/ \E user \in Users, moved \in BOOLEAN : Withdraw(user, moved)
    \/ \E user \in Users : ClaimRewards(user)
    \/ \E token \in Tokens : SetRewards(token)
    \/ AdminCall
    \/ RoleCall
    \/ \E key \in Keys : Restore(key)
    \/ LedgerCloses

Spec == Init /\ [][Next]_vars

-----------------------------------------------------------------------------
(***************************************************************************)
(* Safety.                                                                 *)
(***************************************************************************)

Live(key) == ttl[key] \in Nat

\* Every entry has a TTL that the network allows; a current reward token has its data.
TypeOK ==
    /\ ttl \in [Keys -> Int \cup {None}]
    /\ \A key \in Keys : Exists(key) => ttl[key] >= Archived
    /\ Exists(Instance) /\ Exists(Vault)
    /\ reward_token \in Tokens \cup {None}
    /\ reward_token # None => Exists(Rwd(reward_token))
    /\ since_move \in [Users -> Nat]
    /\ since_call \in Nat

\* storage.rs does not extend what it reads: "the data's access patterns mean they are
\* almost always written when accessed".  For who deposits or withdraws at least every
\* LEDGER_THRESHOLD_USER ledgers that is enough: its shares, the vault and the data of
\* the reward token, whichever that is by now, are never archived.  (Its account with
\* the reward token may be, since that is only written when the index moved, and the
\* shares of a user who only claims.)
UserEntriesKept ==
    \A user \in Users :
        since_move[user] <= LEDGER_THRESHOLD_USER
        => \A key \in {Vault, Shares(user)} \cup CurrentRwd : Live(key)

\* The instance is not archived while the contract is called at least every
\* LEDGER_THRESHOLD_SHARED ledgers, by whomever and by whichever entry point: none of
\* them forgets extend_instance.
InstanceKept == since_call <= LEDGER_THRESHOLD_SHARED => Live(Instance)

=============================================================================
