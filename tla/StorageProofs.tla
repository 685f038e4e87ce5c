--------------------------- MODULE StorageProofs ---------------------------
(***************************************************************************)
(* Proofs about Storage, for any number of users and tokens and any        *)
(* thresholds and bumps: who keeps using the contract never meets an       *)
(* archived entry that its calls write.                                    *)
(***************************************************************************)
EXTENDS Storage, TLAPS

USE NamesAssumption, TtlAssumption DEF Archived

-----------------------------------------------------------------------------
(***************************************************************************)
(* Entries and the extension of one entry.                                 *)
(***************************************************************************)

\* The entries the arguments below are about are keys, and none of them is the instance.
LEMMA KeyFacts ==
    /\ Instance \in Keys /\ Vault \in Keys \ {Instance}
    /\ \A user \in Users : Shares(user) \in Keys \ {Instance}
    /\ \A token \in Tokens : Rwd(token) \in Keys \ {Instance}
    /\ \A token \in Tokens, user \in Users : UserRwd(token, user) \in Keys \ {Instance}
  BY DEF Keys, Instance, Vault, Shares, Rwd, UserRwd

\* An entry that is written has more to live than the threshold, and no less than it had.
LEMMA WrittenExtends ==
    ASSUME NEW t \in Int \cup {None}, t # None => t >= 0
    PROVE  /\ Written(t) \in Int
           /\ Written(t) > LEDGER_THRESHOLD_USER
           /\ t # None => Written(t) >= t
  BY DEF Written, Extended

\* And so has the instance when it is extended.
LEMMA InstanceExtends ==
    ASSUME NEW t \in Int, t >= 0
    PROVE  /\ ExtendedInstance(t) \in Int
           /\ ExtendedInstance(t) > LEDGER_THRESHOLD_SHARED
           /\ ExtendedInstance(t) >= t
  BY DEF ExtendedInstance, Extended

-----------------------------------------------------------------------------
(***************************************************************************)
(* The inductive invariant: of the ledgers that a user may let pass, what  *)
(* is left to live covers the ones that have not passed yet.               *)
(***************************************************************************)

\* What the calls of a user who deposits or withdraws keep writing.
KeptKeys(user) == {Vault, Shares(user)} \cup CurrentRwd

Outlives(key, since, threshold) == Exists(key) /\ ttl[key] + since > threshold

UserEntriesOutlive ==
    \A user \in Users :
        since_move[user] <= LEDGER_THRESHOLD_USER
        => \A key \in KeptKeys(user) :
               Outlives(key, since_move[user], LEDGER_THRESHOLD_USER)

InstanceOutlives ==
    since_call <= LEDGER_THRESHOLD_SHARED
    => Outlives(Instance, since_call, LEDGER_THRESHOLD_SHARED)

Inv == TypeOK /\ UserEntriesOutlive /\ InstanceOutlives

\* The entries that a user keeps alive are persistent entries.
LEMMA KeptKeysType ==
    ASSUME TypeOK, NEW user \in Users
    PROVE  KeptKeys(user) \subseteq Keys \ {Instance}
  BY KeyFacts DEF KeptKeys, CurrentRwd, TypeOK

-----------------------------------------------------------------------------
(***************************************************************************)
(* A call.                                                                 *)
(***************************************************************************)

\* No entry is lost or shortened by a call that extends the instance, and the persistent
\* entries it writes are extended.
LEMMA CallExtends ==
    ASSUME TypeOK, NEW reads \in SUBSET (Keys \ {Instance}),
           NEW extends \in SUBSET Keys, Instance \in extends, Call(reads, extends)
    PROVE  /\ ttl' \in [Keys -> Int \cup {None}]
           /\ \A key \in Keys : Exists(key)' => ttl'[key] >= Archived
           /\ \A key \in Keys : Exists(key) => Exists(key)' /\ ttl'[key] >= ttl[key]
           /\ \A key \in extends \ {Instance} : Exists(key)' /\ ttl'[key] > LEDGER_THRESHOLD_USER
           /\ Exists(Instance)' /\ ttl'[Instance] > LEDGER_THRESHOLD_SHARED
           /\ since_call' = 0
  <1>1. /\ ttl \in [Keys -> Int \cup {None}]
        /\ \A key \in Keys : ttl[key] # None => ttl[key] >= -1
        /\ ttl[Instance] \in Int
    BY KeyFacts DEF TypeOK, Exists
  <1>2. \A key \in extends : ttl[key] # None => ttl[key] >= 0
    BY <1>1, KeyFacts DEF Call
  <1>3. ttl' = [key \in Keys |-> IF key \notin extends THEN ttl[key]
                                ELSE IF key = Instance THEN ExtendedInstance(ttl[key])
                                ELSE Written(ttl[key])]
    BY DEF Call
  <1>4. /\ ttl'[Instance] \in Int
        /\ ttl'[Instance] > LEDGER_THRESHOLD_SHARED
        /\ ttl'[Instance] >= ttl[Instance]
    BY <1>1, <1>2, <1>3, InstanceExtends, KeyFacts
  <1>5. ASSUME NEW key \in extends \ {Instance}
        PROVE  /\ ttl'[key] \in Int
               /\ ttl'[key] > LEDGER_THRESHOLD_USER
               /\ ttl[key] # None => ttl'[key] >= ttl[key]
    <2>1. ttl'[key] = Written(ttl[key])
      BY <1>3
    <2>2. QED
      BY <1>1, <1>2, <2>1, WrittenExtends
  <1>6. \A key \in Keys \ extends : ttl'[key] = ttl[key]
    BY <1>3
  <1>7. \A key \in Keys : ttl'[key] \in Int \cup {None}
    BY <1>1, <1>4, <1>5, <1>6
  <1>8. ttl' \in [Keys -> Int \cup {None}]
    BY <1>3, <1>7
  <1>9. QED
    BY <1>1, <1>4, <1>5, <1>6, <1>8 DEF Exists, Call

\* So after a call that leaves the reward token alone every bound still holds, and for
\* a user whose entries it writes the count may start again.
LEMMA CallKeepsInv ==
    ASSUME Inv, NEW reads \in SUBSET (Keys \ {Instance}),
           NEW extends \in SUBSET Keys, Instance \in extends, Call(reads, extends),
           UNCHANGED reward_token,
           \/ UNCHANGED since_move
           \/ \E user \in Users : KeptKeys(user) \subseteq extends /\ Moves(user)
    PROVE  Inv'
  <1>1. /\ ttl' \in [Keys -> Int \cup {None}]
        /\ \A key \in Keys : Exists(key)' => ttl'[key] >= Archived
        /\ \A key \in Keys : Exists(key) => Exists(key)' /\ ttl'[key] >= ttl[key]
        /\ \A key \in extends \ {Instance} : Exists(key)' /\ ttl'[key] > LEDGER_THRESHOLD_USER
        /\ Exists(Instance)' /\ ttl'[Instance] > LEDGER_THRESHOLD_SHARED
        /\ since_call' = 0
    BY CallExtends DEF Inv
  <1>2. since_move' \in [Users -> Nat]
    BY DEF Inv, TypeOK, Moves
  <1>3. TypeOK'
    <2>1. reward_token # None => Exists(Rwd(reward_token))'
      BY <1>1, KeyFacts DEF Inv, TypeOK
    <2>2. Exists(Vault)'
      BY <1>1, KeyFacts DEF Inv, TypeOK
    <2>3. QED
      BY <1>1, <1>2, <2>1, <2>2, KeyFacts DEF Inv, TypeOK, Rwd, Exists
  <1>4. ASSUME NEW user \in Users, since_move'[user] <= LEDGER_THRESHOLD_USER,
               NEW key \in KeptKeys(user)
        PROVE  Exists(key)' /\ ttl'[key] + since_move'[user] > LEDGER_THRESHOLD_USER
    <2>1. /\ key \in Keys
          /\ ttl[key] \in Int \cup {None} /\ ttl'[key] \in Int \cup {None}
          /\ since_move[user] \in Nat /\ since_move'[user] \in Nat
      BY <1>1, <1>2, KeptKeysType DEF Inv, TypeOK
    <2>2. CASE since_move'[user] = since_move[user]
      BY <1>1, <1>4, <2>1, <2>2 DEF Inv, UserEntriesOutlive, Outlives, Exists
    <2>3. CASE KeptKeys(user) \subseteq extends
      BY KeptKeysType, <1>1, <1>4, <2>1, <2>3 DEF Exists, Inv
    <2>4. QED
      BY <2>2, <2>3 DEF Inv, TypeOK, Moves
  <1>5. UserEntriesOutlive'
    BY <1>4 DEF UserEntriesOutlive, Outlives, KeptKeys, CurrentRwd, Exists, Rwd,
               Shares, Vault
  <1>6. InstanceOutlives'
    BY <1>1, KeyFacts DEF InstanceOutlives, Outlives, Exists
  <1>7. QED
    BY <1>3, <1>5, <1>6 DEF Inv

-----------------------------------------------------------------------------
(***************************************************************************)
(* One lemma for each kind of step.                                        *)
(***************************************************************************)

\* The constructor writes the instance and the vault, with their full lives.
LEMMA InitInv == Init => Inv
  <1>1. SUFFICES ASSUME Init PROVE Inv
    OBVIOUS
  <1>2. \A key \in Keys : ttl[key] = IF key = Instance THEN MIN_PERSISTENT_TTL - 1
                                    ELSE IF key = Vault THEN Written(None)
                                    ELSE None
    BY <1>1 DEF Init
  <1>3. /\ ttl[Instance] = MIN_PERSISTENT_TTL - 1
        /\ ttl[Vault] = Written(None) /\ Written(None) \in Int /\ Written(None) >= Archived
        /\ \A key \in Keys \ {Instance, Vault} : ttl[key] = None
    <2>1. Written(None) \in Int /\ Written(None) >= Archived
      BY DEF Written, Extended
    <2>2. QED
      BY <1>2, <2>1, KeyFacts
  <1>4. ttl \in [Keys -> Int \cup {None}]
    <2>1. \A key \in Keys : ttl[key] \in Int \cup {None}
      BY <1>3
    <2>2. QED
      BY <1>1, <2>1 DEF Init
  <1>5. TypeOK
    BY <1>1, <1>3, <1>4 DEF Init, TypeOK, Exists
  <1>6. UserEntriesOutlive /\ InstanceOutlives
    BY <1>1 DEF Init, UserEntriesOutlive, InstanceOutlives
  <1>7. QED
    BY <1>5, <1>6 DEF Inv

\* What deposits and withdrawals read and write are persistent entries, and among the
\* written ones are those that the user relies on.
LEMMA SettlementFootprint ==
    ASSUME TypeOK, NEW user \in Users, NEW moved \in BOOLEAN
    PROVE  /\ {Vault, Shares(user)} \cup CurrentRwd \cup CurrentAccount(user)
                \in SUBSET (Keys \ {Instance})
           /\ {Instance, Vault, Shares(user)} \cup RewardWrites(user, moved) \in SUBSET Keys
           /\ KeptKeys(user)
                \subseteq {Instance, Vault, Shares(user)} \cup RewardWrites(user, moved)
  BY KeyFacts DEF CurrentRwd, CurrentAccount, RewardWrites, KeptKeys, TypeOK

\* A deposit writes every entry that its user keeps alive.
LEMMA DepositInv ==
    ASSUME Inv, NEW user \in Users, NEW moved \in BOOLEAN, Deposit(user, moved)
    PROVE  Inv'
  BY SettlementFootprint, CallKeepsInv DEF Deposit, Inv

\* So does a withdrawal.
LEMMA WithdrawInv ==
    ASSUME Inv, NEW user \in Users, NEW moved \in BOOLEAN, Withdraw(user, moved)
    PROVE  Inv'
  BY SettlementFootprint, CallKeepsInv DEF Withdraw, Inv

\* A claim writes less, but shortens no life either.
LEMMA ClaimRewardsInv ==
    ASSUME Inv, NEW user \in Users, ClaimRewards(user)
    PROVE  Inv'
  <1>1. /\ {Vault, Shares(user)} \in SUBSET (Keys \ {Instance})
        /\ {Instance} \cup CurrentRwd \cup CurrentAccount(user) \in SUBSET Keys
    BY KeyFacts DEF CurrentRwd, CurrentAccount, Inv, TypeOK
  <1>2. QED
    BY <1>1, CallKeepsInv DEF ClaimRewards

\* The entry of the new reward token is written by the call that makes it current.
LEMMA SetRewardsInv ==
    ASSUME Inv, NEW token \in Tokens, SetRewards(token)
    PROVE  Inv'
  <1>. DEFINE extends == {Instance, Rwd(token)} \cup CurrentRwd
  <1>1. {Vault} \in SUBSET (Keys \ {Instance}) /\ extends \in SUBSET Keys
    BY KeyFacts DEF CurrentRwd, Inv, TypeOK
  <1>2. /\ ttl' \in [Keys -> Int \cup {None}]
        /\ \A key \in Keys : Exists(key)' => ttl'[key] >= Archived
        /\ \A key \in Keys : Exists(key) => Exists(key)' /\ ttl'[key] >= ttl[key]
        /\ \A key \in extends \ {Instance} : Exists(key)' /\ ttl'[key] > LEDGER_THRESHOLD_USER
        /\ Exists(Instance)' /\ ttl'[Instance] > LEDGER_THRESHOLD_SHARED
        /\ since_call' = 0
    BY <1>1, CallExtends DEF Inv, SetRewards
  <1>3. reward_token' = token /\ UNCHANGED since_move
    BY DEF SetRewards
  <1>4. TypeOK'
    BY <1>2, <1>3, KeyFacts DEF Inv, TypeOK, Exists, Rwd
  <1>5. ASSUME NEW user \in Users, since_move[user] <= LEDGER_THRESHOLD_USER,
               NEW key \in {Vault, Shares(user), Rwd(token)}
        PROVE  Exists(key)' /\ ttl'[key] + since_move[user] > LEDGER_THRESHOLD_USER
    <2>1. /\ key \in Keys /\ since_move[user] \in Nat
          /\ ttl[key] \in Int \cup {None} /\ ttl'[key] \in Int \cup {None}
      BY <1>2, KeyFacts DEF Inv, TypeOK
    <2>2. CASE key = Rwd(token)
      BY <1>2, <2>1, <2>2, KeyFacts DEF Exists
    <2>3. CASE key \in KeptKeys(user)
      BY <1>2, <1>5, <2>1, <2>3 DEF Inv, UserEntriesOutlive, Outlives, Exists
    <2>4. QED
      BY <2>2, <2>3 DEF KeptKeys
  <1>6. \A user \in Users : KeptKeys(user)' \subseteq {Vault, Shares(user), Rwd(token)}
    BY <1>3 DEF KeptKeys, CurrentRwd, Rwd, Shares, Vault
  <1>7. UserEntriesOutlive'
    BY <1>3, <1>5, <1>6 DEF UserEntriesOutlive, Outlives, Exists
  <1>8. InstanceOutlives'
    BY <1>2, KeyFacts DEF InstanceOutlives, Outlives, Exists
  <1>9. QED
    BY <1>4, <1>7, <1>8 DEF Inv

\* A call of the admin extends the vault and the instance.
LEMMA AdminCallInv == Inv /\ AdminCall => Inv'
  <1>1. {Instance, Vault} \in SUBSET Keys /\ {} \in SUBSET (Keys \ {Instance})
    BY KeyFacts
  <1>2. QED
    BY <1>1, CallKeepsInv DEF AdminCall

\* A change of role extends the instance only.
LEMMA RoleCallInv == Inv /\ RoleCall => Inv'
  <1>1. {} \in SUBSET (Keys \ {Instance}) /\ {Instance} \in SUBSET Keys
    BY KeyFacts
  <1>2. QED
    BY <1>1, CallKeepsInv DEF RoleCall

\* Only an entry that nobody relies on is there to be restored.
LEMMA RestoreInv ==
    ASSUME Inv, NEW key \in Keys, Restore(key)
    PROVE  Inv'
  <1>1. /\ ttl[key] = -1
        /\ ttl' = [ttl EXCEPT ![key] = MIN_PERSISTENT_TTL - 1]
        /\ UNCHANGED <<reward_token, since_move, since_call>>
    BY DEF Restore
  <1>2. /\ ttl' \in [Keys -> Int \cup {None}]
        /\ \A k \in Keys : ttl[k] # None => ttl'[k] # None /\ ttl'[k] >= ttl[k]
        /\ \A k \in Keys : ttl'[k] # None => ttl'[k] >= -1
    BY <1>1 DEF Inv, TypeOK, Exists
  <1>3. TypeOK'
    BY <1>1, <1>2, KeyFacts DEF Inv, TypeOK, Exists, Rwd
  <1>4. ASSUME NEW k \in Keys, NEW since \in Nat, NEW threshold \in Nat,
               Outlives(k, since, threshold)
        PROVE  Exists(k)' /\ ttl'[k] + since > threshold
    <2>1. ttl[k] \in Int /\ ttl'[k] \in Int
      BY <1>2, <1>4 DEF Outlives, Exists, Inv, TypeOK
    <2>2. QED
      BY <1>2, <1>4, <2>1 DEF Outlives, Exists
  <1>5. UserEntriesOutlive'
    <2>1. \A user \in Users : KeptKeys(user)' = KeptKeys(user)
      BY <1>1 DEF KeptKeys, CurrentRwd, Rwd, Shares, Vault
    <2>2. QED
      BY <1>1, <1>4, <2>1, KeptKeysType DEF UserEntriesOutlive, Outlives, Inv, TypeOK
  <1>6. InstanceOutlives'
    BY <1>1, <1>4, KeyFacts DEF InstanceOutlives, Outlives, Instance, Inv, TypeOK
  <1>7. QED
    BY <1>3, <1>5, <1>6 DEF Inv

\* A ledger takes one from what is left and adds one to what has passed.
LEMMA LedgerClosesInv == Inv /\ LedgerCloses => Inv'
  <1>1. SUFFICES ASSUME Inv, LedgerCloses PROVE Inv'
    OBVIOUS
  <1>2. /\ ttl' = [key \in Keys |-> IF ttl[key] \in {None, -1} THEN ttl[key]
                                     ELSE ttl[key] - 1]
        /\ since_move' = [user \in Users |->
                             IF since_move[user] > LEDGER_THRESHOLD_USER
                             THEN since_move[user] ELSE since_move[user] + 1]
        /\ since_call' = IF since_call > LEDGER_THRESHOLD_SHARED
                         THEN since_call ELSE since_call + 1
        /\ UNCHANGED reward_token
    BY <1>1 DEF LedgerCloses
  <1>3. /\ ttl' \in [Keys -> Int \cup {None}]
        /\ \A key \in Keys : ttl[key] # None => ttl'[key] # None /\ ttl'[key] >= -1
        /\ \A key \in Keys : ttl'[key] # None => ttl[key] # None
    BY <1>1, <1>2 DEF Inv, TypeOK, Exists
  <1>4. TypeOK'
    BY <1>1, <1>2, <1>3, KeyFacts DEF Inv, TypeOK, Exists, Rwd
  <1>5. ASSUME NEW key \in Keys, NEW since \in Nat, NEW threshold \in Nat,
               since + 1 <= threshold, Outlives(key, since, threshold)
        PROVE  Exists(key)' /\ ttl'[key] + (since + 1) > threshold
    <2>1. ttl[key] \in Int /\ ttl[key] > 0
      BY <1>1, <1>5 DEF Outlives, Exists, Inv, TypeOK
    <2>2. ttl'[key] = ttl[key] - 1
      BY <1>2, <2>1
    <2>3. QED
      BY <1>3, <1>5, <2>1, <2>2 DEF Outlives, Exists
  <1>6. ASSUME NEW user \in Users, since_move'[user] <= LEDGER_THRESHOLD_USER,
               NEW key \in KeptKeys(user)'
        PROVE  Exists(key)' /\ ttl'[key] + since_move'[user] > LEDGER_THRESHOLD_USER
    <2>1. since_move[user] \in Nat /\ since_move'[user] = since_move[user] + 1
      BY <1>1, <1>2, <1>6 DEF Inv, TypeOK
    <2>2. key \in KeptKeys(user) /\ key \in Keys
      BY <1>1, <1>2, <1>6, KeptKeysType DEF Inv, KeptKeys, CurrentRwd, Rwd, Shares, Vault
    <2>3. Outlives(key, since_move[user], LEDGER_THRESHOLD_USER)
      BY <1>1, <1>6, <2>1, <2>2 DEF Inv, UserEntriesOutlive
    <2>4. QED
      BY <1>5, <1>6, <2>1, <2>2, <2>3
  <1>7. UserEntriesOutlive'
    BY <1>6 DEF UserEntriesOutlive, Outlives, Exists
  <1>8. InstanceOutlives'
    BY <1>1, <1>2, <1>5, KeyFacts
       DEF InstanceOutlives, Outlives, Exists, Instance, Inv, TypeOK
  <1>9. QED
    BY <1>4, <1>7, <1>8 DEF Inv

\* Nothing happens.
LEMMA StutterInv == Inv /\ UNCHANGED vars => Inv'
  <1>1. SUFFICES ASSUME Inv, UNCHANGED vars PROVE Inv'
    OBVIOUS
  <1>2. TypeOK'
    BY <1>1 DEF vars, Inv, TypeOK, Exists, Rwd, Instance, Vault
  <1>3. UserEntriesOutlive' /\ InstanceOutlives'
    BY <1>1 DEF vars, Inv, UserEntriesOutlive, InstanceOutlives, Outlives, Exists,
                KeptKeys, CurrentRwd, Rwd, Shares, Vault, Instance
  <1>4. QED
    BY <1>2, <1>3 DEF Inv

-----------------------------------------------------------------------------
(***************************************************************************)
(* The theorems.                                                           *)
(***************************************************************************)

\* The bounds on what every entry has left to live hold in every state.
THEOREM Invariance == Spec => []Inv
  <1>1. Inv /\ [Next]_vars => Inv'
    BY DepositInv, WithdrawInv, ClaimRewardsInv, SetRewardsInv, AdminCallInv,
       RoleCallInv, RestoreInv, LedgerClosesInv, StutterInv DEF Next
  <1>2. QED
    BY InitInv, <1>1, PTL DEF Spec

\* Every entry has a TTL, and the current reward token has its reward data: no call
\* that settles rewards finds them missing.
THEOREM TypeCorrect == Spec => []TypeOK
  <1>1. Inv => TypeOK
    BY DEF Inv
  <1>2. QED
    BY Invariance, <1>1, PTL

\* The shares of who deposits or withdraws at least every LEDGER_THRESHOLD_USER ledgers,
\* the vault and the reward data are never archived, although reads do not extend them.
THEOREM UserEntriesTheorem == Spec => []UserEntriesKept
  <1>1. Inv => UserEntriesKept
    <2>1. SUFFICES ASSUME Inv, NEW user \in Users,
                          since_move[user] <= LEDGER_THRESHOLD_USER,
                          NEW key \in KeptKeys(user)
                   PROVE  Live(key)
      BY DEF UserEntriesKept, KeptKeys
    <2>2. key \in Keys /\ Outlives(key, since_move[user], LEDGER_THRESHOLD_USER)
      BY <2>1, KeptKeysType DEF Inv, UserEntriesOutlive
    <2>3. QED
      BY <2>1, <2>2 DEF Outlives, Exists, Live, Inv, TypeOK
  <1>2. QED
    BY Invariance, <1>1, PTL

\* The instance, with the roles, the fee and the reward token, is never archived while
\* somebody calls the contract at least every LEDGER_THRESHOLD_SHARED ledgers.
THEOREM InstanceTheorem == Spec => []InstanceKept
  <1>1. Inv => InstanceKept
    BY KeyFacts DEF Inv, InstanceOutlives, Outlives, InstanceKept, Live, Exists, TypeOK
  <1>2. QED
    BY Invariance, <1>1, PTL

=============================================================================
