------------------------------- MODULE Vault -------------------------------
(***************************************************************************)
(* The accounting of the fee vault: src/src/vault.rs, the entry points of  *)
(* src/src/contract.rs that move b_tokens or change the fee, and the share *)
(* balances of src/src/storage.rs.                                         *)
(*                                                                         *)
(* The vault holds one position of b_tokens in a Blend lending pool.  The  *)
(* position belongs partly to the depositors (`total_b_tokens', split by   *)
(* shares) and partly to the admin (`admin_balance').  Every entry point   *)
(* first settles: it reads the pool's b_rate and moves b_tokens between    *)
(* the two parts as the fee configuration says.                            *)
(*                                                                         *)
(* An invocation of the contract is one atomic transaction: a panic        *)
(* anywhere in it reverts everything, so a call that panics is a stutter   *)
(* and every requirement of the code is a guard.  The reward state that    *)
(* vault.rs also updates (update_rewards) is in module Rewards.            *)
(***************************************************************************)
EXTENDS VaultData, Totals

CONSTANTS
    Users,             \* the depositors
    Amounts,           \* amounts of underlying a caller may ask for
    FeeConfigs,        \* fee configurations the admin may ask for, valid or not
    BRates,            \* the b_rates the pool's reserve can be at
    PoolPaysZero,      \* the pool accepts a withdrawal of no underlying
    MaxTime,           \* bound: the last ledger timestamp
    MaxBTokens,        \* bound: the largest position in the pool
    MaxShares          \* bound: the most shares outstanding

ASSUME UsersAssumption   == IsFiniteSet(Users)
ASSUME AmountsAssumption == Amounts \subseteq Int
ASSUME FeesAssumption    == FeeConfigs \subseteq [rate_type : Nat, rate : Nat]
ASSUME RatesAssumption   == BRates \subseteq Nat \ {0}
ASSUME PoolAssumption    == PoolPaysZero \in BOOLEAN
ASSUME BoundAssumption   == MaxTime \in Nat /\ MaxBTokens \in Nat /\ MaxShares \in Nat

VARIABLES
    vault,    \* storage "Vault": the VaultData record
    shares,   \* storage Shares(user)
    fee,      \* storage "Fee"
    pool,     \* the Blend reserve: its b_rate and the vault's b_tokens in it
    now       \* the ledger timestamp

vars == <<vault, shares, fee, pool, now>>

\* get_vault_updated.
GetVaultUpdated == UpdateRate(vault, fee, pool.b_rate, now)

-----------------------------------------------------------------------------
(***************************************************************************)
(* The Blend pool (external): a supply mints b_tokens rounded down, a      *)
(* withdrawal burns b_tokens rounded up, both at the current b_rate.       *)
(***************************************************************************)

PoolSupply(amount) ==
    LET minted == (amount * SCALAR_12) \div pool.b_rate
    IN  /\ pool.b_tokens + minted <= MaxBTokens
        /\ pool' = [pool EXCEPT !.b_tokens = @ + minted]

PoolBurnt(amount) == -((-(amount * SCALAR_12)) \div pool.b_rate)

\* The capped branch of a withdrawal can ask for nothing.  Whether the pool refuses
\* that is not in the sources: both kinds of pool are considered.
PoolAccepts(amount) == amount > 0 \/ PoolPaysZero

PoolWithdraw(amount) ==
    /\ PoolAccepts(amount)
    /\ PoolBurnt(amount) <= pool.b_tokens
    /\ pool' = [pool EXCEPT !.b_tokens = @ - PoolBurnt(amount)]

\* Borrowers pay interest (the rate rises) or a bad debt is socialised (it drops).
PoolRateMoves ==
    /\ \E rate \in BRates \ {pool.b_rate} : pool' = [pool EXCEPT !.b_rate = rate]
    /\ UNCHANGED <<vault, shares, fee, now>>

Tick ==
    /\ now < MaxTime
    /\ now' = now + 1
    /\ UNCHANGED <<vault, shares, fee, pool>>

-----------------------------------------------------------------------------
(***************************************************************************)
(* The entry points.                                                       *)
(***************************************************************************)

Init ==
    /\ fee \in {f \in FeeConfigs : ValidFee(f)}
    /\ pool \in [b_rate : BRates, b_tokens : {0}]
    /\ now = 0
    /\ vault = [last_update_timestamp |-> now, b_rate |-> pool.b_rate,
                total_shares |-> 0, total_b_tokens |-> 0, admin_balance |-> 0]
    /\ shares = [u \in Users |-> 0]

Deposit(user, amount) ==
    LET v             == GetVaultUpdated
        b_tokens      == UnderlyingToBTokensDown(v, amount)
        share_amount  == BTokensToSharesDown(v, b_tokens)
    IN  /\ amount > 0
        /\ PoolSupply(amount)
        /\ b_tokens > 0
        /\ share_amount > 0
        /\ v.total_shares + share_amount <= MaxShares
        /\ vault' = [v EXCEPT !.total_shares = @ + share_amount,
                              !.total_b_tokens = @ + b_tokens]
        /\ shares' = [shares EXCEPT ![user] = @ + share_amount]
        /\ UNCHANGED <<fee, now>>

\* Mutant: the capped withdrawal keeps the b_tokens of the shares, not the ones
\* the pool burns for the underlying paid.
BurnWithoutReRounding(v, user_shares) ==
    LET b_tokens == SharesToBTokensDown(v, user_shares)
    IN  [shares     |-> user_shares,
         b_tokens   |-> b_tokens,
         underlying |-> BTokensToUnderlyingDown(v, b_tokens)]

\* Mutant: the b_tokens of the shares are rounded up.
ExitRoundedUp(v, user_shares) ==
    LET underlying == BTokensToUnderlyingDown(v,
                        FixedDivCeil(user_shares, v.total_shares, v.total_b_tokens))
    IN  [shares     |-> user_shares,
         b_tokens   |-> UnderlyingToBTokensUp(v, underlying),
         underlying |-> underlying]

\* A withdrawal of everything the user has.
FullWithdrawal(v, user_shares) ==
    LET underlying == BTokensToUnderlyingDown(v, SharesToBTokensDown(v, user_shares))
    IN  [shares     |-> user_shares,
         b_tokens   |-> UnderlyingToBTokensUp(v, underlying),
         underlying |-> underlying]

\* Mutant: a request for more than the user's balance is not cut down to it.
UncutWithdrawal(v, user_shares, amount) ==
    LET b_tokens == UnderlyingToBTokensUp(v, amount)
    IN  [shares     |-> BTokensToSharesUp(v, b_tokens),
         b_tokens   |-> b_tokens,
         underlying |-> amount]

\* Mutant: a request that burns exactly the user's shares is paid as a full one.
EagerFullWithdrawal(v, user_shares, amount) ==
    LET b_tokens == UnderlyingToBTokensUp(v, amount)
    IN  IF BTokensToSharesUp(v, b_tokens) >= user_shares
        THEN FullWithdrawal(v, user_shares)
        ELSE UncutWithdrawal(v, user_shares, amount)

\* What a withdrawal of `amount' burns and pays: all the user has, if it asks for
\* more.
Withdrawal(v, user_shares, amount) ==
    LET b_tokens     == UnderlyingToBTokensUp(v, amount)
        share_amount == BTokensToSharesUp(v, b_tokens)
    IN  IF share_amount > user_shares
        THEN FullWithdrawal(v, user_shares)
        ELSE [shares |-> share_amount, b_tokens |-> b_tokens, underlying |-> amount]

\* The request passes the checks that do not depend on what the vault holds.  The one
\* on user_shares, which the code makes on the full withdrawal only, is made for all:
\* the other branch burns at least one of the user's shares.
WithdrawalAccepted(v, user_shares, amount) ==
    /\ amount > 0
    /\ UnderlyingToBTokensUp(v, amount) > 0
    /\ BTokensToSharesUp(v, UnderlyingToBTokensUp(v, amount)) > 0
    /\ user_shares > 0

\* Mutant: the last shares of the vault are not let out.
ReservesRemain(v, w) == w.shares < v.total_shares /\ w.b_tokens < v.total_b_tokens

\* The check that raises InsufficientReserves passes.
ReservesSuffice(v, w) == w.shares <= v.total_shares /\ w.b_tokens <= v.total_b_tokens

Withdraw(user, amount) ==
    LET v == GetVaultUpdated
        w == Withdrawal(v, shares[user], amount)
    IN  /\ WithdrawalAccepted(v, shares[user], amount)
        /\ ReservesSuffice(v, w)
        /\ vault' = [v EXCEPT !.total_shares = @ - w.shares,
                              !.total_b_tokens = @ - w.b_tokens]
        /\ shares' = [shares EXCEPT ![user] = @ - w.shares]
        /\ PoolWithdraw(w.underlying)
        /\ UNCHANGED <<fee, now>>

AdminDeposit(amount) ==
    LET v        == GetVaultUpdated
        b_tokens == UnderlyingToBTokensDown(v, amount)
    IN  /\ amount > 0
        /\ PoolSupply(amount)
        /\ b_tokens > 0
        /\ vault' = [v EXCEPT !.admin_balance = @ + b_tokens]
        /\ UNCHANGED <<shares, fee, now>>

AdminWithdraw(amount) ==
    LET v        == GetVaultUpdated
        b_tokens == UnderlyingToBTokensUp(v, amount)
    IN  /\ amount > 0
        /\ PoolWithdraw(amount)
        /\ b_tokens > 0
        /\ b_tokens <= v.admin_balance
        /\ vault' = [v EXCEPT !.admin_balance = @ - b_tokens]
        /\ UNCHANGED <<shares, fee, now>>

\* Mutant: the new configuration applies to the interest earned under the old one.
SetFeeUnsettled(f) ==
    /\ ValidFee(f)
    /\ fee' = f
    /\ UNCHANGED <<vault, shares, pool, now>>

SetFee(f) ==
    /\ ValidFee(f)
    /\ vault' = GetVaultUpdated
    /\ fee' = f
    /\ UNCHANGED <<shares, pool, now>>

Next ==
    \/ \E user \in Users, amount \in Amounts : Deposit(user, amount)
    \/ \E user \in Users, amount \in Amounts : Withdraw(user, amount)
    \/ \E amount \in Amounts : AdminDeposit(amount)
    \/ \E amount \in Amounts : AdminWithdraw(amount)
    \/ \E f \in FeeConfigs : SetFee(f)
    \/ PoolRateMoves
    \/ Tick

Spec == Init /\ [][Next]_vars

\* The user takes out everything it has.
Leave(user) ==
    /\ \E amount \in Amounts : Withdraw(user, amount)
    /\ shares'[user] = 0

\* A holder who wants to leave asks again until it is out.  Nobody else owes it a step.
Persistence == \A user \in Users : WF_vars(Leave(user))

FairSpec == Spec /\ Persistence

-----------------------------------------------------------------------------
(***************************************************************************)
(* What callers are shown (the read-only entry points).                    *)
(***************************************************************************)

GetUnderlyingTokens(user) ==
    IF shares[user] > 0
    THEN LET v == GetVaultUpdated
         IN  BTokensToUnderlyingDown(v, SharesToBTokensDown(v, shares[user]))
    ELSE 0

GetUnderlyingAdminBalance ==
    BTokensToUnderlyingDown(GetVaultUpdated, GetVaultUpdated.admin_balance)

-----------------------------------------------------------------------------
(***************************************************************************)
(* Safety.                                                                 *)
(***************************************************************************)

\* Every variable has its type; the stored fee configuration is a valid one and
\* the vault was last settled at some time that has passed, at a positive b_rate.
TypeOK ==
    /\ vault \in [last_update_timestamp : 0..now, b_rate : Nat \ {0},
                  total_shares : Nat, total_b_tokens : Nat, admin_balance : Int]
    /\ shares \in [Users -> Nat]
    /\ fee \in [rate_type : 0..2, rate : 0..SCALAR_7]
    /\ pool \in [b_rate : Nat \ {0}, b_tokens : Int]
    /\ now \in Nat

\* The admin balance never goes negative, however much the fixed rate takes from
\* it: the state that vault.rs handles ("if the admin balance is negative") and
\* its test calls one that "should never be reached".
AdminBalanceNotNegative == vault.admin_balance >= 0

\* total_shares is the sum of the users' shares.  The two are written by separate
\* storage calls, after a cap that may have changed the amount.
SharesConserved == vault.total_shares = Total(Users, shares)

\* The depositors' b_tokens and the admin's together are exactly the position the
\* pool holds for the vault.  The contract never reads its position: it predicts
\* what the pool mints and burns, in two different orders of the calls, and
\* repeats the pool's rounding.
Backed == pool.b_tokens = vault.total_b_tokens + vault.admin_balance

\* Outstanding shares are worth something.  Otherwise the 1:1 branch of the
\* conversions would price a new deposit as if there were no holders.
NoWorthlessShares == vault.total_shares > 0 => vault.total_b_tokens > 0

\* InsufficientReserves is never raised against a holder: whatever an accepted
\* request asks for, the vault has the shares and b_tokens to burn and the pool
\* has the position, so every holder can leave, in any order.
WithdrawalsCovered ==
    \A user \in Users, amount \in Amounts :
        LET v == GetVaultUpdated
            w == Withdrawal(v, shares[user], amount)
        IN  WithdrawalAccepted(v, shares[user], amount)
            => /\ ReservesSuffice(v, w)
               /\ PoolBurnt(w.underlying) <= pool.b_tokens

\* A withdrawal pays what was asked for or the balance get_underlying_tokens
\* shows, whichever is less: never more than the balance, although shares, b_tokens
\* and underlying are rounded one after the other, and never less.
WithdrawPaysBalance ==
    \A user \in Users, amount \in Amounts :
        LET v       == GetVaultUpdated
            balance == GetUnderlyingTokens(user)
        IN  WithdrawalAccepted(v, shares[user], amount)
            => Withdrawal(v, shares[user], amount).underlying
               = IF amount <= balance THEN amount ELSE balance

\* A holder who asks for anything above the balance shown to it is never refused and
\* is out afterwards: whatever rounding, fees and other users did before, no check of
\* the withdrawal and none of the pool rejects it, and none of its shares is left
\* behind.  The balance itself must be one that the pool pays: of a pool that refuses
\* zero, a holder whose shares are worth less than one unit gets nothing.
HoldersMayLeave ==
    \A user \in Users, amount \in Amounts :
        LET v == GetVaultUpdated
            w == Withdrawal(v, shares[user], amount)
        IN  /\ shares[user] > 0
            /\ amount > GetUnderlyingTokens(user)
            /\ PoolAccepts(GetUnderlyingTokens(user))
            => /\ WithdrawalAccepted(v, shares[user], amount)
               /\ ReservesSuffice(v, w)
               /\ PoolAccepts(w.underlying)
               /\ PoolBurnt(w.underlying) <= pool.b_tokens
               /\ w.shares = shares[user]

-----------------------------------------------------------------------------
(***************************************************************************)
(* What the fee configurations promise, on the vault that get_vault shows. *)
(* Values are b_tokens times b_rate; a b_token is new_rate, a unit of      *)
(* underlying SCALAR_12.                                                   *)
(***************************************************************************)

\* The depositors' value if it had grown by the APR of the fee configuration since
\* the last update, exactly, times SCALAR_7 * SECONDS_PER_YEAR.
ValueAtFeeRate ==
    LET elapsed == now - vault.last_update_timestamp
    IN  vault.total_b_tokens * vault.b_rate
        * (SCALAR_7 * SECONDS_PER_YEAR + fee.rate * elapsed)

ValueNow == GetVaultUpdated.total_b_tokens * pool.b_rate

\* Take rate: of the interest since the last update the admin gets no more than
\* its percentage, and no less than that minus what the three roundings lose.
TakeRateKept ==
    LET interest == vault.total_b_tokens * (pool.b_rate - vault.b_rate)
        taken    == vault.total_b_tokens * pool.b_rate - ValueNow
    IN  fee.rate_type = 0 /\ interest > 0
        => /\ taken * SCALAR_7 <= interest * fee.rate
           /\ (taken + pool.b_rate + 2 * SCALAR_12) * SCALAR_7 > interest * fee.rate

\* Capped rate, and fixed rate: over one update the depositors earn no more than the
\* rate, but for the rounding of one b_token, of one unit of underlying, and of one
\* unit of the target b_rate for each b_token.
CapRespected ==
    fee.rate_type \in {1, 2} /\ pool.b_rate > vault.b_rate
    => ValueNow * SCALAR_7 * SECONDS_PER_YEAR
       < ValueAtFeeRate
         + (vault.total_b_tokens + pool.b_rate + SCALAR_12) * SCALAR_7 * SECONDS_PER_YEAR

\* Fixed rate: when the b_rate rose, the depositors earn the rate, but for one unit
\* in the growth rate, or the admin balance is exhausted.
FixedRateKept ==
    fee.rate_type = 2 /\ pool.b_rate > vault.b_rate /\ GetVaultUpdated.admin_balance > 0
    => (ValueNow * SCALAR_12 + vault.total_b_tokens * vault.b_rate)
           * SCALAR_7 * SECONDS_PER_YEAR
       >= ValueAtFeeRate * SCALAR_12

\* README: a fixed rate vault "will attempt to supplement the users gains if the
\* calculated interest rate over the interaction period is below the fixed rate",
\* with the admin balance.  The b_rate did not move: the interest rate is zero.
FlatRateSupplemented ==
    fee.rate_type = 2 /\ pool.b_rate = vault.b_rate /\ GetVaultUpdated.admin_balance > 0
    => (ValueNow * SCALAR_12 + vault.total_b_tokens * vault.b_rate)
           * SCALAR_7 * SECONDS_PER_YEAR
       >= ValueAtFeeRate * SCALAR_12

-----------------------------------------------------------------------------
(***************************************************************************)
(* Action properties.                                                      *)
(***************************************************************************)

\* No step makes a share worth less underlying, unless the pool's rate dropped, and
\* no step whatever makes it worth fewer b_tokens than the interest explains: fees
\* come out of interest only and every conversion rounds for the vault.
SharePriceProtected ==
    LET B == vault.total_b_tokens
        S == vault.total_shares
        r == vault.b_rate
    IN  S > 0 /\ S' > 0 => IF r' >= r THEN B' * r' * S >= B * r * S'
                                      ELSE B' * S >= B * S'

SharePriceNeverFalls == [][SharePriceProtected]_vars

\* What others do costs a holder nothing: while the pool's rate and the time stand
\* still, no deposit, withdrawal, admin call or fee change lowers the balance shown
\* to a user who did not act, and none by a user changes the balance shown to the
\* admin.  A new fee configuration changes nobody's balance, up or down: it does not
\* apply to the time and the interest before it, so that a fixed rate set after a while
\* is not paid retroactively.
BystandersProtected ==
    /\ \A user \in Users :
           shares'[user] = shares[user] => GetUnderlyingTokens(user)' >= GetUnderlyingTokens(user)
    /\ shares' # shares => GetUnderlyingAdminBalance' = GetUnderlyingAdminBalance
    /\ fee' # fee =>
           /\ \A user \in Users : GetUnderlyingTokens(user)' = GetUnderlyingTokens(user)
           /\ GetUnderlyingAdminBalance' = GetUnderlyingAdminBalance

BystandersUnharmed ==
    [][pool.b_rate' = pool.b_rate /\ now' = now => BystandersProtected]_vars

\* What rounding for the vault costs the caller: the b_tokens that a deposit adds to
\* the position buy shares at the price of the settled vault, and the shares that a
\* withdrawal burns pay for the b_tokens it takes out, up to the price of one share; or,
\* if it takes out everything, up to one b_token and one unit of underlying.
CallersTreatedFairly ==
    LET v      == GetVaultUpdated
        traded == pool'.b_tokens - pool.b_tokens
        lost(user) == traded * v.total_shares
                      - (shares'[user] - shares[user]) * v.total_b_tokens
    IN  \A user \in Users :
            shares'[user] # shares[user] /\ v.total_shares > 0
            => \/ lost(user) < v.total_b_tokens
               \/ /\ shares'[user] = 0
                  /\ lost(user) * pool.b_rate < v.total_shares * (pool.b_rate + SCALAR_12)

RoundingBounded == [][CallersTreatedFairly]_vars

-----------------------------------------------------------------------------
(***************************************************************************)
(* Liveness.                                                               *)
(***************************************************************************)

\* Nobody can lock a holder in: whatever the other users, the admin and the pool go on
\* doing, a holder who keeps asking for its whole balance gets out.  Each transaction
\* of the others may change the price of a share, the fee and the position between two
\* attempts; none of them may leave the vault in a state that refuses the withdrawal.
\* Only a balance that the pool does not pay may keep it in: shares that have come to be
\* worth less than one unit, in a pool that refuses to pay zero.
HoldersGetOut ==
    \A user \in Users :
        shares[user] > 0
        ~> \/ shares[user] = 0
           \/ ~PoolAccepts(GetUnderlyingTokens(user))

=============================================================================
