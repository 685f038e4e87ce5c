# Fee vault: a TLA+ model, its checks and its proofs

The repository is a Soroban smart contract (Rust): a fee vault over one reserve of
a Blend lending pool. Depositors hold *shares* of the vault; the vault holds
*b_tokens* of the pool; the admin takes a part of the interest, or adds to it, and
may distribute other tokens as rewards.

This directory models the contract: the accounting of shares and b_tokens (`Vault`),
the reward emissions (`Rewards`), the two composed under the contract's entry points
with its roles and events (`FeeVault`), the life of its ledger entries (`Storage`) and
the estimate it shows (`Summary`). TLC checks them on small instances; TLAPS proves
the main properties, and that they hold of the whole contract, for every value of the
constants. Paths below are relative to the parent of this directory (the
repository is `src/`, its crate `src/src/`).

## 1. The system

| component | state | operations | modelled in |
|---|---|---|---|
| vault accounting (`vault.rs`) | `VaultData` (last update, b_rate, total shares, total b_tokens, admin balance), shares per user, `Fee` | constructor, deposit, withdraw, admin_deposit, admin_withdraw, set_fee, the getters | `VaultData`, `Vault` |
| reward emissions (`rewards.rs`) | reward token, `RewardData` per token, `UserRewards` per user and token | update_rewards (in deposit and withdraw), set_rewards, claim_rewards, get_rewards, get_reward_data | `Rewards` |
| entry points and roles (`contract.rs`) | admin, signer | every entry point, with set_admin, set_signer, claim_emissions and require_auth | `FeeVault` |
| events (`events.rs`) | none | one event per entry point | `FeeVault` |
| storage (`storage.rs`) | the ledger entries | get/set, TTL extension | the variables of all modules; TTLs in `Storage` |
| summary (`summary.rs`) | none | get_vault_summary: the estimated APR | `Summary` |
| fixed point arithmetic (external crate) | none | mul/div, floor/ceil | `FixedPoint` |
| pool client (`pool.rs`) | in the pool: the vault's position, the b_rate | supply, withdraw, reserve_b_rate, claim | external actions of `Vault`; `claim` in `FeeVault` |
| test utilities (`testutils.rs`) | the mock pool | set config, data, b_rate, backstop rate | the environment of `Summary` |
| errors (`errors.rs`) | none | codes of panics | not told apart |

**How the parts interact.** Every deposit, withdrawal, admin call and fee change
starts by settling the vault: `get_vault_updated` reads the pool's b_rate and
`update_rate` moves b_tokens between depositors and admin. Deposits and
withdrawals then settle the user's rewards (`update_rewards`) *before* its shares
change. The pool is called in the same transaction, before the settlement
(deposit, admin_deposit, admin_withdraw) or after (withdraw); the vault never reads
what the pool minted or burnt but computes the same number.

**What is hard.** There is no concurrency inside a call: an invocation is an atomic
transaction and a panic reverts all of it, so a failed call is a stuttering step
and a crash between two steps does not exist. What is hard is

* the *sequence* of calls: users, admin, pool and clock come in any order, and a
  sequence of legal calls may reach a state that no single call explains;
* *rounding*: up to four roundings in one call, each in one of two directions, and
  a caller who can repeat a call at will;
* *lazy settlement*: interest, fees and rewards are computed when somebody calls,
  from a rate, a fee, a share count and a time that were stored at the last call;
* the *predicted* position in the pool;
* *boundaries*: no shares, no b_tokens, an admin balance of zero, the end of a
  reward period, a change of the reward token;
* *composition*: each entry point calls the pool, settles, updates rewards, writes and
  publishes in its own order, and a step that is skipped or repeated is seen by none
  of the parts alone;
* *archival*: an entry that is read but not written grows old while it is in use.

`PROJECT.json` lists these as hazards, each at its line, with the properties that
would catch them.

**What makes each part correct.**

* Vault: the books equal the position in the pool; the total is the sum of the
  shares; the admin balance is not negative; everybody can always withdraw, and gets
  what is shown; no call lowers the value of a share or of somebody else's balance, and
  none costs its caller more than one unit of each rounding;
  each fee type takes and gives what it promises, up to rounding.
* Rewards: the vault holds what users may claim; rewards come from holding shares
  over time only, in equal parts; no account is ahead of its index.
* The contract: every change of a user's shares settles its rewards first; nothing that
  belongs to an address changes without its signature; the events account for every
  change of the ledger.
* Storage: what somebody keeps using is not archived.
* Summary: the estimate is continuous, follows the debt, and is what depositors get.

## 2. The modules

| module | what it is |
|---|---|
| `FixedPoint` | the four rounding operations; external, from their use |
| `Totals` | the sum of a number over a finite set, without recursion |
| `VaultData` | the record of the vault: its conversions and its settlement, and which fees are valid |
| `Vault` | EXTENDS `VaultData`, `Totals`: the calls of the vault, the pool, their properties |
| `MCVault` | fee configurations and symmetry for TLC |
| `Rewards` | the reward emissions, their properties |
| `MCRewards` | symmetry for TLC |
| `FeeVault` | EXTENDS `Vault`, INSTANCE `Rewards`: the entry points of the contract |
| `MCFeeVault` | fee configurations, signatures, view and symmetry for TLC |
| `Storage` | the TTLs of the ledger entries under the footprints of the calls |
| `MCStorage` | symmetry for TLC |
| `Summary` | EXTENDS `VaultData`: the estimated APR over the mock pool |
| `MCSummary` | the set-ups and expected values of the unit tests of `summary.rs` |
| `ArithmeticProofs` | lemmas: products, the rounding operations, the sums of `Totals` |
| `VaultDataProofs` | lemmas: what a settlement moves and each fee type leaves, the conversions |
| `VaultProofs` | theorems about `Vault` |
| `RewardsProofs` | theorems about `Rewards`: the invariant, and that only time earns rewards |
| `RewardsEarnedProofs` | theorems about `Rewards`: how much is earned, and that it can be paid |
| `FeeVaultProofs` | theorems about `FeeVault`: it implements `Rewards`; what is proved of the parts holds of it; consent, events |
| `StorageProofs` | theorems about `Storage` |
| `SummaryProofs` | theorems about `Summary` |

### Vault

| variable | code |
|---|---|
| `vault` | the `VaultData` entry; the record has the fields of the struct |
| `shares` | the `Shares(user)` entries |
| `fee` | the `Fee` entry |
| `pool` | external: the reserve's b_rate, and the b_tokens of the vault's position |
| `now` | the ledger timestamp |

Each entry point is one action that contains everything the call does: settling,
conversion, checks, the write of both entries, and what the pool does to the
position. The checks of the code (`require_positive`, `BalanceError`,
`InsufficientReserves`, `require_valid_fee`) are guards. `UpdateRate` is
`VaultData::update_rate`, with one operator for each branch of the fee type, so
that each keeps the roundings of the source in their order. `PoolRateMoves` and
`Tick` are the environment: any change of b_rate, up or down, and of time.

The capped branch can produce a withdrawal of zero underlying, for a user whose shares
are worth less than one unit. Nothing in the sources says whether the pool accepts it;
if it does not, the call reverts. The constant `PoolPaysZero` is the answer, and the
proofs hold for both. `vault_leave` takes the pool that refuses, which is the one that
matters for leaving; the other runs take the one that pays, which allows more behaviours.

Assumptions about the pool, from how the sources use it: a supply mints b_tokens
rounded down and a withdrawal burns them rounded up, both at the b_rate that
`reserve_b_rate` returns in the same transaction.

### Rewards

| variable | code |
|---|---|
| `reward_token` | the `RwdToken` entry, or `None` |
| `reward_data` | the `Rwd(token)` entries |
| `user_rewards` | the `UserRwd(key)` entries, by the key record itself |
| `balance` | external: what the contract holds of each reward token |
| `shares`, `total_shares` | what `rewards.rs` is told of the vault |
| `now` | the ledger timestamp |

`rewards.rs` passes (token, user) to storage functions whose parameters are (user,
token). The model keeps this: `UserRwdKey` is the key as storage.rs builds it,
`AccountKey` the one that rewards.rs gets, and `GetRewards` reads as contract.rs
does. `Deposit` and `Withdraw` change the shares by any number; how the number is
found is the subject of `Vault`. `Due(user, token)` is what a claim would pay,
`Earned` the same before it is rounded, `Unemitted` what the period has still to emit.

### FeeVault

| variable | code |
|---|---|
| `admin`, `signer` | the `Admin` and `Signer` entries; `None` is no signer |
| `event` | what the latest transaction published |
| `vault`, `shares`, `fee`, `pool`, `now` | as in `Vault`, which is extended |
| `reward_token`, `reward_data`, `user_rewards`, `balance` | as in `Rewards` |

One action for each entry point of `contract.rs`. It takes the set of addresses that
have signed; `require_auth` is membership in it. It conjoins the action of `Vault` with
`UpdateRewards` of `Rewards` (deposit, withdraw), or one of them with the other
unchanged, or changes a role. `R == INSTANCE Rewards` has the same `shares` and `now`
variables and `total_shares <- vault.total_shares`, so that an action that settles
with another number of shares than the user's, or changes shares without settling, is no
step of `R`. (The total is the vault's by that substitution, not by a check.) Event records hold the name, the addresses among the topics, and the data.

Storage writes that the code makes twice in one transaction are one assignment: nobody
reads in between.

### Storage

| variable | code |
|---|---|
| `ttl` | the time to live of every entry, in ledgers; `None`: no such entry; -1: archived |
| `reward_token` | the `RwdToken` entry, which decides whose data a call touches |
| `since_move`, `since_call` | history: ledgers since a user's latest deposit or withdrawal, and since any call |

A call is its footprint: the entries it reads and those whose life it extends, persistent
entries by writing them (the setters) and the instance by calling `extend_instance`, which
each entry point does for itself. It needs every entry of the footprint alive, the instance
in any case, and leaves the rest. Whether the account of a user is written
depends on whether the index moved, which is a nondeterministic choice here. `Restore` and
`LedgerCloses` are the network. An account that storage.rs keeps under exchanged
addresses has a key of its own all the same, so that the order does not matter here.

### Summary

| variable | code |
|---|---|
| `mock` | the storage of the mock pool of `testutils.rs`: reserve data and config, a b_rate that overrides the data's, the backstop rate |
| `vault`, `fee` | the entries the tests write |
| `now` | the ledger timestamp |

`CurUtil`, `CurIr`, `SupplyApr` and `EstApr` are the computation of
`VaultSummary::load`, each rounding as in the code. The actions are the setters of the
mock pool, `set_fee`, and `Accrue`: the pool adds interest at the rate of the same curve
(as the Blend contracts do) and the vault is settled. The target utilisation is
positive: with zero the code divides by zero and panics when nothing is borrowed.
`MCSummary` keeps the numbers of the unit tests except for one: they write 1000 tokens for
the vault into a pool of 100, and this vault owns half of the supply: `EstimateIsEarned` is
about a vault that is among the pool's suppliers. The estimates that the tests assert do not
depend on it.

## 3. The runs

| run | instance | checks |
|---|---|---|
| `vault` | 2 users, amounts 2, 6 and 40, b_rates 0.75, 1 and 1.1, three valid fee configurations and an invalid one, times 0 to 2, at most 8 b_tokens and 8 shares | `TypeOK`, `AdminBalanceNotNegative`, `SharesConserved`, `Backed`, `NoWorthlessShares`, `WithdrawalsCovered`, `HoldersMayLeave`, `WithdrawPaysBalance`, `RoundingBounded`, `SharePriceNeverFalls`, `BystandersUnharmed` |
| `vault_fees` | 1 user, one amount, b_rates 0.97, 1.03 and 1.21 in hundredths, up to 22 b_tokens | `TakeRateKept`, `CapRespected`, `FixedRateKept` |
| `vault_leave` | 2 users, amounts 3 and 40, b_rates 0.75 and 1, at most 6 b_tokens and 5 shares, a pool that refuses to pay zero, under `FairSpec` | `HoldersGetOut` |
| `rewards` | 2 users, 1 token, amounts 0, 2 and 6, times 0 to 3, expirations to 4, at most 3 shares and 8 reward tokens; a scalar of 3 | `TypeOK`, `AccountsBehindIndex`, `RewardsCovered`, `RewardsFunded`, `RewardsEarnedOverTime`, `HoldersEarnTheirPart` |
| `feevault` | 2 users, 2 addresses that may be admin or signer, 2 reward tokens, a take rate and a fixed rate, one tick, at most 2 b_tokens, 2 shares and 2 of each reward token | `ImplementsRewards`, `NothingWithoutConsent`, `EventsTellTheLedger` |
| `storage` | 2 users, 2 reward tokens; bump and threshold 3 and 2 for the instance, 3 and 1 for the other entries; unbounded time | `TypeOK`, `UserEntriesKept`, `InstanceKept` |
| `summary` | the six set-ups of the unit tests and what setters and interest make of them: five utilisations from 0 to 1, two curves, three fees, four decimals | `TypeOK`, `EstimatesAsTested`, `CurveMeetsAtKinks`, `EstimateFollowsDebt`, `EstimateIsEarned` |
| `vault_flat`, `rewards_return`, `rewards_gap`, `rewards_shown`, `rewards_claim` | small instances of `Vault` and `Rewards`, with two reward tokens where they are about a change of the token | one property each, violated: section 5 |

**What the properties say** is stated above each definition. The ones that took
thought:

* `WithdrawalsCovered`: whatever an accepted request asks for, the check that raises
  `InsufficientReserves` passes and the pool has the position. With `Backed` this is
  what lets holders leave in any order.
* `HoldersMayLeave`: in every state a holder that asks for more than the balance it is
  shown, when that is a balance the pool pays, is not refused, is out afterwards, and no
  two holders stand in each other's way.
* `RoundingBounded`: the other side of `SharePriceNeverFalls`. Roundings favour the
  holders who stay; this says by how much at most, so that no vault in any state
  confiscates a deposit or overcharges a withdrawal.
* `SharePriceNeverFalls`: the value of a share never falls unless the b_rate drops,
  and its b_tokens not even then. Stated by cross-multiplication, without rounding,
  it leaves nothing to an accumulation of small losses.
* `BystandersUnharmed`: while b_rate and time stand still, what the getters show to a
  user who did not act does not fall, and no user changes what is shown to the admin. A
  change of the fee moves nothing at all, in either direction: `set_fee` without its
  settlement, or a rate that applied to the time before it, would violate it.
* `TakeRateKept`, `CapRespected`, `FixedRateKept`: each fee type from the formula of
  the README, not from the code's, with the rounding that the code may lose spelled
  out.
* `RewardsFunded`: what the users have earned, unrounded, and what the period will still
  emit are together within what the vault holds. `RewardsCovered` speaks of one instant;
  this is why it stays true at the next.
* `RewardsEarnedOverTime`: at a given instant no call changes what any user is due of
  the current token; a claim pays exactly what it takes.
* `HoldersEarnTheirPart`: in every second each holder gains its part of the emissions
  up to rounding, from below and from above, and nothing after the expiration.
* `HoldersGetOut`: a holder who keeps asking for its whole balance gets it, whatever
  the other user, the admin and the pool go on doing, unless its shares have come to be
  worth less than one unit and the pool refuses to pay zero. Such a holder has to wait
  until the price rises; what is locked in is less than one unit of the asset.
* `ImplementsRewards`: the specification of `Rewards`, as a property of the contract.
  (That the contract takes the steps of `Vault` is so by the way it is written, and no
  property.)
* `NothingWithoutConsent`: what changes for an address in a transaction that everybody
  else signed. It speaks of what is due and of settled balances, not of who calls what,
  and of each role for itself: the signer does not become admin without agreeing either.
* `EventsTellTheLedger`: shares, b_tokens, reward tokens, the current reward token and the
  fee can be rebuilt from the events. For a claim this takes the events before it: what it
  pays is the token of the last `vault_rewards_set`. The token in its own topics is the one
  the user asked for, which need not be the one paid (`rewards_claim`, section 5); the
  property would be violated if it relied on that one.
* `UserEntriesKept`: the comment in storage.rs says that entries "are almost always
  written when accessed"; the property says for which entries and which users that is
  enough.
* `EstimateIsEarned`: the estimate against the settlement of `VaultData`, which shares no
  formula with it. Over one unit of time, scaled to a year, depositors gain what the
  estimate showed, from below and from above. The tolerance is spelled out rounding by
  rounding in terms of the constants, so that it can be proved for all of them. With the
  code's scalars, and a vault of a million tokens that is settled every second, it is less
  than the 0.0001 that the unit tests allow; nearly all of it is the last unit of the b_rate.

**Bounds.** `MaxTime`, `MaxExpiration`, `MaxBTokens`, `MaxShares` and `MaxBalance`
are guards on the environment and on what is minted; they cut off growth and nothing
else. The scalars are a few units where the code has 10^7 and 10^12, and the b_rates
are no multiples of each other, so that nearly every division rounds: at these sizes
a wrong rounding is worth whole shares and is found within a few steps. Two users
are the holder and the other one; every property is about one user, a pair, or a
sum. The b_rate falls as well as rises, the admin balance reaches zero and is
exhausted by the fixed rate, the vault empties and refills, fee types follow each
other. Three seconds allow a period that is extended, expires and is started again,
a gap without shares, and a user who comes before, during or after. Symmetry is
used for users, role holders and reward tokens, which no action tells apart (not in
`vault_leave`, where it would be unsound). `feevault` leaves the latest event out of the
view: no later step depends on it. In `storage` time needs no bound: TTLs are bounded by
the bumps and the histories stop where nothing depends on them. In `summary` the seven
and twelve decimals of the code are four, and a comparison with the tests' values
allows for it (`TestTolerance`: the tests' own 0.0001 and what three decimals fewer
lose in six roundings).

**Deadlock** is checked in every run.

**Liveness and fairness.** Nothing in the contract happens by itself: every step is a
call that somebody decides to make. The only fairness stated is `Persistence`: a holder
who wants to leave goes on asking to withdraw everything (weak fairness of `Leave`, one
for each user). Neither the clock nor the pool, the admin or another user has to move, and
weak fairness suffices because no step of theirs ever disables a full withdrawal that the
pool pays, which is what `HoldersGetOut` shows. That a claim can be paid is safety (`RewardsCovered`).

**Mutants.** For every checked property the module contains a variant of one
definition with a plausible bug (marked "Mutant:" where it is defined, before the
definition it varies) under which TLC finds the property violated.

## 4. The proofs

TLAPS checks every theorem for arbitrary constants, under the named assumptions of
the modules, which TLC evaluates in every run:

* users are a finite set, amounts are integers, b_rates are positive naturals, fee
  configurations are records of naturals (whether they are valid is the code's check);
* the scalars are positive, and an APR has the decimals that lead from `SCALAR_7` to
  `SCALAR_12` (`ScaleAssumption`: the 10^5 of `vault.rs`);
* `None` is no value of storage, and the bounds of the model are naturals;
* each threshold of a TTL is below its bump;
* the reserves and configurations that the mock pool of `Summary` is given are typed, with
  some b_tokens supplied and a target utilisation that is positive.

**ArithmeticProofs** characterises each rounding operation by two inequalities
(`FixedMulFloorBounds` and the others), shows it monotone (`FixedMonotone`), and gives the
facts on products from which the non-linear arithmetic below is put together. A sum of
`Totals` is the cardinality of a set of pairs, of a member and one of its units: that it
grows with its terms is a fact about subsets (`TotalMonotone`), that it is additive one
about disjoint unions (`TotalPlus`, `TotalChanged`), and only that a factor can be taken
out of it (`TotalTimes`) needs induction, on the factor (`NaturalInduction`, from the least
counterexample of a set of numbers).

**VaultDataProofs.** A settlement rounds three or four times, each time to an integer next
to the exact quotient. The lemmas chain the bounds of those roundings, multiplied up to a
common denominator: what a take rate takes (`TakeArithmetic`), how far the target b_rate is
from the exact growth (`GrowthBounds`, `TargetBounds`), and what b_tokens are moved for the
difference (`DiffWorth`, `MovedDiff`). `TakeWorth` is `TakeArithmetic` of the code's own
computation.

**VaultProofs.** The inductive invariant is

    Inv == TypeOK /\ AdminBalanceNotNegative /\ SharesConserved /\ Backed /\ NoWorthlessShares

None of the parts is inductive by itself. A supplement only keeps the types of the
b_tokens if the admin balance is not negative; a withdrawal can only be shown to find
its b_tokens if the user's shares are at most the total, which is `SharesConserved`;
the division in a full withdrawal needs b_tokens behind the shares. The argument:

1. *Settling* (`UpdateRateBounds`): no fee type takes b_tokens worth more than the
   interest, so a settled vault is worth no less to the depositors, and keeps b_tokens if
   it had some.
2. *Conversions* (`MintBounds`, `BurnBounds`): a deposit adds shares at no more than, and a
   withdrawal burns shares at no less than, the b_tokens per share.
3. One lemma for each action, and the theorems from them: `Invariance`, and with it
   `TypeCorrect`, `AdminBalanceTheorem`, `SharesTheorem`, `BackingTheorem`,
   `WorthTheorem`, `WithdrawalsTheorem`, `PaymentTheorem`, and the action property
   `SharePriceTheorem`. An accepted withdrawal costs at most the b_tokens that the vault
   has for its user (`AcceptedCovered`), and one of the whole balance burns all the user's
   shares (`WithdrawalOfAll`); it pays the balance, which `LeavingTheorem` supposes that the
   pool pays.
4. *Bystanders* (`BystandersTheorem`). What a user is shown is computed from a settled copy
   of the vault. After a call the stored vault is settled, and settling it again changes
   nothing (`SettledTwice`); so the balance before and after are the same formula, of the
   same shares, at a b_token price per share that did not fall (`CallsSettle`,
   `BalanceKept`).
5. *Callers* (`RoundingTheorem`): a mint and a burn are within one share of the exact
   number, from both sides (`MintBounds`, `BurnBounds`, `WithdrawalCost`), and so is what the
   caller pays for it (`DepositFair`, `WithdrawFair`).
6. *Fees* (`TakeRateTheorem`, `CapTheorem`, `FixedRateTheorem`): the bounds of
   `VaultDataProofs`, for the vault that the invariant describes (`SettledFrom`,
   `SettledTo`, `ValueBounds`).

**RewardsProofs.** The invariant is `TypeOK /\ AccountsBehindIndex`. `LoadUpdatedType`
shows that bringing reward data to the present moves the index and the time forward
only; `LoadUpdatedOnce` that doing it twice at one instant is doing it once, also if
the shares changed in between. `Later` orders states of the reward data, and accounts
stay behind when it gets later (`AccountsKept`). From the invariant and
`LoadUpdatedOnce` follows `EarnedOverTimeTheorem`: a call settles one user at the new
index, which is the index at which everybody's due was computed already. The theorems
are `TypeCorrect`, `AccountsTheorem` and `EarnedOverTimeTheorem`.

**RewardsEarnedProofs.** `HoldersTheorem` follows the index through one second: the
division by the outstanding shares loses less than one unit of the index (`IndexGain`),
which a holder has once for each share (`TickEarns`).

That the vault can pay (`CoveredTheorem`, `RewardsCovered`) is not inductive: it says
nothing of what a later second will add. The invariant is `RewardsFunded`. It counts what
users have earned before rounding, so that a settlement, which rounds down, cannot raise it
(`FundedSettled`), and what the period will still emit, so that time moves tokens from one
term to the other (`FundedUpdated`). A claim takes the same from both sides (`FundedPaid`);
an extension spreads what is left of the old period and the new amount, rounded down, and
new rewards of the same token go on from its index (`FundedExtended`); a token that is new
has an index of zero and no accounts (`FundedStarted`).

With several tokens that is not enough, because nothing in `RewardsFunded` speaks of a token
the admin has left. The inductive invariant is `AllFunded`, which adds `AsideFunded`: of
each token set aside the vault holds what its users had earned at the index it was left
at, whatever becomes of their shares (`FundedAside`; other calls do not touch it,
`SettlementAside`, `ClaimAside`). `FundedTheorem` has the hypothesis `ReturnsSettled`: the
admin returns to a token only when every holder of shares has an account of it at its
index, and then what is owed is again what was set aside (`FundedAgain`). The code does
not see to that, and without it violates the property (`rewards_return`, section 5), at the
only step where the proof would fail: a return to a token while somebody holds shares that
its accounts do not know of. What an operator can take from the theorem is the condition:
let everybody who holds shares claim the token before leaving it, and return when nobody
else has come. With a single reward token no hypothesis is needed (`OneTokenCovered`).

**FeeVaultProofs.** Every transaction is a call of `Vault` or leaves its variables alone,
because `FeeVault` conjoins the actions of `Vault`: `ContractIsVault` is a lemma for citing
`VaultProofs`, not a result. With it, `ContractInvariance` says that the books of the vault
are right in every state of the contract. `RewardsTheorem`, `ContractSpec =>
ImplementsRewards`, is a refinement and needs that invariant: `Rewards` lets a deposit
mint, and a withdrawal burn, a positive number of shares within the bound, and that the
number which `Vault` computes is one (`DepositMints`, `WithdrawBurns`) follows from its
types and roundings and from a bound on the outstanding shares, which is invariant itself
(`BoundKept`).

What is proved of the parts therefore holds of the whole, and is stated so:
`ContractVault` has all properties of `VaultProofs`, `ContractRewards` and
`ContractRewardsCovered` those of the reward proofs. For the latter the theorems are
instantiated (`RP`) as `FeeVault` instantiates `Rewards`; `RewardsAssumptions` shows that
the contract's constants meet their assumptions, `SameSpec` that the two instances have
the same behaviours.

`ConsentTheorem` (`NothingWithoutConsent`) takes the conjuncts of `Untouched` one by one, of
a transaction that everybody else has signed. The hard one is that nobody's due rewards
fall: it is `RewardsEarnedOverTime` again, for all the users who did not call. The admin's
balance needs that a user's call leaves the settled balance alone (`AdminNeedsConsent`).
`EventsTheorem` (`EventsTellTheLedger`) goes through the entry points: the numbers of the
event are computed from the vault as it was settled, the difference in the ledger from the
state before and after; and what a claim reports is what its user was due of the current
token, however many tokens there are (`ClaimRewardsTells`).

**StorageProofs.** The invariant says that what an entry has left to live and what has
passed since its user moved are together above the threshold (`UserEntriesOutlive`, and
`InstanceOutlives` for any call). A ledger takes one from the first and adds one to the
second; a call shortens nothing and lifts what it writes above the threshold
(`CallExtends`); an entry that can be restored is none that the invariant is about. The
theorems are `TypeCorrect`, `UserEntriesTheorem` and `InstanceTheorem`.

**SummaryProofs.** `TypeCorrect` needs that interest keeps utilisation and rates natural and
that a settlement at the pool's b_rate keeps the vault's fields (`AccruedType`,
`SettledType`). `CurveTheorem`: each of the three parts of the curve climbs from zero to
its rate exactly (`ClimbBounds`), so that two neighbours agree where they meet, and one unit
further costs one step of the next part; the second part multiplies a sum by `ir_mod` and
rounds up, which is at most the two products rounded up apart (`FixedMulCeilSum`).
`DebtTheorem` composes monotone functions: utilisation in the debt, the borrow rate in the
utilisation (`CurIrMonotone`, across all three parts), what suppliers get in both
(`SupplyAprMonotone`), the estimate in that under each fee (`EstAprMonotone`).

`EarnedTheorem` (`EstimateIsEarned`) joins two computations that share nothing but the
borrow rate: the estimate multiplies that by the utilisation, the pool by the debt. While
not all is lent, the utilisation is debt by supply, rounded up (`UtilBounds`); with it, what
suppliers get in one unit of time is what they own times the supply APR, but for bounds on
each of six roundings (`KeptAbove`, `KeptBelow`), and so is the rise of the b_rate
(`RateAbove`, `RateBelow`, together `AccruedBounds`) and the interest of some b_tokens
(`InterestEarned`). What settling moves of it is bounded as for the fee properties of the
vault: `TakeWorth` for a take rate (`TakeEarned`), `TargetBounds` and `DiffWorth` for a
capped or fixed one, where the estimate takes the smaller of two rates and settling the
larger of two amounts (`CappedMoves`, `CappedEarned`). The hypotheses of the property are
those that the code's behaviour needs: all that is lent earns no more with more debt, a
b_rate that stands still supplements nobody, and an admin balance that runs out ends the
fixed rate.

**Only model-checked.**

* `HoldersGetOut` is liveness, under fairness. That the step it waits for is possible in
  every state, when the pool pays the balance, is `HoldersMayLeave`, which is proved.
* `EstimatesAsTested` compares with the numbers of six unit tests: a theorem about every
  value of the constants has nothing to say of it.
* `RewardsCovered` and `RewardsFunded` without `ReturnsSettled` are false for two tokens
  (section 5); with it, or with one token, they are proved.

## 5. Where code and documentation disagree

Each is a run that TLC ends with a violation; `PROJECT.json` quotes the lines.

1. `vault_flat`: a fixed rate vault is not supplemented for a time in which the b_rate
   did not rise: `update_rate` returns early and moves the timestamp.
2. `rewards_return`: when the admin returns to a reward token that was used before,
   users who came or changed their shares in between are due its old index. The
   vault then owes more than it holds, and who claims first takes what is another's.
3. `rewards_gap`: the first deposit after a time without shares is due the emissions
   of that time at once.
4. `rewards_shown`: `get_rewards` reads under a key with user and token exchanged, and
   shows no account.
5. `rewards_claim`: `claim_rewards` ignores which token is requested; the event names
   the requested token with the amount paid of another.

Smaller differences that no run is about:

* The README of the repository lists `BalanceError` for a withdrawal of more than the
  balance, which the code instead cuts down to the balance (as the comment in contract.rs
  says); the event of such a withdrawal carries the amount requested, not the amount paid.
* Rewards of a token that is no longer current cannot be claimed until it is current again.
* `contract.rs:306` passes (pool, admin) to `vault_emissions_claim`, whose parameters are
  (admin, pool): the two topics are exchanged against the documented `[pool, admin]`.
  `CallClaimEmissions` and `EmissionsClaimEvent` have the parameters as they are.
* storage.rs relies on entries being "almost always written when accessed". The shares of
  a user who only claims are never written, and its account only when the index has moved:
  both may be archived while they are in use, and the claim then fails until they are
  restored. `UserEntriesKept` leaves them out.
* A b_rate that drops is taken over as it is (`vault.rs:84`): no fee is returned, and the
  interest that makes up for the loss is charged as new interest. No document promises
  otherwise, and `SharePriceNeverFalls` leaves drops out.
* A holder whose shares are worth less than one unit asks the pool for a withdrawal of
  zero, see `PoolPaysZero` in section 2.
* The estimated APR of a fixed rate vault is the full rate for any positive admin balance,
  however short a time it lasts, and also while the b_rate stands still (no. 1).
* With a target utilisation of 0.95 the middle part of the curve is empty and the borrow
  rate jumps by `r_two` at it; with a target of zero and no debt `get_vault_summary` panics.

## 6. What is not modelled, and why

* *Overflow of i128* and of the u64 timestamps: with overflow checks on, the call
  panics and reverts. The one bound that decides behaviour, an `eps` above u64, is
  modelled (`U64_MAX`).
* *Error codes*: a panic reverts the call, whatever its code.
* *Restoring and TTL together with data*: the network restores an archived entry
  unchanged, so that archival only delays calls; `Storage` has no data and the other
  modules no archival. That a footprint is what the actions of the other modules touch
  is by reading, not by a refinement.
* *The pool itself*: its utilisation limit, health checks and interest model. A call
  that the pool refuses reverts; the b_rate is arbitrary.
* *Donations*: reward tokens sent to the contract other than by `set_rewards` only
  raise `balance`.

## 7. Running

    tlc -workers 2 -config MCVault.cfg MCVault
    tlc -workers 2 -config MCVaultFees.cfg MCVault
    tlc -workers 2 -config MCVaultLeave.cfg MCVault
    tlc -workers 2 -config MCRewards.cfg MCRewards
    tlc -workers 2 -config MCFeeVault.cfg MCFeeVault
    tlc -workers 2 -config MCStorage.cfg MCStorage
    tlc -workers 2 -config MCSummary.cfg MCSummary
    tlapm ArithmeticProofs.tla
    tlapm VaultDataProofs.tla
    tlapm VaultProofs.tla
    tlapm RewardsProofs.tla
    tlapm RewardsEarnedProofs.tla
    tlapm FeeVaultProofs.tla
    tlapm StorageProofs.tla
    tlapm SummaryProofs.tla

## 8. Plan

In this order, the most important first:

1. Done: `Vault`, its runs, and the proof of its invariant and share price.
2. Done: `Rewards`, its runs, and the proof of its invariant and of
   `RewardsEarnedOverTime`.
3. Done: `FeeVault`, the whole contract by composition, and the proof that it implements
   `Rewards`.
4. Done: `Storage` with its proofs; `Summary`; liveness of leaving.
5. Done: the proofs of `BystandersUnharmed`, of the three fee properties, of
   `HoldersEarnTheirPart`, `RewardsFunded` and `RewardsCovered`, of `NothingWithoutConsent`
   and `EventsTellTheLedger`, of the curve and the monotonicity of the estimate; the
   properties of the parts as theorems of the contract.
6. Done: `HoldersMayLeave` and `RoundingBounded` with their proofs; a tolerance of
   `EstimateIsEarned` that is right for every value of the scalars, and its proof.
7. Open: that the footprints of `Storage` are what the actions of `FeeVault` read and
   write.

A more abstract specification of custody (an amount per user that only the pool's rate and
fees on interest change) is not planned any more: its steps would be `SharePriceNeverFalls`,
`BystandersUnharmed` and `WithdrawalsCovered` once again.
