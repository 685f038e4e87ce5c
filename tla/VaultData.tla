----------------------------- MODULE VaultData -----------------------------
(***************************************************************************)
(* The VaultData record of src/src/vault.rs and its methods: conversions   *)
(* between shares, b_tokens and underlying, and the settlement of the      *)
(* interest between depositors and admin.                                  *)
(*                                                                         *)
(* b_rates are integers scaled by SCALAR_12, fee rates by SCALAR_7.        *)
(***************************************************************************)
EXTENDS FixedPoint

CONSTANTS
    SCALAR_7,          \* constants.rs: 10^7
    SCALAR_12,         \* constants.rs: 10^12
    SECONDS_PER_YEAR   \* constants.rs: 31_536_000

ASSUME ScalarAssumption  == /\ SCALAR_7 \in Nat \ {0}
                            /\ SCALAR_12 \in Nat \ {0}
                            /\ SECONDS_PER_YEAR \in Nat \ {0}

-----------------------------------------------------------------------------
(***************************************************************************)
(* Conversions.  `v' is a VaultData record.                                *)
(***************************************************************************)

\* Mutant: the shares minted for a deposit are rounded up.
MintRoundedUp(v, amount) ==
    IF v.total_shares = 0 \/ v.total_b_tokens = 0
    THEN amount
    ELSE FixedMulCeil(amount, v.total_shares, v.total_b_tokens)

\* Mutant: a deposit is priced as if the admin's b_tokens belonged to the depositors.
MintOnWholePosition(v, amount) ==
    IF v.total_shares = 0 \/ v.total_b_tokens = 0
    THEN amount
    ELSE FixedMulFloor(amount, v.total_shares, v.total_b_tokens + v.admin_balance)

BTokensToSharesDown(v, amount) ==
    IF v.total_shares = 0 \/ v.total_b_tokens = 0
    THEN amount
    ELSE FixedMulFloor(amount, v.total_shares, v.total_b_tokens)

\* Mutant: the shares burnt by a withdrawal are rounded down.
BurnRoundedDown(v, amount) == BTokensToSharesDown(v, amount)

BTokensToSharesUp(v, amount) ==
    IF v.total_shares = 0 \/ v.total_b_tokens = 0
    THEN amount
    ELSE FixedMulCeil(amount, v.total_shares, v.total_b_tokens)

SharesToBTokensDown(v, amount) ==
    FixedDivFloor(amount, v.total_shares, v.total_b_tokens)

BTokensToUnderlyingDown(v, amount) == FixedMulFloor(amount, v.b_rate, SCALAR_12)

UnderlyingToBTokensDown(v, amount) == FixedDivFloor(amount, v.b_rate, SCALAR_12)

UnderlyingToBTokensUp(v, amount) == FixedDivCeil(amount, v.b_rate, SCALAR_12)

-----------------------------------------------------------------------------
(***************************************************************************)
(* The fee configurations: src/src/validator.rs.                           *)
(***************************************************************************)

\* Mutant: the check of the rate type is off by one.
LooseFeeCheck(f) == f.rate <= SCALAR_7 /\ f.rate_type <= 3

\* The fee configuration is accepted (require_valid_fee).
ValidFee(f) == f.rate <= SCALAR_7 /\ f.rate_type <= 2

-----------------------------------------------------------------------------
(***************************************************************************)
(* Settling: VaultData::update_rate.                                       *)
(***************************************************************************)

\* Mutant: the fee is left in underlying, not converted to b_tokens.
FeeInUnderlying(v, rate, new_rate) ==
    FixedMulFloor(FixedMulFloor(v.total_b_tokens, new_rate - v.b_rate, SCALAR_12),
                  rate, SCALAR_7)

\* Take rate: the b_tokens worth `rate' of the interest since the last update.
TakeRateBTokens(v, rate, new_rate) ==
    LET interest == FixedMulFloor(v.total_b_tokens, new_rate - v.b_rate, SCALAR_12)
        cut      == FixedMulFloor(interest, rate, SCALAR_7)
    IN  FixedDivFloor(cut, new_rate, SCALAR_12)

\* 100_000 in the code: what lifts a fee rate to the scale of a b_rate.
APR_SCALE == SCALAR_12 \div SCALAR_7

ASSUME ScaleAssumption == APR_SCALE * SCALAR_7 = SCALAR_12

\* Mutant: time is counted from the epoch, not from the last update.
TargetFromEpoch(v, apr, t) ==
    FixedMulCeil(v.b_rate, (APR_SCALE * apr * t) \div SECONDS_PER_YEAR + SCALAR_12,
                 SCALAR_12)

\* The b_rate at time t at which the vault would have earned exactly `apr'.
TargetBRate(v, apr, t) ==
    LET elapsed == t - v.last_update_timestamp
        growth  == (APR_SCALE * apr * elapsed) \div SECONDS_PER_YEAR + SCALAR_12
    IN  FixedMulCeil(v.b_rate, growth, SCALAR_12)

\* Capped and fixed rate: the b_tokens by which the vault is above its target.
BTokenDiff(v, apr, new_rate, t) ==
    FixedDivFloor(FixedMulFloor(v.total_b_tokens, new_rate - TargetBRate(v, apr, t),
                                SCALAR_12),
                  new_rate, SCALAR_12)

\* Mutant: the admin pays the whole difference, whatever the admin balance.
UnlimitedSupplement(v, diff) == diff

\* Mutant: the fixed rate behaves as a capped one.
NoSupplement(v, diff) == IF diff <= 0 THEN 0 ELSE diff

\* Fixed rate: the admin earns a positive difference and pays a negative one, but
\* never more than the admin balance.
FixedRateBTokens(v, diff) ==
    IF diff <= 0 /\ v.admin_balance + diff < 0
    THEN IF -v.admin_balance < 0 THEN -v.admin_balance ELSE 0
    ELSE diff

\* The b_tokens that move from the depositors to the admin (back, if negative).
AdminBTokens(v, f, new_rate, t) ==
    LET diff == BTokenDiff(v, f.rate, new_rate, t)
    IN  CASE f.rate_type = 0 -> TakeRateBTokens(v, f.rate, new_rate)
          [] f.rate_type = 1 -> IF diff <= 0 THEN 0 ELSE diff
          [] f.rate_type = 2 -> FixedRateBTokens(v, diff)
          [] OTHER -> 0

\* The vault settled at time t and b_rate `new_rate': no fee unless the rate rose.
UpdateRate(v, f, new_rate, t) ==
    LET moved == IF new_rate <= v.b_rate THEN 0 ELSE AdminBTokens(v, f, new_rate, t)
    IN  [v EXCEPT !.last_update_timestamp = t,
                  !.b_rate = new_rate,
                  !.total_b_tokens = @ - moved,
                  !.admin_balance = @ + moved]

=============================================================================
