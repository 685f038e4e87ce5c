---------------------------- MODULE VaultProofs -----------------------------
(***************************************************************************)
(* Theorems about Vault, for every set of users, every set of amounts, fee *)
(* configurations and b_rates, and every value of the scalars: first the   *)
(* inductive invariant and what follows from it, then what a step does to  *)
(* the share price and to bystanders, then the fees.                       *)
(***************************************************************************)
EXTENDS Vault, VaultDataProofs

-----------------------------------------------------------------------------
(***************************************************************************)
(* Withdrawals.                                                            *)
(***************************************************************************)

\* A withdrawal burns no more shares than the user has and no more b_tokens than
\* the depositors have, leaves the remaining shares backed, and predicts the
\* b_tokens the pool burns for what is paid.
LEMMA WithdrawalBounds ==
    ASSUME NEW v \in VaultRecord, Priced(v), NEW held \in Nat, held <= v.total_shares,
           NEW amount \in Int, WithdrawalAccepted(v, held, amount)
    PROVE  LET w == Withdrawal(v, held, amount)
           IN  /\ w.shares \in Nat /\ w.b_tokens \in Nat /\ w.underlying \in Nat
               /\ w.shares <= held
               /\ w.b_tokens <= v.total_b_tokens
               /\ w.shares < v.total_shares => w.b_tokens < v.total_b_tokens
               /\ w.b_tokens * v.total_shares <= w.shares * v.total_b_tokens
               /\ w.b_tokens = UnderlyingToBTokensUp(v, w.underlying)
<1> DEFINE B == v.total_b_tokens
           S == v.total_shares
           r == v.b_rate
           b == UnderlyingToBTokensUp(v, amount)
           s == BTokensToSharesUp(v, b)
           w == Withdrawal(v, held, amount)
<1>1. /\ amount > 0 /\ b > 0 /\ s > 0 /\ held > 0
  BY DEF WithdrawalAccepted
<1>2. /\ B \in Int /\ B > 0 /\ S \in Int /\ S > 0 /\ r \in Int /\ r > 0 /\ held \in Int
      /\ SCALAR_12 \in Int /\ SCALAR_12 > 0
  BY <1>1, ScalarAssumption DEF VaultRecord, Priced
<1>3. b \in Int
  BY <1>2, FixedDivCeilBounds DEF UnderlyingToBTokensUp
<1>4. s \in Int /\ b * S <= s * B
  BY <1>2, <1>3, BurnBounds
<1> SUFFICES /\ w.shares \in Nat /\ w.b_tokens \in Nat /\ w.underlying \in Nat
             /\ w.shares <= held
             /\ w.b_tokens * S <= w.shares * B
             /\ w.b_tokens = UnderlyingToBTokensUp(v, w.underlying)
  <2> HIDE DEF w
  <2>1. w.b_tokens * S \in Int /\ w.shares * B \in Int /\ S * B = B * S /\ S * B \in Int
    BY <1>2, ProductType
  <2>2. w.shares * B <= S * B
    BY <1>2, ProductMonotone
  <2>3. w.b_tokens <= B
    BY <1>2, <2>1, <2>2, ProductCancel
  <2>4. w.shares < S => w.shares * B < S * B
    <3>1. w.shares < S => (w.shares + 1) * B <= S * B
      BY <1>2, ProductMonotone
    <3>2. (w.shares + 1) * B = w.shares * B + B
      BY <1>2, Z3
    <3> QED
      BY <1>2, <2>1, <3>1, <3>2
  <2>5. w.shares < S => w.b_tokens < B
    BY <1>2, <2>1, <2>4, ProductCancel
  <2> QED
    BY <2>3, <2>5 DEF w
<1>5. CASE s <= held
  <2>1. w = [shares |-> s, b_tokens |-> b, underlying |-> amount]
    BY <1>2, <1>4, <1>5 DEF Withdrawal
  <2> HIDE DEF w, s
  <2> QED
    BY <2>1, <1>1, <1>3, <1>4, <1>5
<1>6. CASE s > held
  <2> DEFINE e == SharesToBTokensDown(v, held)
             u == BTokensToUnderlyingDown(v, e)
             c == UnderlyingToBTokensUp(v, u)
  <2>1. w = [shares |-> held, b_tokens |-> c, underlying |-> u]
    BY <1>6 DEF Withdrawal, FullWithdrawal
  <2>2. e \in Int /\ e * S <= held * B /\ held * B < e * S + S
    BY <1>2, FixedDivFloorBounds DEF SharesToBTokensDown
  <2> HIDE DEF e
  <2>3. u \in Int /\ u * SCALAR_12 <= e * r /\ e * r < u * SCALAR_12 + SCALAR_12
    BY <1>2, <2>2, FixedMulFloorBounds DEF BTokensToUnderlyingDown
  <2> HIDE DEF u
  <2>4. c \in Int /\ u * SCALAR_12 <= c * r /\ c * r < u * SCALAR_12 + r
    BY <1>2, <2>3, FixedDivCeilBounds DEF UnderlyingToBTokensUp
  <2>5. e >= 0
    <3>1. 0 * S <= held * B
      BY <1>2, ProductType
    <3>2. 0 * S < e * S + S
      BY <1>2, <2>2, <3>1, ProductType
    <3> QED
      BY <1>2, <2>2, <3>2, ProductCancel
  <2>6. u >= 0
    <3>1. 0 * SCALAR_12 <= e * r
      BY <1>2, <2>2, <2>5, ProductType
    <3>2. 0 * SCALAR_12 < u * SCALAR_12 + SCALAR_12
      BY <1>2, <2>2, <2>3, <3>1, ProductType
    <3> QED
      BY <1>2, <2>3, <3>2, ProductCancel
  <2>7. c >= 0
    <3>1. 0 * r <= c * r
      BY <1>2, <2>3, <2>4, <2>6, ProductType
    <3> QED
      BY <1>2, <2>4, <3>1, ProductCancel
  <2>8. c <= e
    <3>1. c * r < e * r + r
      BY <1>2, <2>2, <2>3, <2>4, ProductType
    <3> QED
      BY <1>2, <2>2, <2>4, <3>1, ProductCancel
  <2>9. c * S <= held * B
    <3>1. c * S <= e * S
      BY <1>2, <2>2, <2>4, <2>8, ProductMonotone
    <3> QED
      BY <1>2, <2>2, <2>4, <3>1, ProductType
  <2>10. c = UnderlyingToBTokensUp(v, u)
    OBVIOUS
  <2> HIDE DEF c, w
  <2> QED
    BY <2>1, <2>3, <2>4, <2>6, <2>7, <2>9, <2>10
<1> QED
  BY <1>2, <1>4, <1>5, <1>6

\* A withdrawal pays the lesser of the request and the user's balance.
LEMMA WithdrawalPayment ==
    ASSUME NEW v \in VaultRecord, Priced(v), NEW held \in Nat, held <= v.total_shares,
           NEW amount \in Int, WithdrawalAccepted(v, held, amount)
    PROVE  LET balance == BTokensToUnderlyingDown(v, SharesToBTokensDown(v, held))
           IN  Withdrawal(v, held, amount).underlying
               = IF amount <= balance THEN amount ELSE balance
<1> DEFINE B == v.total_b_tokens
           S == v.total_shares
           r == v.b_rate
           b == UnderlyingToBTokensUp(v, amount)
           s == BTokensToSharesUp(v, b)
           e == SharesToBTokensDown(v, held)
           u == BTokensToUnderlyingDown(v, e)
<1>1. /\ amount > 0 /\ b > 0 /\ s > 0 /\ held > 0
  BY DEF WithdrawalAccepted
<1>2. /\ B \in Int /\ B > 0 /\ S \in Int /\ S > 0 /\ r \in Int /\ r > 0 /\ held \in Int
      /\ SCALAR_12 \in Int /\ SCALAR_12 > 0
  BY <1>1, ScalarAssumption DEF VaultRecord, Priced
<1>3. /\ b \in Int /\ amount * SCALAR_12 <= b * r /\ b * r < amount * SCALAR_12 + r
  BY <1>2, FixedDivCeilBounds DEF UnderlyingToBTokensUp
<1>4. s \in Int /\ b * S <= s * B /\ s * B < b * S + B
  BY <1>2, <1>3, BurnBounds
<1>5. e \in Int /\ e * S <= held * B /\ held * B < e * S + S
  BY <1>2, FixedDivFloorBounds DEF SharesToBTokensDown
<1>6. u \in Int /\ u * SCALAR_12 <= e * r /\ e * r < u * SCALAR_12 + SCALAR_12
  BY <1>2, <1>5, FixedMulFloorBounds DEF BTokensToUnderlyingDown
<1>7. /\ s > held => Withdrawal(v, held, amount).underlying = u
      /\ s <= held => Withdrawal(v, held, amount).underlying = amount
  <2>1. s <= held <=> ~(s > held)
    BY <1>2, <1>4
  <2> QED
    BY <2>1 DEF Withdrawal, FullWithdrawal
<1> HIDE DEF b, s, e, u
<1>8. amount <= u => s <= held
  <2> SUFFICES ASSUME amount <= u PROVE s <= held
    OBVIOUS
  <2>1. amount * SCALAR_12 <= u * SCALAR_12
    BY <1>2, <1>6, ProductMonotone
  <2>2. b * r < e * r + r
    BY <2>1, <1>2, <1>3, <1>5, <1>6, ProductType
  <2>3. b <= e
    BY <2>2, <1>2, <1>3, <1>5, ProductCancel
  <2>4. b * S <= e * S
    BY <2>3, <1>2, <1>3, <1>5, ProductMonotone
  <2>5. s * B < held * B + B
    BY <2>4, <1>2, <1>3, <1>4, <1>5, ProductType
  <2> QED
    BY <2>5, <1>2, <1>4, ProductCancel
<1>9. s <= held => amount <= u
  <2> SUFFICES ASSUME s <= held PROVE amount <= u
    OBVIOUS
  <2>1. s * B <= held * B
    BY <1>2, <1>4, ProductMonotone
  <2>2. b * S < e * S + S
    BY <2>1, <1>2, <1>3, <1>4, <1>5, ProductType
  <2>3. b <= e
    BY <2>2, <1>2, <1>3, <1>5, ProductCancel
  <2>4. b * r <= e * r
    BY <2>3, <1>2, <1>3, <1>5, ProductMonotone
  <2>5. amount * SCALAR_12 < u * SCALAR_12 + SCALAR_12
    BY <2>4, <1>2, <1>3, <1>5, <1>6, ProductType
  <2> QED
    BY <2>5, <1>2, <1>6, ProductCancel
<1>10. s <= held \/ s > held
  BY <1>2, <1>4
<1>11. Withdrawal(v, held, amount).underlying = IF amount <= u THEN amount ELSE u
  BY <1>7, <1>8, <1>9, <1>10
<1> QED
  BY <1>11 DEF u, e

\* A request above the balance is accepted, and burns all shares of the holder: one
\* b_token more than those its shares stand for cannot be paid for with them.
LEMMA WithdrawalOfAll ==
    ASSUME NEW v \in VaultRecord, Priced(v), NEW held \in Nat, held <= v.total_shares,
           held > 0, NEW amount \in Int,
           amount > BTokensToUnderlyingDown(v, SharesToBTokensDown(v, held))
    PROVE  /\ WithdrawalAccepted(v, held, amount)
           /\ Withdrawal(v, held, amount).shares = held
<1> DEFINE B == v.total_b_tokens
           S == v.total_shares
           r == v.b_rate
           b == UnderlyingToBTokensUp(v, amount)
           s == BTokensToSharesUp(v, b)
           e == SharesToBTokensDown(v, held)
           u == BTokensToUnderlyingDown(v, e)
<1>1. /\ B \in Int /\ B > 0 /\ S \in Int /\ S > 0 /\ r \in Int /\ r > 0 /\ held \in Int
      /\ SCALAR_12 \in Int /\ SCALAR_12 > 0
  BY ScalarAssumption DEF VaultRecord, Priced
<1>2. b \in Int /\ amount * SCALAR_12 <= b * r
  BY <1>1, FixedDivCeilBounds DEF UnderlyingToBTokensUp
<1>3. s \in Int /\ b * S <= s * B
  BY <1>1, <1>2, BurnBounds
<1>4. e \in Int /\ held * B < e * S + S
  BY <1>1, FixedDivFloorBounds DEF SharesToBTokensDown
<1>5. u \in Int /\ e * r < u * SCALAR_12 + SCALAR_12
  BY <1>1, <1>4, FixedMulFloorBounds DEF BTokensToUnderlyingDown
<1>6. amount > u
  OBVIOUS
<1>7. s > held => Withdrawal(v, held, amount).shares = held
  BY DEF Withdrawal, FullWithdrawal
<1>8. (amount > 0 /\ b > 0 /\ s > 0) => WithdrawalAccepted(v, held, amount)
  BY DEF WithdrawalAccepted
<1> HIDE DEF b, s, e, u
<1>9. e >= 0
  <2>1. 0 * S <= held * B /\ 0 * S \in Int /\ held * B \in Int /\ e * S \in Int
    BY <1>1, <1>4, ProductType
  <2>2. 0 * S < e * S + S
    BY <1>1, <1>4, <2>1
  <2> QED
    BY <1>1, <1>4, <2>2, ProductCancel
<1>10. b > e
  <2>1. (u + 1) * SCALAR_12 <= amount * SCALAR_12
    BY <1>1, <1>5, <1>6, ProductMonotone
  <2>2. (u + 1) * SCALAR_12 = u * SCALAR_12 + SCALAR_12
    BY <1>1, <1>5, Z3
  <2>3. e * r < b * r
    <3>1. /\ e * r \in Int /\ b * r \in Int /\ amount * SCALAR_12 \in Int
          /\ u * SCALAR_12 \in Int
      BY <1>1, <1>2, <1>4, <1>5, ProductType
    <3> QED
      BY <1>1, <1>2, <1>5, <2>1, <2>2, <3>1
  <2> QED
    BY <1>1, <1>2, <1>4, <2>3, ProductCancel
<1>11. s > held
  <2>1. (e + 1) * S <= b * S
    BY <1>1, <1>2, <1>4, <1>10, ProductMonotone
  <2>2. (e + 1) * S = e * S + S
    <3>1. (e + 1) * S = e * S + 1 * S
      BY <1>1, <1>4, Distributive
    <3> QED
      BY <1>1, <3>1
  <2>3. held * B < s * B
    <3>1. held * B \in Int /\ s * B \in Int /\ b * S \in Int /\ e * S \in Int
      BY <1>1, <1>2, <1>3, <1>4, ProductType
    <3> QED
      BY <1>1, <1>3, <1>4, <2>1, <2>2, <3>1
  <2> QED
    BY <1>1, <1>3, <2>3, ProductCancel
<1>12. amount > 0
  <2>1. u >= 0
    <3>1. /\ 0 * SCALAR_12 <= e * r /\ 0 * SCALAR_12 \in Int /\ e * r \in Int
          /\ u * SCALAR_12 \in Int
      BY <1>1, <1>4, <1>5, <1>9, ProductType
    <3>2. 0 * SCALAR_12 < u * SCALAR_12 + SCALAR_12
      BY <1>1, <1>5, <3>1
    <3> QED
      BY <1>1, <1>5, <3>2, ProductCancel
  <2> QED
    BY <1>5, <1>6, <2>1
<1> QED
  BY <1>1, <1>2, <1>3, <1>4, <1>7, <1>8, <1>9, <1>10, <1>11, <1>12

\* The shares a withdrawal burns are worth less than one share more than the b_tokens it
\* takes out, or it takes out everything, for one b_token and one unit more.
LEMMA WithdrawalCost ==
    ASSUME NEW v \in VaultRecord, Priced(v), NEW held \in Nat, held <= v.total_shares,
           NEW amount \in Int, WithdrawalAccepted(v, held, amount)
    PROVE  LET w    == Withdrawal(v, held, amount)
               lost == w.shares * v.total_b_tokens - w.b_tokens * v.total_shares
           IN  \/ lost < v.total_b_tokens
               \/ /\ w.shares = held
                  /\ lost * v.b_rate < v.total_shares * (v.b_rate + SCALAR_12)
<1> DEFINE B == v.total_b_tokens
           S == v.total_shares
           r == v.b_rate
           b == UnderlyingToBTokensUp(v, amount)
           s == BTokensToSharesUp(v, b)
           w == Withdrawal(v, held, amount)
<1>1. /\ B \in Int /\ B > 0 /\ S \in Int /\ S > 0 /\ r \in Int /\ r > 0 /\ held \in Int
      /\ SCALAR_12 \in Int /\ SCALAR_12 > 0
  BY ScalarAssumption DEF VaultRecord, Priced, WithdrawalAccepted
<1>2. b \in Int
  BY <1>1, FixedDivCeilBounds DEF UnderlyingToBTokensUp
<1>3. s \in Int /\ s * B < b * S + B
  BY <1>1, <1>2, BurnBounds
<1>4. CASE s <= held
  <2>1. w = [shares |-> s, b_tokens |-> b, underlying |-> amount]
    BY <1>1, <1>3, <1>4 DEF Withdrawal
  <2> HIDE DEF w, s, b
  <2>2. s * B \in Int /\ b * S \in Int
    BY <1>1, <1>2, <1>3, ProductType
  <2> QED
    BY <1>1, <1>3, <2>1, <2>2 DEF w
<1>5. CASE s > held
  <2> DEFINE e == SharesToBTokensDown(v, held)
             u == BTokensToUnderlyingDown(v, e)
             c == UnderlyingToBTokensUp(v, u)
             k == e + 1 - c
             lost == held * B - c * S
  <2>1. w = [shares |-> held, b_tokens |-> c, underlying |-> u]
    BY <1>5 DEF Withdrawal, FullWithdrawal
  <2>2. e \in Int /\ held * B < e * S + S
    BY <1>1, FixedDivFloorBounds DEF SharesToBTokensDown
  <2> HIDE DEF e
  <2>3. u \in Int /\ e * r < u * SCALAR_12 + SCALAR_12
    BY <1>1, <2>2, FixedMulFloorBounds DEF BTokensToUnderlyingDown
  <2> HIDE DEF u
  <2>4. c \in Int /\ u * SCALAR_12 <= c * r
    BY <1>1, <2>3, FixedDivCeilBounds DEF UnderlyingToBTokensUp
  <2> HIDE DEF c, w
  <2>5. /\ k \in Int /\ lost \in Int
        /\ k * S = e * S + S - c * S
        /\ k * r = e * r + r - c * r
    BY <1>1, <2>2, <2>4, Z3
  <2>6. /\ held * B \in Int /\ c * S \in Int /\ e * S \in Int /\ e * r \in Int
        /\ c * r \in Int /\ u * SCALAR_12 \in Int /\ k * S \in Int /\ k * r \in Int
    BY <1>1, <2>2, <2>3, <2>4, <2>5, ProductType
  <2>7. lost <= k * S /\ k * r + 1 <= r + SCALAR_12
    BY <1>1, <2>2, <2>3, <2>4, <2>5, <2>6
  <2> HIDE DEF k, lost
  <2>8. lost * r <= (k * S) * r /\ (k * r + 1) * S <= (r + SCALAR_12) * S
    BY <1>1, <2>5, <2>6, <2>7, ProductMonotone
  <2>9. /\ (k * S) * r = (k * r) * S
        /\ (k * r + 1) * S = (k * r) * S + 1 * S
        /\ (r + SCALAR_12) * S = S * (r + SCALAR_12)
    <3>1. r + SCALAR_12 \in Int
      BY <1>1
    <3> QED
      BY <1>1, <2>5, <2>6, <3>1, Distributive, ProductOrder, ProductType
  <2>10. (k * r) * S \in Int /\ lost * r \in Int /\ S * (r + SCALAR_12) \in Int
    <3>1. r + SCALAR_12 \in Int
      BY <1>1
    <3> QED
      BY <1>1, <2>5, <2>6, <3>1, ProductType
  <2>11. lost * r < S * (r + SCALAR_12)
    BY <1>1, <2>8, <2>9, <2>10
  <2> QED
    BY <2>1, <2>11 DEF lost, w
<1> QED
  BY <1>1, <1>3, <1>4, <1>5

-----------------------------------------------------------------------------
(***************************************************************************)
(* The inductive invariant.  No conjunct is inductive alone: what a        *)
(* withdrawal leaves is typed only because no user has more shares than    *)
(* there are and shares are worth something, the position is matched only  *)
(* because settling happens at the pool's b_rate, and settling keeps the   *)
(* admin balance from going negative only if it was not before.            *)
(***************************************************************************)

Inv ==
    /\ TypeOK
    /\ AdminBalanceNotNegative
    /\ SharesConserved
    /\ Backed
    /\ NoWorthlessShares

\* The settled vault that every entry point works on.
LEMMA Settled ==
    ASSUME Inv
    PROVE  /\ GetVaultUpdated \in VaultRecord
           /\ Priced(GetVaultUpdated)
           /\ GetVaultUpdated.last_update_timestamp = now
           /\ GetVaultUpdated.b_rate = pool.b_rate
           /\ GetVaultUpdated.total_shares = vault.total_shares
           /\ GetVaultUpdated.total_b_tokens + GetVaultUpdated.admin_balance = pool.b_tokens
           /\ \A user \in Users : /\ shares[user] \in Nat
                                  /\ shares[user] <= vault.total_shares
           /\ vault.total_shares = Total(Users, shares)
           /\ pool.b_rate >= vault.b_rate
              => GetVaultUpdated.total_b_tokens * pool.b_rate
                 >= vault.total_b_tokens * vault.b_rate
           /\ pool.b_rate < vault.b_rate
              => GetVaultUpdated.total_b_tokens = vault.total_b_tokens
<1>1. /\ vault \in VaultRecord /\ vault.last_update_timestamp <= now
      /\ now \in Nat /\ fee \in FeeRecord /\ pool.b_rate \in Nat \ {0}
      /\ shares \in [Users -> Nat]
  BY DEF Inv, TypeOK, AdminBalanceNotNegative, VaultRecord, FeeRecord
<1>2. LET w == GetVaultUpdated
      IN  /\ w \in VaultRecord
          /\ w.last_update_timestamp = now
          /\ w.b_rate = pool.b_rate
          /\ w.total_shares = vault.total_shares
          /\ w.total_b_tokens + w.admin_balance = vault.total_b_tokens + vault.admin_balance
          /\ vault.total_b_tokens > 0 => w.total_b_tokens > 0
          /\ pool.b_rate >= vault.b_rate
             => w.total_b_tokens * w.b_rate >= vault.total_b_tokens * vault.b_rate
          /\ pool.b_rate < vault.b_rate => w.total_b_tokens = vault.total_b_tokens
  <2>1. /\ vault \in AnyVault /\ vault.b_rate > 0
        /\ pool.b_rate \in Nat /\ pool.b_rate > 0
    BY <1>1, VaultRecordAny DEF VaultRecord
  <2> QED
    BY <1>1, <2>1, UpdateRateBounds DEF GetVaultUpdated
<1>3. \A user \in Users : shares[user] <= Total(Users, shares)
  BY <1>1, UsersAssumption, TotalBound
<1> QED
  BY <1>1, <1>2, <1>3 DEF Inv, SharesConserved, Backed, NoWorthlessShares, Priced

\* The pool mints what the vault counts, and burns what the vault counts.
LEMMA PoolAgrees ==
    ASSUME NEW amount \in Int, GetVaultUpdated.b_rate = pool.b_rate
    PROVE  /\ (amount * SCALAR_12) \div pool.b_rate
              = UnderlyingToBTokensDown(GetVaultUpdated, amount)
           /\ PoolBurnt(amount) = UnderlyingToBTokensUp(GetVaultUpdated, amount)
BY DEF UnderlyingToBTokensDown, UnderlyingToBTokensUp, FixedDivFloor, FixedDivCeil, PoolBurnt

\* A fee configuration that passes the check is typed.
LEMMA ValidFeeTyped ==
    ASSUME NEW f \in FeeConfigs, ValidFee(f)
    PROVE  f \in [rate_type : 0..2, rate : 0..SCALAR_7]
<1>1. f \in [rate_type : Nat, rate : Nat]
  BY FeesAssumption
<1>2. f.rate_type \in 0..2 /\ f.rate \in 0..SCALAR_7
  BY <1>1, ScalarAssumption DEF ValidFee
<1> QED
  BY <1>1, <1>2

\* The initial state satisfies the invariant.
LEMMA InitInv == Init => Inv
<1> SUFFICES ASSUME Init PROVE Inv
  OBVIOUS
<1>1. fee \in [rate_type : 0..2, rate : 0..SCALAR_7]
  BY ValidFeeTyped DEF Init
<1>2. /\ pool.b_rate \in Nat \ {0} /\ pool.b_tokens = 0
      /\ pool \in [b_rate : Nat \ {0}, b_tokens : Int]
  <2>1. pool \in [b_rate : BRates, b_tokens : {0}]
    BY DEF Init
  <2>2. pool.b_rate \in BRates /\ pool.b_tokens = 0
    BY <2>1
  <2>3. \A x : x \in BRates => x \in Nat \ {0}
    BY RatesAssumption, Zenon
  <2>4. \A x : x \in {0} => x \in Int
    OBVIOUS
  <2> QED
    BY <2>1, <2>2, <2>3, <2>4, Zenon
<1>3. TypeOK
  BY <1>1, <1>2 DEF Init, TypeOK
<1>4. Total(Users, shares) = 0
  <2>1. \A user \in Users : shares[user] = 0
    BY DEF Init
  <2> QED
    BY <2>1, TotalZero, Zenon
<1> QED
  BY <1>2, <1>3, <1>4
  DEF Init, Inv, AdminBalanceNotNegative, SharesConserved, Backed, NoWorthlessShares

\* What one user has more, or less, all users together have.
LEMMA SharesChanged ==
    ASSUME NEW holdings \in [Users -> Nat], NEW user \in Users, NEW k \in Int,
           holdings[user] + k >= 0
    PROVE  Total(Users, [holdings EXCEPT ![user] = holdings[user] + k])
           = Total(Users, holdings) + k
<1> DEFINE after == [holdings EXCEPT ![user] = holdings[user] + k]
<1>1. /\ after \in [Users -> Nat] /\ after[user] = holdings[user] + k
      /\ \A other \in Users \ {user} : after[other] = holdings[other]
  OBVIOUS
<1> HIDE DEF after
<1>2. Total(Users, after) = Total(Users, holdings) + k
  BY <1>1, UsersAssumption, TotalChanged
<1> QED
  BY <1>2 DEF after

\* A vault settled at time t has the type the invariant asks for at that time.
LEMMA VaultTyped ==
    ASSUME NEW v \in VaultRecord, v.last_update_timestamp = now
    PROVE  v \in [last_update_timestamp : 0..now, b_rate : Nat \ {0},
                  total_shares : Nat, total_b_tokens : Nat, admin_balance : Int]
BY DEF VaultRecord

\* A deposit or a withdrawal: the settled vault with ds shares and db b_tokens
\* more, held by the user and by the pool.
LEMMA UserStep ==
    ASSUME Inv, NEW user \in Users, NEW ds \in Int, NEW db \in Int,
           shares[user] + ds >= 0,
           GetVaultUpdated.total_b_tokens + db >= 0,
           GetVaultUpdated.total_shares + ds >= 0,
           GetVaultUpdated.total_shares + ds > 0 => GetVaultUpdated.total_b_tokens + db > 0,
           vault' = [GetVaultUpdated EXCEPT
                        !.total_shares = GetVaultUpdated.total_shares + ds,
                        !.total_b_tokens = GetVaultUpdated.total_b_tokens + db],
           shares' = [shares EXCEPT ![user] = shares[user] + ds],
           pool' = [pool EXCEPT !.b_tokens = pool.b_tokens + db],
           UNCHANGED <<fee, now>>
    PROVE  Inv'
<1> DEFINE v == GetVaultUpdated
<1>1. /\ v \in VaultRecord /\ v.last_update_timestamp = now /\ v.b_rate = pool.b_rate
      /\ v.total_shares = Total(Users, shares)
      /\ v.total_b_tokens + v.admin_balance = pool.b_tokens
  BY Settled
<1>2. /\ shares \in [Users -> Nat] /\ now \in Nat
      /\ pool \in [b_rate : Nat \ {0}, b_tokens : Int]
      /\ fee \in [rate_type : 0..2, rate : 0..SCALAR_7]
  BY DEF Inv, TypeOK
<1>3. vault' = [v EXCEPT !.total_shares = v.total_shares + ds,
                         !.total_b_tokens = v.total_b_tokens + db]
  OBVIOUS
<1>4. v.total_b_tokens + db >= 0 /\ v.total_shares + ds >= 0
  OBVIOUS
<1>5. v.total_shares + ds > 0 => v.total_b_tokens + db > 0
  OBVIOUS
<1> HIDE DEF v
<1>6. /\ vault' \in VaultRecord
      /\ vault'.last_update_timestamp = now
      /\ vault'.total_shares = v.total_shares + ds
      /\ vault'.total_b_tokens = v.total_b_tokens + db
      /\ vault'.admin_balance = v.admin_balance
  <2>1. v.total_b_tokens + db \in Nat /\ v.total_shares + ds \in Nat
    BY <1>1, <1>4 DEF VaultRecord
  <2> QED
    BY <1>1, <1>3, <2>1, Zenon DEF VaultRecord
<1>7. pool' \in [b_rate : Nat \ {0}, b_tokens : Int] /\ pool'.b_tokens = pool.b_tokens + db
  <2>1. pool.b_tokens + db \in Int
    BY <1>2
  <2> QED
    BY <1>2, <2>1, Zenon
<1>8. shares' \in [Users -> Nat]
  BY <1>2
<1>9. TypeOK'
  <2>1. vault' \in [last_update_timestamp : 0..now, b_rate : Nat \ {0},
                    total_shares : Nat, total_b_tokens : Nat, admin_balance : Int]
    BY <1>6, VaultTyped, Zenon
  <2>2. fee' = fee /\ now' = now
    BY Zenon
  <2> QED
    BY <1>2, <1>7, <1>8, <2>1, <2>2 DEF TypeOK
<1>10. SharesConserved'
  <2>1. Total(Users, shares') = Total(Users, shares) + ds
    <3>1. Total(Users, [shares EXCEPT ![user] = shares[user] + ds])
          = Total(Users, shares) + ds
      BY <1>2, SharesChanged
    <3> QED
      BY <3>1, Zenon
  <2> QED
    BY <1>1, <1>6, <2>1 DEF SharesConserved
<1>11. AdminBalanceNotNegative' /\ Backed' /\ NoWorthlessShares'
  BY <1>1, <1>2, <1>5, <1>6, <1>7
  DEF VaultRecord, AdminBalanceNotNegative, Backed, NoWorthlessShares
<1> QED
  BY <1>9, <1>10, <1>11 DEF Inv

\* A deposit preserves the invariant.
LEMMA DepositInv ==
    ASSUME Inv, NEW user \in Users, NEW amount \in Amounts, Deposit(user, amount)
    PROVE  Inv'
<1> DEFINE v == GetVaultUpdated
           b == UnderlyingToBTokensDown(v, amount)
           s == BTokensToSharesDown(v, b)
<1>1. /\ v \in VaultRecord /\ Priced(v) /\ v.b_rate = pool.b_rate
      /\ shares[user] \in Nat
  BY Settled
<1>2. amount \in Int /\ b > 0 /\ s > 0
  BY AmountsAssumption DEF Deposit
<1>3. b \in Int
  <2>1. v.b_rate \in Int /\ v.b_rate > 0 /\ SCALAR_12 \in Int
    BY <1>1, ScalarAssumption DEF VaultRecord
  <2> QED
    BY <1>2, <2>1, FixedDivFloorBounds DEF UnderlyingToBTokensDown
<1>4. s \in Int
  <2>1. b \in Nat
    BY <1>2, <1>3
  <2> QED
    BY <1>1, <2>1, MintBounds
<1>5. pool' = [pool EXCEPT !.b_tokens = pool.b_tokens + b]
  BY <1>1, <1>2, PoolAgrees DEF Deposit, PoolSupply
<1>6. /\ vault' = [v EXCEPT !.total_shares = v.total_shares + s,
                            !.total_b_tokens = v.total_b_tokens + b]
      /\ shares' = [shares EXCEPT ![user] = shares[user] + s]
      /\ UNCHANGED <<fee, now>>
  BY DEF Deposit
<1> HIDE DEF b, s
<1>7. /\ shares[user] + s >= 0
      /\ v.total_b_tokens + b >= 0
      /\ v.total_shares + s >= 0
      /\ v.total_shares + s > 0 => v.total_b_tokens + b > 0
  BY <1>1, <1>2, <1>3, <1>4 DEF VaultRecord
<1> QED
  BY <1>3, <1>4, <1>5, <1>6, <1>7, UserStep

\* A withdrawal preserves the invariant.
LEMMA WithdrawInv ==
    ASSUME Inv, NEW user \in Users, NEW amount \in Amounts, Withdraw(user, amount)
    PROVE  Inv'
<1> DEFINE v == GetVaultUpdated
           w == Withdrawal(v, shares[user], amount)
<1>1. /\ v \in VaultRecord /\ Priced(v) /\ v.b_rate = pool.b_rate
      /\ shares[user] \in Nat /\ shares[user] <= v.total_shares
  BY Settled
<1>2. amount \in Int /\ WithdrawalAccepted(v, shares[user], amount)
  BY AmountsAssumption DEF Withdraw
<1>3. /\ w.shares \in Nat /\ w.b_tokens \in Nat /\ w.underlying \in Nat
      /\ w.shares <= shares[user]
      /\ w.b_tokens <= v.total_b_tokens
      /\ w.shares < v.total_shares => w.b_tokens < v.total_b_tokens
      /\ w.b_tokens = UnderlyingToBTokensUp(v, w.underlying)
  BY <1>1, <1>2, WithdrawalBounds
<1>4. pool' = [pool EXCEPT !.b_tokens = @ - w.b_tokens]
  BY <1>1, <1>3, PoolAgrees DEF Withdraw, PoolWithdraw
<1>5. /\ vault' = [v EXCEPT !.total_shares = @ - w.shares,
                            !.total_b_tokens = @ - w.b_tokens]
      /\ shares' = [shares EXCEPT ![user] = @ - w.shares]
      /\ UNCHANGED <<fee, now>>
  BY DEF Withdraw
<1> DEFINE ds == -w.shares
           db == -w.b_tokens
<1>6. /\ v.total_shares \in Nat /\ v.total_b_tokens \in Nat /\ pool.b_tokens \in Int
  BY <1>1 DEF VaultRecord, Inv, TypeOK
<1> HIDE DEF w
<1>7. /\ ds \in Int /\ db \in Int
      /\ shares[user] + ds >= 0
      /\ v.total_b_tokens + db >= 0
      /\ v.total_shares + ds >= 0
      /\ v.total_shares + ds > 0 => v.total_b_tokens + db > 0
      /\ v.total_shares - w.shares = v.total_shares + ds
      /\ v.total_b_tokens - w.b_tokens = v.total_b_tokens + db
      /\ pool.b_tokens - w.b_tokens = pool.b_tokens + db
      /\ shares[user] - w.shares = shares[user] + ds
  BY <1>1, <1>3, <1>6
<1>8. /\ vault' = [v EXCEPT !.total_shares = v.total_shares + ds,
                            !.total_b_tokens = v.total_b_tokens + db]
      /\ shares' = [shares EXCEPT ![user] = shares[user] + ds]
      /\ pool' = [pool EXCEPT !.b_tokens = pool.b_tokens + db]
  BY <1>4, <1>5, <1>7
<1> HIDE DEF ds, db
<1> QED
  BY <1>5, <1>7, <1>8, UserStep

\* An admin call: the settled vault with db b_tokens more for the admin.
LEMMA AdminStep ==
    ASSUME Inv, NEW db \in Int, GetVaultUpdated.admin_balance + db >= 0,
           vault' = [GetVaultUpdated EXCEPT
                        !.admin_balance = GetVaultUpdated.admin_balance + db],
           pool' = [pool EXCEPT !.b_tokens = pool.b_tokens + db],
           fee' \in [rate_type : 0..2, rate : 0..SCALAR_7],
           UNCHANGED <<shares, now>>
    PROVE  Inv'
<1> DEFINE v == GetVaultUpdated
<1>1. /\ v \in VaultRecord /\ v.last_update_timestamp = now /\ Priced(v)
      /\ v.total_shares = Total(Users, shares)
      /\ v.total_b_tokens + v.admin_balance = pool.b_tokens
  BY Settled
<1>2. /\ shares \in [Users -> Nat] /\ now \in Nat
      /\ pool \in [b_rate : Nat \ {0}, b_tokens : Int]
  BY DEF Inv, TypeOK
<1>3. vault' = [v EXCEPT !.admin_balance = v.admin_balance + db] /\ v.admin_balance + db >= 0
  OBVIOUS
<1> HIDE DEF v
<1>4. /\ vault' \in VaultRecord
      /\ vault'.last_update_timestamp = now
      /\ vault'.total_shares = v.total_shares
      /\ vault'.total_b_tokens = v.total_b_tokens
      /\ vault'.admin_balance = v.admin_balance + db
  <2>1. v.admin_balance + db \in Nat
    BY <1>1, <1>3 DEF VaultRecord
  <2> QED
    BY <1>1, <1>3, <2>1, Zenon DEF VaultRecord
<1>5. pool' \in [b_rate : Nat \ {0}, b_tokens : Int] /\ pool'.b_tokens = pool.b_tokens + db
  <2>1. pool.b_tokens + db \in Int
    BY <1>2
  <2> QED
    BY <1>2, <2>1, Zenon
<1>6. TypeOK'
  <2>1. vault' \in [last_update_timestamp : 0..now, b_rate : Nat \ {0},
                    total_shares : Nat, total_b_tokens : Nat, admin_balance : Int]
    BY <1>4, VaultTyped, Zenon
  <2> QED
    BY <1>2, <1>5, <2>1 DEF TypeOK
<1>7. AdminBalanceNotNegative' /\ Backed' /\ NoWorthlessShares' /\ SharesConserved'
  BY <1>1, <1>2, <1>4, <1>5
  DEF VaultRecord, Priced, AdminBalanceNotNegative, Backed, NoWorthlessShares, SharesConserved
<1> QED
  BY <1>6, <1>7 DEF Inv

\* A deposit by the admin preserves the invariant.
LEMMA AdminDepositInv ==
    ASSUME Inv, NEW amount \in Amounts, AdminDeposit(amount)
    PROVE  Inv'
<1> DEFINE v == GetVaultUpdated
           b == UnderlyingToBTokensDown(v, amount)
<1>1. v \in VaultRecord /\ v.b_rate = pool.b_rate
  BY Settled
<1>2. amount \in Int /\ b > 0
  BY AmountsAssumption DEF AdminDeposit
<1>3. b \in Int
  <2>1. v.b_rate \in Int /\ v.b_rate > 0 /\ SCALAR_12 \in Int
    BY <1>1, ScalarAssumption DEF VaultRecord
  <2> QED
    BY <1>2, <2>1, FixedDivFloorBounds DEF UnderlyingToBTokensDown
<1>4. pool' = [pool EXCEPT !.b_tokens = pool.b_tokens + b]
  BY <1>1, <1>2, PoolAgrees DEF AdminDeposit, PoolSupply
<1>5. /\ vault' = [v EXCEPT !.admin_balance = v.admin_balance + b]
      /\ UNCHANGED <<shares, now>> /\ fee' = fee
  BY DEF AdminDeposit
<1>6. fee' \in [rate_type : 0..2, rate : 0..SCALAR_7]
  BY <1>5 DEF Inv, TypeOK
<1> HIDE DEF b
<1>7. v.admin_balance + b >= 0
  BY <1>1, <1>2, <1>3 DEF VaultRecord
<1> QED
  BY <1>3, <1>4, <1>5, <1>6, <1>7, AdminStep

\* A withdrawal by the admin preserves the invariant.
LEMMA AdminWithdrawInv ==
    ASSUME Inv, NEW amount \in Amounts, AdminWithdraw(amount)
    PROVE  Inv'
<1> DEFINE v  == GetVaultUpdated
           b  == UnderlyingToBTokensUp(v, amount)
           db == -b
<1>1. v \in VaultRecord /\ v.b_rate = pool.b_rate /\ pool.b_tokens \in Int
  BY Settled DEF Inv, TypeOK
<1>2. amount \in Int /\ b > 0 /\ b <= v.admin_balance
  BY AmountsAssumption DEF AdminWithdraw
<1>3. b \in Int
  <2>1. v.b_rate \in Int /\ v.b_rate > 0 /\ SCALAR_12 \in Int
    BY <1>1, ScalarAssumption DEF VaultRecord
  <2> QED
    BY <1>2, <2>1, FixedDivCeilBounds DEF UnderlyingToBTokensUp
<1>4. pool' = [pool EXCEPT !.b_tokens = pool.b_tokens - b]
  BY <1>1, <1>2, PoolAgrees DEF AdminWithdraw, PoolWithdraw
<1>5. /\ vault' = [v EXCEPT !.admin_balance = v.admin_balance - b]
      /\ UNCHANGED <<shares, now>> /\ fee' = fee
  BY DEF AdminWithdraw
<1>6. fee' \in [rate_type : 0..2, rate : 0..SCALAR_7]
  BY <1>5 DEF Inv, TypeOK
<1> HIDE DEF b
<1>7. /\ db \in Int /\ v.admin_balance + db >= 0
      /\ v.admin_balance - b = v.admin_balance + db
      /\ pool.b_tokens - b = pool.b_tokens + db
  BY <1>1, <1>2, <1>3 DEF VaultRecord
<1>8. /\ vault' = [v EXCEPT !.admin_balance = v.admin_balance + db]
      /\ pool' = [pool EXCEPT !.b_tokens = pool.b_tokens + db]
  BY <1>4, <1>5, <1>7
<1> HIDE DEF db
<1> QED
  BY <1>5, <1>6, <1>7, <1>8, AdminStep

\* A change of the fee configuration preserves the invariant.
LEMMA SetFeeInv ==
    ASSUME Inv, NEW f \in FeeConfigs, SetFee(f)
    PROVE  Inv'
<1> DEFINE v == GetVaultUpdated
<1>1. v \in VaultRecord /\ pool \in [b_rate : Nat \ {0}, b_tokens : Int]
  BY Settled DEF Inv, TypeOK
<1>2. /\ vault' = v /\ pool' = pool /\ UNCHANGED <<shares, now>>
      /\ fee' \in [rate_type : 0..2, rate : 0..SCALAR_7]
  BY ValidFeeTyped DEF SetFee
<1>3. /\ v.admin_balance + 0 = v.admin_balance /\ v.admin_balance >= 0
      /\ pool.b_tokens + 0 = pool.b_tokens
  BY <1>1 DEF VaultRecord
<1>4. v = [v EXCEPT !.admin_balance = v.admin_balance]
  BY <1>1 DEF VaultRecord
<1>5. pool = [pool EXCEPT !.b_tokens = pool.b_tokens]
  BY <1>1
<1>6. /\ vault' = [v EXCEPT !.admin_balance = v.admin_balance + 0]
      /\ pool' = [pool EXCEPT !.b_tokens = pool.b_tokens + 0]
  BY <1>2, <1>3, <1>4, <1>5, Zenon
<1>7. 0 \in Int /\ v.admin_balance + 0 >= 0
  BY <1>3
<1> QED
  BY <1>2, <1>6, <1>7, AdminStep

\* A change of the pool's b_rate preserves the invariant.
LEMMA PoolRateMovesInv ==
    ASSUME Inv, PoolRateMoves
    PROVE  Inv'
<1>1. PICK rate \in BRates : pool' = [pool EXCEPT !.b_rate = rate]
  BY DEF PoolRateMoves
<1>2. /\ pool' \in [b_rate : Nat \ {0}, b_tokens : Int]
      /\ pool'.b_tokens = pool.b_tokens
  <2>1. rate \in Nat \ {0}
    BY RatesAssumption, Zenon
  <2>2. pool \in [b_rate : Nat \ {0}, b_tokens : Int]
    BY DEF Inv, TypeOK
  <2> QED
    BY <1>1, <2>1, <2>2, Zenon
<1>3. UNCHANGED <<vault, shares, fee, now>>
  BY DEF PoolRateMoves
<1> QED
  BY <1>2, <1>3
  DEF Inv, TypeOK, AdminBalanceNotNegative, SharesConserved, Backed, NoWorthlessShares

\* The passing of time preserves the invariant.
LEMMA TickInv ==
    ASSUME Inv, Tick
    PROVE  Inv'
<1>1. now' = now + 1 /\ UNCHANGED <<vault, shares, fee, pool>> /\ now \in Nat
  BY DEF Tick, Inv, TypeOK
<1>2. vault' \in [last_update_timestamp : 0..now', b_rate : Nat \ {0},
                  total_shares : Nat, total_b_tokens : Nat, admin_balance : Int]
  <2>1. vault \in [last_update_timestamp : 0..now, b_rate : Nat \ {0},
                   total_shares : Nat, total_b_tokens : Nat, admin_balance : Int]
    BY DEF Inv, TypeOK
  <2>2. \A t : t \in 0..now => t \in 0..now'
    BY <1>1
  <2> QED
    BY <1>1, <2>1, <2>2, Zenon
<1>3. TypeOK'
  BY <1>1, <1>2 DEF Inv, TypeOK
<1> QED
  BY <1>1, <1>3
  DEF Inv, AdminBalanceNotNegative, SharesConserved, Backed, NoWorthlessShares

\* Every step preserves the invariant.
LEMMA StepInv == Inv /\ [Next]_vars => Inv'
<1> SUFFICES ASSUME Inv, [Next]_vars PROVE Inv'
  OBVIOUS
<1>1. CASE \E user \in Users, amount \in Amounts : Deposit(user, amount)
  BY <1>1, DepositInv
<1>2. CASE \E user \in Users, amount \in Amounts : Withdraw(user, amount)
  BY <1>2, WithdrawInv
<1>3. CASE \E amount \in Amounts : AdminDeposit(amount)
  BY <1>3, AdminDepositInv
<1>4. CASE \E amount \in Amounts : AdminWithdraw(amount)
  BY <1>4, AdminWithdrawInv
<1>5. CASE \E f \in FeeConfigs : SetFee(f)
  BY <1>5, SetFeeInv
<1>6. CASE PoolRateMoves
  BY <1>6, PoolRateMovesInv
<1>7. CASE Tick
  BY <1>7, TickInv
<1>8. CASE UNCHANGED vars
  BY <1>8 DEF vars, Inv, TypeOK, AdminBalanceNotNegative, SharesConserved, Backed,
              NoWorthlessShares
<1> QED
  BY <1>1, <1>2, <1>3, <1>4, <1>5, <1>6, <1>7, <1>8 DEF Next

-----------------------------------------------------------------------------
(***************************************************************************)
(* The theorems.                                                           *)
(***************************************************************************)

\* The inductive invariant holds in every reachable state.
THEOREM Invariance == Spec => []Inv
BY InitInv, StepInv, PTL DEF Spec

\* Every variable keeps its type: only valid fee configurations are ever stored and
\* no subtraction in the entry points goes below zero.
THEOREM TypeCorrect == Spec => []TypeOK
<1>1. Inv => TypeOK
  BY DEF Inv
<1> QED
  BY <1>1, Invariance, PTL

\* The admin balance never goes negative, under any sequence of rates and fees.
THEOREM AdminBalanceTheorem == Spec => []AdminBalanceNotNegative
<1>1. Inv => AdminBalanceNotNegative
  BY DEF Inv
<1> QED
  BY <1>1, Invariance, PTL

\* total_shares is always the sum of the users' shares.
THEOREM SharesTheorem == Spec => []SharesConserved
<1>1. Inv => SharesConserved
  BY DEF Inv
<1> QED
  BY <1>1, Invariance, PTL

\* What the vault owes in b_tokens is exactly what the pool holds for it.
THEOREM BackingTheorem == Spec => []Backed
<1>1. Inv => Backed
  BY DEF Inv
<1> QED
  BY <1>1, Invariance, PTL

\* Outstanding shares are never without b_tokens.
THEOREM WorthTheorem == Spec => []NoWorthlessShares
<1>1. Inv => NoWorthlessShares
  BY DEF Inv
<1> QED
  BY <1>1, Invariance, PTL

\* No holder's withdrawal is ever refused for lack of reserves, in the vault or in
\* the pool.
LEMMA AcceptedCovered == Inv => WithdrawalsCovered
<1> SUFFICES ASSUME Inv, NEW user \in Users, NEW amount \in Amounts,
                    WithdrawalAccepted(GetVaultUpdated, shares[user], amount)
             PROVE  LET w == Withdrawal(GetVaultUpdated, shares[user], amount)
                    IN  /\ ReservesSuffice(GetVaultUpdated, w)
                        /\ PoolBurnt(w.underlying) <= pool.b_tokens
  BY DEF WithdrawalsCovered
<1> DEFINE v == GetVaultUpdated
           w == Withdrawal(v, shares[user], amount)
<1>1. /\ v \in VaultRecord /\ Priced(v) /\ v.b_rate = pool.b_rate
      /\ shares[user] \in Nat /\ shares[user] <= v.total_shares
      /\ v.total_b_tokens + v.admin_balance = pool.b_tokens
      /\ amount \in Int
  BY Settled, AmountsAssumption
<1>2. /\ w.shares \in Nat /\ w.b_tokens \in Nat /\ w.underlying \in Nat
      /\ w.shares <= shares[user]
      /\ w.b_tokens <= v.total_b_tokens
      /\ w.b_tokens = UnderlyingToBTokensUp(v, w.underlying)
  BY <1>1, WithdrawalBounds
<1>3. PoolBurnt(w.underlying) = w.b_tokens
  BY <1>1, <1>2, PoolAgrees
<1>4. v.total_shares \in Nat /\ v.total_b_tokens \in Nat /\ v.admin_balance \in Nat
  BY <1>1 DEF VaultRecord
<1> HIDE DEF v, w
<1>5. /\ w.shares <= v.total_shares /\ w.b_tokens <= v.total_b_tokens
      /\ PoolBurnt(w.underlying) <= pool.b_tokens
  BY <1>1, <1>2, <1>3, <1>4
<1> QED
  BY <1>5 DEF ReservesSuffice, v, w

\* No holder's withdrawal is ever refused for lack of reserves, in the vault or in
\* the pool.
THEOREM WithdrawalsTheorem == Spec => []WithdrawalsCovered
BY AcceptedCovered, Invariance, PTL

\* A holder who asks for more than its balance is let out of the vault, by every pool that
\* pays that balance.
THEOREM LeavingTheorem == Spec => []HoldersMayLeave
<1>1. Inv => HoldersMayLeave
  <2> SUFFICES ASSUME Inv, NEW user \in Users, NEW amount \in Amounts,
                      shares[user] > 0, amount > GetUnderlyingTokens(user),
                      PoolAccepts(GetUnderlyingTokens(user))
               PROVE  LET w == Withdrawal(GetVaultUpdated, shares[user], amount)
                      IN  /\ WithdrawalAccepted(GetVaultUpdated, shares[user], amount)
                          /\ ReservesSuffice(GetVaultUpdated, w)
                          /\ PoolAccepts(w.underlying)
                          /\ PoolBurnt(w.underlying) <= pool.b_tokens
                          /\ w.shares = shares[user]
    BY DEF HoldersMayLeave
  <2> DEFINE v == GetVaultUpdated
  <2>1. /\ v \in VaultRecord /\ Priced(v)
        /\ shares[user] \in Nat /\ shares[user] <= v.total_shares /\ amount \in Int
    BY Settled, AmountsAssumption
  <2>2. amount > BTokensToUnderlyingDown(v, SharesToBTokensDown(v, shares[user]))
    BY DEF GetUnderlyingTokens
  <2> HIDE DEF v
  <2>3. /\ WithdrawalAccepted(v, shares[user], amount)
        /\ Withdrawal(v, shares[user], amount).shares = shares[user]
    BY <2>1, <2>2, WithdrawalOfAll
  <2>4. LET w == Withdrawal(v, shares[user], amount)
        IN  ReservesSuffice(v, w) /\ PoolBurnt(w.underlying) <= pool.b_tokens
    BY <2>3, AcceptedCovered DEF WithdrawalsCovered, v
  <2>5. Withdrawal(v, shares[user], amount).underlying = GetUnderlyingTokens(user)
    <3> DEFINE b_tokens == SharesToBTokensDown(v, shares[user])
               balance  == BTokensToUnderlyingDown(v, b_tokens)
    <3>1. balance \in Int
      <4>1. /\ SCALAR_12 \in Int /\ SCALAR_12 > 0 /\ v.b_rate \in Int /\ v.b_rate > 0
            /\ v.total_shares \in Int /\ v.total_shares > 0 /\ v.total_b_tokens \in Int
            /\ shares[user] \in Int
        BY <2>1, ScalarAssumption DEF VaultRecord
      <4>2. b_tokens \in Int
        BY <4>1, FixedDivFloorBounds DEF SharesToBTokensDown
      <4> HIDE DEF b_tokens
      <4> QED
        BY <4>1, <4>2, FixedMulFloorBounds DEF BTokensToUnderlyingDown, balance
    <3>2. Withdrawal(v, shares[user], amount).underlying
          = IF amount <= balance THEN amount ELSE balance
      BY <2>1, <2>3, WithdrawalPayment
    <3>3. balance = GetUnderlyingTokens(user)
      BY DEF GetUnderlyingTokens, v
    <3> HIDE DEF balance
    <3> QED
      BY <2>1, <2>2, <3>1, <3>2, <3>3 DEF balance
  <2> QED
    BY <2>3, <2>4, <2>5 DEF v
<1> QED
  BY <1>1, Invariance, PTL

\* A withdrawal pays exactly the request or the balance shown, whichever is less.
THEOREM PaymentTheorem == Spec => []WithdrawPaysBalance
<1>1. Inv => WithdrawPaysBalance
  <2> SUFFICES ASSUME Inv, NEW user \in Users, NEW amount \in Amounts,
                      WithdrawalAccepted(GetVaultUpdated, shares[user], amount)
               PROVE  Withdrawal(GetVaultUpdated, shares[user], amount).underlying
                      = IF amount <= GetUnderlyingTokens(user)
                        THEN amount ELSE GetUnderlyingTokens(user)
    BY DEF WithdrawPaysBalance
  <2> DEFINE v == GetVaultUpdated
  <2>1. /\ v \in VaultRecord /\ Priced(v)
        /\ shares[user] \in Nat /\ shares[user] <= v.total_shares /\ amount \in Int
    BY Settled, AmountsAssumption
  <2>2. GetUnderlyingTokens(user)
        = BTokensToUnderlyingDown(v, SharesToBTokensDown(v, shares[user]))
    BY DEF GetUnderlyingTokens, WithdrawalAccepted
  <2> HIDE DEF v
  <2>3. LET balance == BTokensToUnderlyingDown(v, SharesToBTokensDown(v, shares[user]))
        IN  Withdrawal(v, shares[user], amount).underlying
            = IF amount <= balance THEN amount ELSE balance
    BY <2>1, WithdrawalPayment DEF v
  <2> QED
    BY <2>2, <2>3 DEF v
<1> QED
  BY <1>1, Invariance, PTL

-----------------------------------------------------------------------------
(***************************************************************************)
(* The share price.  A step is a settlement, which keeps the depositors'   *)
(* value (Settled), followed by a change of shares and b_tokens that       *)
(* dilutes nobody.                                                         *)
(***************************************************************************)

\* The step took the settled vault to one where a share has no fewer b_tokens.
Undiluted ==
    /\ vault' \in VaultRecord
    /\ vault'.b_rate = pool.b_rate
    /\ vault'.total_b_tokens * vault.total_shares
       >= GetVaultUpdated.total_b_tokens * vault'.total_shares

\* A deposit does not lower the b_tokens per share.
LEMMA DepositUndiluted ==
    ASSUME Inv, vault.total_shares > 0,
           NEW user \in Users, NEW amount \in Amounts, Deposit(user, amount)
    PROVE  Undiluted
<1> DEFINE v == GetVaultUpdated
           b == UnderlyingToBTokensDown(v, amount)
           s == BTokensToSharesDown(v, b)
           B == v.total_b_tokens
           S == v.total_shares
<1>1. /\ v \in VaultRecord /\ Priced(v) /\ v.b_rate = pool.b_rate /\ S = vault.total_shares
  BY Settled
<1>2. amount \in Int /\ b > 0 /\ s > 0
  BY AmountsAssumption DEF Deposit
<1>3. b \in Int
  <2>1. v.b_rate \in Int /\ v.b_rate > 0 /\ SCALAR_12 \in Int
    BY <1>1, ScalarAssumption DEF VaultRecord
  <2> QED
    BY <1>2, <2>1, FixedDivFloorBounds DEF UnderlyingToBTokensDown
<1>4. s \in Int /\ s * B <= b * S
  <2>1. b \in Nat
    BY <1>2, <1>3
  <2> QED
    BY <1>1, <2>1, MintBounds
<1>5. vault' = [v EXCEPT !.total_shares = S + s, !.total_b_tokens = B + b]
  BY DEF Deposit
<1> HIDE DEF b, s, v
<1>6. B \in Nat /\ S \in Nat /\ S + s \in Nat /\ B + b \in Nat
  BY <1>1, <1>2, <1>3, <1>4 DEF VaultRecord
<1>7. /\ vault' \in VaultRecord /\ vault'.b_rate = pool.b_rate
      /\ vault'.total_shares = S + s /\ vault'.total_b_tokens = B + b
  BY <1>1, <1>5, <1>6, Zenon DEF VaultRecord
<1>8. (B + b) * S >= B * (S + s)
  <2>0. B \in Int /\ S \in Int /\ b \in Int /\ s \in Int
    BY <1>3, <1>4, <1>6
  <2>1. (B + b) * S = B * S + b * S /\ B * (S + s) = B * S + s * B
    BY <2>0, Distributive
  <2>2. B * S \in Int /\ b * S \in Int /\ s * B \in Int
    BY <1>3, <1>4, <1>6, ProductType
  <2> QED
    BY <2>1, <2>2, <1>4
<1> QED
  BY <1>1, <1>7, <1>8 DEF Undiluted, v

\* A withdrawal does not lower the b_tokens per share.
LEMMA WithdrawUndiluted ==
    ASSUME Inv, vault.total_shares > 0,
           NEW user \in Users, NEW amount \in Amounts, Withdraw(user, amount)
    PROVE  Undiluted
<1> DEFINE v == GetVaultUpdated
           w == Withdrawal(v, shares[user], amount)
           B == v.total_b_tokens
           S == v.total_shares
           b == w.b_tokens
           s == w.shares
<1>1. /\ v \in VaultRecord /\ Priced(v) /\ v.b_rate = pool.b_rate /\ S = vault.total_shares
      /\ shares[user] \in Nat /\ shares[user] <= S
  BY Settled
<1>2. amount \in Int /\ WithdrawalAccepted(v, shares[user], amount)
  BY AmountsAssumption DEF Withdraw
<1>3. /\ s \in Nat /\ b \in Nat /\ s <= shares[user] /\ b <= B /\ b * S <= s * B
  BY <1>1, <1>2, WithdrawalBounds
<1>4. vault' = [v EXCEPT !.total_shares = S - s, !.total_b_tokens = B - b]
  BY DEF Withdraw
<1> HIDE DEF b, s, v
<1>5. B \in Nat /\ S \in Nat /\ S - s \in Nat /\ B - b \in Nat
  BY <1>1, <1>3 DEF VaultRecord
<1>6. /\ vault' \in VaultRecord /\ vault'.b_rate = pool.b_rate
      /\ vault'.total_shares = S - s /\ vault'.total_b_tokens = B - b
  BY <1>1, <1>4, <1>5, Zenon DEF VaultRecord
<1>7. (B - b) * S >= B * (S - s)
  <2>1. (B - b) * S = B * S - b * S /\ B * (S - s) = B * S - s * B
    BY <1>3, <1>5, Distributive
  <2>2. B * S \in Int /\ b * S \in Int /\ s * B \in Int
    BY <1>3, <1>5, ProductType
  <2> QED
    BY <2>1, <2>2, <1>3
<1> QED
  BY <1>1, <1>6, <1>7 DEF Undiluted, v

\* The admin's entry points do not touch the shares or the depositors' b_tokens.
LEMMA AdminUndiluted ==
    ASSUME Inv, vault.total_shares > 0,
           \/ \E amount \in Amounts : AdminDeposit(amount) \/ AdminWithdraw(amount)
           \/ \E f \in FeeConfigs : SetFee(f)
    PROVE  Undiluted
<1> DEFINE v == GetVaultUpdated
<1>1. /\ v \in VaultRecord /\ v.b_rate = pool.b_rate /\ v.total_shares = vault.total_shares
  BY Settled
<1>2. PICK balance : vault' = [v EXCEPT !.admin_balance = balance]
  <2>1. CASE \E amount \in Amounts : AdminDeposit(amount)
    BY <2>1 DEF AdminDeposit
  <2>2. CASE \E amount \in Amounts : AdminWithdraw(amount)
    BY <2>2 DEF AdminWithdraw
  <2>3. CASE \E f \in FeeConfigs : SetFee(f)
    <3>1. vault' = v
      BY <2>3 DEF SetFee
    <3>2. v = [v EXCEPT !.admin_balance = v.admin_balance]
      BY <1>1 DEF VaultRecord
    <3> QED
      BY <3>1, <3>2
  <2> QED
    BY <2>1, <2>2, <2>3
<1> HIDE DEF v
<1>3. /\ vault'.b_rate = pool.b_rate /\ vault'.total_shares = v.total_shares
      /\ vault'.total_b_tokens = v.total_b_tokens
  BY <1>1, <1>2, Zenon DEF VaultRecord
<1>4. Inv'
  BY AdminDepositInv, AdminWithdrawInv, SetFeeInv
<1>5. vault' \in VaultRecord
  BY <1>4 DEF Inv, TypeOK, AdminBalanceNotNegative, VaultRecord
<1>6. v.total_b_tokens * v.total_shares \in Int
  BY <1>1, ProductType DEF VaultRecord
<1> QED
  BY <1>1, <1>3, <1>5, <1>6 DEF Undiluted, v

\* No share loses value: the settled value B1 * r1 covers B * r, and no share is
\* diluted afterwards.
LEMMA PriceArithmetic ==
    ASSUME NEW B \in Nat, NEW S \in Nat, NEW r \in Nat, NEW B1 \in Nat, NEW r1 \in Nat,
           NEW B2 \in Nat, NEW S2 \in Nat,
           B1 * r1 >= B * r, B2 * S >= B1 * S2
    PROVE  B2 * r1 * S >= B * r * S2
<1>1. /\ B1 * r1 \in Int /\ B * r \in Int /\ B2 * S \in Int /\ B1 * S2 \in Int
  BY ProductType
<1>2. (B1 * S2) * r1 <= (B2 * S) * r1
  BY <1>1, ProductMonotone
<1>3. (B * r) * S2 <= (B1 * r1) * S2
  BY <1>1, ProductMonotone
<1>4. (B1 * S2) * r1 = (B1 * r1) * S2 /\ (B2 * S) * r1 = B2 * r1 * S
  BY Z3
<1>5. /\ (B * r) * S2 \in Int /\ (B1 * r1) * S2 \in Int
      /\ (B1 * S2) * r1 \in Int /\ (B2 * S) * r1 \in Int
  BY <1>1, ProductType
<1> QED
  BY <1>2, <1>3, <1>4, <1>5

\* No step lowers what a share is worth, except by a drop of the pool's own rate.
THEOREM SharePriceTheorem == Spec => SharePriceNeverFalls
<1>1. Inv /\ [Next]_vars => [SharePriceProtected]_vars
  <2> SUFFICES ASSUME Inv, Next, vault.total_shares > 0, vault'.total_shares > 0
               PROVE  IF vault'.b_rate >= vault.b_rate
                      THEN vault'.total_b_tokens * vault'.b_rate * vault.total_shares
                           >= vault.total_b_tokens * vault.b_rate * vault'.total_shares
                      ELSE vault'.total_b_tokens * vault.total_shares
                           >= vault.total_b_tokens * vault'.total_shares
    BY DEF SharePriceProtected
  <2>1. vault \in VaultRecord
    BY DEF Inv, TypeOK, AdminBalanceNotNegative, VaultRecord
  <2>2. CASE vault' = vault
    <3>1. /\ vault.total_b_tokens * vault.b_rate * vault.total_shares \in Int
          /\ vault.total_b_tokens * vault.total_shares \in Int
      BY <2>1, ProductType DEF VaultRecord
    <3> QED
      BY <2>2, <3>1
  <2>3. CASE Undiluted
    <3>1. GetVaultUpdated \in VaultRecord /\ vault' \in VaultRecord
      BY <2>3, Settled DEF Undiluted
    <3>2. /\ vault.total_b_tokens \in Nat /\ vault.total_shares \in Nat /\ vault.b_rate \in Nat
          /\ GetVaultUpdated.total_b_tokens \in Nat /\ vault'.b_rate \in Nat
          /\ vault'.total_b_tokens \in Nat /\ vault'.total_shares \in Nat
      BY <2>1, <3>1 DEF VaultRecord
    <3>3. vault'.total_b_tokens * vault.total_shares
          >= GetVaultUpdated.total_b_tokens * vault'.total_shares
      BY <2>3 DEF Undiluted
    <3>4. CASE vault'.b_rate >= vault.b_rate
      <4>1. GetVaultUpdated.total_b_tokens * vault'.b_rate >= vault.total_b_tokens * vault.b_rate
        BY <2>3, <3>4, Settled DEF Undiluted
      <4> QED
        BY <3>2, <3>3, <3>4, <4>1, PriceArithmetic
    <3>5. CASE ~(vault'.b_rate >= vault.b_rate)
      <4>1. GetVaultUpdated.total_b_tokens = vault.total_b_tokens
        BY <2>3, <3>2, <3>5, Settled DEF Undiluted
      <4> QED
        BY <3>3, <3>5, <4>1
    <3> QED
      BY <3>4, <3>5
  <2>4. CASE \E user \in Users, amount \in Amounts : Deposit(user, amount)
    BY <2>3, <2>4, DepositUndiluted
  <2>5. CASE \E user \in Users, amount \in Amounts : Withdraw(user, amount)
    BY <2>3, <2>5, WithdrawUndiluted
  <2>6. CASE \/ \E amount \in Amounts : AdminDeposit(amount) \/ AdminWithdraw(amount)
             \/ \E f \in FeeConfigs : SetFee(f)
    BY <2>3, <2>6, AdminUndiluted
  <2>7. CASE PoolRateMoves \/ Tick
    BY <2>2, <2>7 DEF PoolRateMoves, Tick
  <2> QED
    BY <2>4, <2>5, <2>6, <2>7 DEF Next
<1> QED
  BY <1>1, Invariance, PTL DEF Spec, SharePriceNeverFalls

-----------------------------------------------------------------------------
(***************************************************************************)
(* What the others do.  After a call the vault is settled, so that what a  *)
(* user is shown is what the stored vault says.                            *)
(***************************************************************************)

\* Settling twice at the same time and rate changes nothing the second time.
LEMMA SettledTwice ==
    ASSUME NEW v \in VaultRecord, NEW f
    PROVE  UpdateRate(v, f, v.b_rate, v.last_update_timestamp) = v
<1>1. v.b_rate \in Int /\ v.total_b_tokens \in Nat /\ v.admin_balance \in Nat
  BY DEF VaultRecord
<1>2. UpdateRate(v, f, v.b_rate, v.last_update_timestamp)
      = [v EXCEPT !.last_update_timestamp = v.last_update_timestamp,
                  !.b_rate = v.b_rate,
                  !.total_b_tokens = v.total_b_tokens,
                  !.admin_balance = v.admin_balance]
  <2>1. v.b_rate <= v.b_rate
    BY <1>1
  <2>2. v.total_b_tokens - 0 = v.total_b_tokens /\ v.admin_balance + 0 = v.admin_balance
    BY <1>1
  <2> QED
    BY <2>1, <2>2, Zenon DEF UpdateRate
<1> QED
  BY <1>2, Zenon DEF VaultRecord

\* The same shares show no smaller balance when a share has no fewer b_tokens.
LEMMA BalanceKept ==
    ASSUME NEW s \in Nat, NEW B \in Nat, NEW S \in Nat, NEW B2 \in Nat, NEW S2 \in Nat,
           NEW r \in Nat, S > 0, S2 > 0, B2 * S >= B * S2
    PROVE  /\ FixedMulFloor(FixedDivFloor(s, S, B), r, SCALAR_12) \in Int
           /\ FixedMulFloor(FixedDivFloor(s, S2, B2), r, SCALAR_12)
              >= FixedMulFloor(FixedDivFloor(s, S, B), r, SCALAR_12)
<1> DEFINE q  == FixedDivFloor(s, S, B)
           q2 == FixedDivFloor(s, S2, B2)
           m  == FixedMulFloor(q, r, SCALAR_12)
           m2 == FixedMulFloor(q2, r, SCALAR_12)
<1>1. SCALAR_12 \in Int /\ SCALAR_12 > 0
  BY ScalarAssumption
<1>2. q \in Int /\ q * S <= s * B
  BY FixedDivFloorBounds
<1>3. q2 \in Int /\ s * B2 < q2 * S2 + S2
  BY FixedDivFloorBounds
<1> HIDE DEF q, q2
<1>4. /\ q * S \in Int /\ q * S2 \in Int /\ q2 * S2 \in Int /\ s * B \in Int /\ s * B2 \in Int
      /\ B * S2 \in Int /\ B2 * S \in Int
  BY <1>2, <1>3, ProductType
<1>5. q * S2 <= s * B2
  <2>1. (q * S) * S2 <= (s * B) * S2
    BY <1>2, <1>4, ProductMonotone
  <2>2. (B * S2) * s <= (B2 * S) * s
    BY <1>4, ProductMonotone
  <2>3. /\ (q * S) * S2 = (q * S2) * S
        /\ (s * B) * S2 = (B * S2) * s
        /\ (B2 * S) * s = (s * B2) * S
    BY <1>2, Z3
  <2>4. (q * S2) * S \in Int /\ (s * B2) * S \in Int /\ (B * S2) * s \in Int
    BY <1>4, ProductType
  <2>5. (q * S2) * S <= (s * B2) * S
    BY <2>1, <2>2, <2>3, <2>4
  <2> QED
    BY <2>5, <1>4, ProductCancel
<1>6. q <= q2
  <2>1. q * S2 < q2 * S2 + S2
    BY <1>3, <1>4, <1>5
  <2> QED
    BY <2>1, <1>2, <1>3, ProductCancel
<1>7. /\ m \in Int /\ m * SCALAR_12 <= q * r
      /\ m2 \in Int /\ q2 * r < m2 * SCALAR_12 + SCALAR_12
  BY <1>1, <1>2, <1>3, FixedMulFloorBounds
<1> HIDE DEF m, m2
<1>8. m <= m2
  <2>1. q * r <= q2 * r
    BY <1>2, <1>3, <1>6, ProductMonotone
  <2>2. /\ m * SCALAR_12 \in Int /\ m2 * SCALAR_12 \in Int
        /\ q * r \in Int /\ q2 * r \in Int
    BY <1>1, <1>2, <1>3, <1>7, ProductType
  <2>3. m * SCALAR_12 < m2 * SCALAR_12 + SCALAR_12
    BY <2>1, <2>2, <1>1, <1>7
  <2> QED
    BY <2>3, <1>1, <1>7, ProductCancel
<1> QED
  BY <1>7, <1>8 DEF m, m2, q, q2

\* A call leaves a settled vault, dilutes nobody, and only a user's own call changes
\* what belongs to the users: the admin's b_tokens are then the settled ones.
LEMMA CallsSettle ==
    ASSUME Inv, Next, pool.b_rate' = pool.b_rate, now' = now
    PROVE  /\ vault'.b_rate = pool.b_rate /\ vault'.last_update_timestamp = now
           /\ vault.total_shares > 0 => Undiluted
           /\ shares' # shares => vault'.admin_balance = GetVaultUpdated.admin_balance
<1> DEFINE v == GetVaultUpdated
<1>1. /\ v \in VaultRecord /\ v.b_rate = pool.b_rate /\ v.last_update_timestamp = now
      /\ now \in Nat
  BY Settled DEF Inv, TypeOK
<1>2. CASE \E user \in Users, amount \in Amounts : Deposit(user, amount)
  <2>1. PICK user \in Users, amount \in Amounts : Deposit(user, amount)
    BY <1>2
  <2>2. \E a, b : vault' = [v EXCEPT !.total_shares = a, !.total_b_tokens = b]
    BY <2>1 DEF Deposit
  <2> HIDE DEF v
  <2>3. /\ vault'.b_rate = v.b_rate /\ vault'.admin_balance = v.admin_balance
        /\ vault'.last_update_timestamp = v.last_update_timestamp
    BY <1>1, <2>2, Zenon DEF VaultRecord
  <2>4. vault.total_shares > 0 => Undiluted
    BY <2>1, DepositUndiluted
  <2> QED
    BY <1>1, <2>3, <2>4 DEF v
<1>3. CASE \E user \in Users, amount \in Amounts : Withdraw(user, amount)
  <2>1. PICK user \in Users, amount \in Amounts : Withdraw(user, amount)
    BY <1>3
  <2>2. \E a, b : vault' = [v EXCEPT !.total_shares = a, !.total_b_tokens = b]
    BY <2>1 DEF Withdraw
  <2> HIDE DEF v
  <2>3. /\ vault'.b_rate = v.b_rate /\ vault'.admin_balance = v.admin_balance
        /\ vault'.last_update_timestamp = v.last_update_timestamp
    BY <1>1, <2>2, Zenon DEF VaultRecord
  <2>4. vault.total_shares > 0 => Undiluted
    BY <2>1, WithdrawUndiluted
  <2> QED
    BY <1>1, <2>3, <2>4 DEF v
<1>4. CASE \/ \E amount \in Amounts : AdminDeposit(amount) \/ AdminWithdraw(amount)
           \/ \E f \in FeeConfigs : SetFee(f)
  <2>1. (vault' = v \/ \E a : vault' = [v EXCEPT !.admin_balance = a]) /\ shares' = shares
    BY <1>4 DEF AdminDeposit, AdminWithdraw, SetFee
  <2> HIDE DEF v
  <2>2. /\ vault'.b_rate = v.b_rate
        /\ vault'.last_update_timestamp = v.last_update_timestamp
    BY <1>1, <2>1, Zenon DEF VaultRecord
  <2>3. vault.total_shares > 0 => Undiluted
    BY <1>4, AdminUndiluted
  <2> QED
    BY <1>1, <2>1, <2>2, <2>3 DEF v
<1>5. CASE PoolRateMoves
  <2>1. PICK rate \in BRates \ {pool.b_rate} : pool' = [pool EXCEPT !.b_rate = rate]
    BY <1>5 DEF PoolRateMoves
  <2>2. pool \in [b_rate : Nat \ {0}, b_tokens : Int]
    BY DEF Inv, TypeOK
  <2>3. pool'.b_rate = rate
    BY <2>1, <2>2, Zenon
  <2> QED
    BY <2>1, <2>3
<1>6. CASE Tick
  BY <1>1, <1>6 DEF Tick
<1> QED
  BY <1>2, <1>3, <1>4, <1>5, <1>6 DEF Next

\* While the clock and the pool's rate stand still, nobody's balance falls by what the
\* others do, no user's call moves the admin's, and a new fee moves none at all.
THEOREM BystandersTheorem == Spec => BystandersUnharmed
<1>1. ASSUME Inv, Inv', Next, pool.b_rate' = pool.b_rate, now' = now
      PROVE  BystandersProtected
  <2>1. /\ vault'.b_rate = pool.b_rate /\ vault'.last_update_timestamp = now
        /\ vault.total_shares > 0 => Undiluted
        /\ shares' # shares => vault'.admin_balance = GetVaultUpdated.admin_balance
    BY <1>1, CallsSettle
  <2>2. vault' \in VaultRecord
    BY <1>1 DEF Inv, TypeOK, AdminBalanceNotNegative, VaultRecord
  <2>3. GetVaultUpdated' = vault'
    <3>1. GetVaultUpdated' = UpdateRate(vault', fee', vault'.b_rate, vault'.last_update_timestamp)
      BY <1>1, <2>1 DEF GetVaultUpdated
    <3> QED
      BY <3>1, <2>2, SettledTwice
  <2>4. vault'.admin_balance = GetVaultUpdated.admin_balance
        => GetUnderlyingAdminBalance' = GetUnderlyingAdminBalance
    <3>1. GetVaultUpdated.b_rate = pool.b_rate
      BY <1>1, Settled
    <3> QED
      BY <2>1, <2>3, <3>1 DEF GetUnderlyingAdminBalance, BTokensToUnderlyingDown
  <2>5. ASSUME NEW user \in Users, shares'[user] = shares[user]
        PROVE  GetUnderlyingTokens(user)' >= GetUnderlyingTokens(user)
    <3>1. /\ GetVaultUpdated \in VaultRecord /\ GetVaultUpdated.b_rate = pool.b_rate
          /\ GetVaultUpdated.total_shares = vault.total_shares
          /\ shares[user] \in Nat /\ shares[user] <= vault.total_shares
      BY <1>1, Settled
    <3>2. shares'[user] <= vault'.total_shares
      <4>1. /\ IsFiniteSet(Users) /\ shares' \in [Users -> Nat]
            /\ vault'.total_shares = Total(Users, shares')
        BY <1>1, UsersAssumption DEF Inv, TypeOK, SharesConserved
      <4> QED
        BY <4>1, TotalBound
    <3>3. CASE shares[user] = 0
      <4>1. GetUnderlyingTokens(user) = 0 /\ GetUnderlyingTokens(user)' = 0
        BY <2>5, <3>3 DEF GetUnderlyingTokens
      <4> QED
        BY <4>1
    <3>4. CASE shares[user] > 0
      <4> DEFINE s  == shares[user]
                 B  == GetVaultUpdated.total_b_tokens
                 S  == vault.total_shares
                 B2 == vault'.total_b_tokens
                 S2 == vault'.total_shares
                 r  == pool.b_rate
      <4>1. /\ s \in Nat /\ B \in Nat /\ S \in Nat /\ B2 \in Nat /\ S2 \in Nat /\ r \in Nat
            /\ S > 0 /\ S2 > 0
        BY <2>2, <2>5, <3>1, <3>2, <3>4 DEF VaultRecord
      <4>2. B2 * S >= B * S2
        BY <2>1, <4>1 DEF Undiluted
      <4>3. GetUnderlyingTokens(user)
            = FixedMulFloor(FixedDivFloor(s, S, B), r, SCALAR_12)
        BY <3>1, <3>4 DEF GetUnderlyingTokens, BTokensToUnderlyingDown, SharesToBTokensDown
      <4>4. GetUnderlyingTokens(user)'
            = FixedMulFloor(FixedDivFloor(s, S2, B2), r, SCALAR_12)
        BY <2>1, <2>3, <2>5, <3>4
        DEF GetUnderlyingTokens, BTokensToUnderlyingDown, SharesToBTokensDown
      <4> HIDE DEF s, B, S, B2, S2, r
      <4> QED
        BY <4>1, <4>2, <4>3, <4>4, BalanceKept
    <3> QED
      BY <3>1, <3>3, <3>4
  <2>6. ASSUME fee' # fee
        PROVE  /\ \A user \in Users : GetUnderlyingTokens(user)' = GetUnderlyingTokens(user)
               /\ vault'.admin_balance = GetVaultUpdated.admin_balance
    <3>1. vault' = GetVaultUpdated /\ shares' = shares /\ pool' = pool
      BY <1>1, <2>6 DEF Next, Deposit, Withdraw, AdminDeposit, AdminWithdraw, SetFee,
         PoolRateMoves, Tick
    <3> QED
      BY <2>3, <3>1 DEF GetUnderlyingTokens
  <2> QED
    BY <2>1, <2>4, <2>5, <2>6 DEF BystandersProtected
<1>2. Inv /\ Inv' /\ [Next]_vars
      => [pool.b_rate' = pool.b_rate /\ now' = now => BystandersProtected]_vars
  BY <1>1
<1> QED
  BY <1>2, Invariance, PTL DEF Spec, BystandersUnharmed

-----------------------------------------------------------------------------
(***************************************************************************)
(* What the caller itself pays for rounding.                               *)
(***************************************************************************)

\* The shares a deposit mints are worth the b_tokens it adds, up to one share.
LEMMA DepositFair ==
    ASSUME Inv, NEW user \in Users, NEW amount \in Amounts, Deposit(user, amount)
    PROVE  CallersTreatedFairly
<1> DEFINE v == GetVaultUpdated
           b == UnderlyingToBTokensDown(v, amount)
           s == BTokensToSharesDown(v, b)
           B == v.total_b_tokens
           S == v.total_shares
<1>1. /\ v \in VaultRecord /\ Priced(v) /\ v.b_rate = pool.b_rate
      /\ shares \in [Users -> Nat] /\ pool \in [b_rate : Nat \ {0}, b_tokens : Int]
  BY Settled DEF Inv, TypeOK
<1>2. amount \in Int /\ b > 0 /\ s > 0
  BY AmountsAssumption DEF Deposit
<1>3. b \in Int
  <2>1. v.b_rate \in Int /\ v.b_rate > 0 /\ SCALAR_12 \in Int
    BY <1>1, ScalarAssumption DEF VaultRecord
  <2> QED
    BY <1>2, <2>1, FixedDivFloorBounds DEF UnderlyingToBTokensDown
<1>4. s \in Int /\ (S > 0 => b * S < s * B + B)
  <2>1. b \in Nat
    BY <1>2, <1>3
  <2> QED
    BY <1>1, <2>1, MintBounds
<1>5. pool' = [pool EXCEPT !.b_tokens = pool.b_tokens + b]
  BY <1>1, <1>2, PoolAgrees DEF Deposit, PoolSupply
<1>6. shares' = [shares EXCEPT ![user] = shares[user] + s]
  BY DEF Deposit
<1>7. B \in Int /\ S \in Int
  BY <1>1 DEF VaultRecord
<1> HIDE DEF b, s, v
<1>8. pool'.b_tokens - pool.b_tokens = b
  BY <1>1, <1>3, <1>5
<1>9. /\ shares'[user] - shares[user] = s
      /\ \A other \in Users : other # user => shares'[other] = shares[other]
  BY <1>1, <1>4, <1>6
<1>10. S > 0 => b * S - s * B < B
  <2>1. b * S \in Int /\ s * B \in Int
    BY <1>3, <1>4, <1>7, ProductType
  <2> QED
    BY <1>4, <1>7, <2>1
<1> QED
  BY <1>8, <1>9, <1>10 DEF CallersTreatedFairly, v

\* The shares a withdrawal burns are worth the b_tokens it takes out, up to one share,
\* or it takes out everything.
LEMMA WithdrawFair ==
    ASSUME Inv, NEW user \in Users, NEW amount \in Amounts, Withdraw(user, amount)
    PROVE  CallersTreatedFairly
<1> DEFINE v == GetVaultUpdated
           w == Withdrawal(v, shares[user], amount)
           B == v.total_b_tokens
           S == v.total_shares
           b == w.b_tokens
           s == w.shares
           held == shares[user]
<1>1. /\ v \in VaultRecord /\ Priced(v) /\ v.b_rate = pool.b_rate
      /\ held \in Nat /\ held <= S
      /\ shares \in [Users -> Nat] /\ pool \in [b_rate : Nat \ {0}, b_tokens : Int]
  BY Settled DEF Inv, TypeOK
<1>2. amount \in Int /\ WithdrawalAccepted(v, held, amount)
  BY AmountsAssumption DEF Withdraw
<1>3. s \in Nat /\ b \in Nat /\ b = UnderlyingToBTokensUp(v, w.underlying) /\ w.underlying \in Int
  BY <1>1, <1>2, WithdrawalBounds
<1>4. \/ s * B - b * S < B
      \/ s = held /\ (s * B - b * S) * v.b_rate < S * (v.b_rate + SCALAR_12)
  BY <1>1, <1>2, WithdrawalCost
<1>5. pool' = [pool EXCEPT !.b_tokens = pool.b_tokens - b]
  BY <1>1, <1>3, PoolAgrees DEF Withdraw, PoolWithdraw
<1>6. shares' = [shares EXCEPT ![user] = held - s]
  BY DEF Withdraw
<1>7. B \in Int /\ S \in Int
  BY <1>1 DEF VaultRecord
<1> HIDE DEF b, s, v, w
<1>8. pool'.b_tokens - pool.b_tokens = -b
  BY <1>1, <1>3, <1>5
<1>9. /\ shares'[user] - shares[user] = -s
      /\ s = held => shares'[user] = 0
      /\ \A other \in Users : other # user => shares'[other] = shares[other]
  BY <1>1, <1>3, <1>6
<1>10. (-b) * S - (-s) * B = s * B - b * S
  BY <1>3, <1>7, Z3
<1> QED
  BY <1>1, <1>4, <1>8, <1>9, <1>10 DEF CallersTreatedFairly, v

\* Rounding for the vault costs the caller at most one share, or one b_token and one
\* unit of underlying when it leaves.
THEOREM RoundingTheorem == Spec => RoundingBounded
<1>1. Inv /\ [Next]_vars => [CallersTreatedFairly]_vars
  <2> SUFFICES ASSUME Inv, Next PROVE CallersTreatedFairly
    OBVIOUS
  <2>1. CASE \E user \in Users, amount \in Amounts : Deposit(user, amount)
    BY <2>1, DepositFair
  <2>2. CASE \E user \in Users, amount \in Amounts : Withdraw(user, amount)
    BY <2>2, WithdrawFair
  <2>3. CASE shares' = shares
    BY <2>3 DEF CallersTreatedFairly
  <2>4. CASE \/ \E amount \in Amounts : AdminDeposit(amount) \/ AdminWithdraw(amount)
             \/ \E f \in FeeConfigs : SetFee(f)
             \/ PoolRateMoves \/ Tick
    BY <2>3, <2>4 DEF AdminDeposit, AdminWithdraw, SetFee, PoolRateMoves, Tick
  <2> QED
    BY <2>1, <2>2, <2>4 DEF Next
<1> QED
  BY <1>1, Invariance, PTL DEF Spec, RoundingBounded

-----------------------------------------------------------------------------
(***************************************************************************)
(* What the fee configurations promise, of the vault that get_vault shows. *)
(***************************************************************************)

\* The state that a settlement starts from.
LEMMA SettledFrom ==
    ASSUME Inv
    PROVE  /\ vault \in VaultRecord /\ vault.last_update_timestamp <= now
           /\ vault \in AnyVault
           /\ now \in Nat /\ fee \in FeeRecord /\ pool.b_rate \in Nat \ {0}
           /\ vault.total_b_tokens \in Nat /\ vault.b_rate \in Nat
           /\ vault.admin_balance \in Nat
           /\ now - vault.last_update_timestamp \in Nat
           /\ fee.rate \in Nat /\ fee.rate <= SCALAR_7
BY ScalarAssumption DEF Inv, TypeOK, AdminBalanceNotNegative, VaultRecord, AnyVault, FeeRecord

\* What the depositors and the admin have when the rate has risen.
LEMMA SettledTo ==
    ASSUME Inv, pool.b_rate > vault.b_rate
    PROVE  LET moved == AdminBTokens(vault, fee, pool.b_rate, now)
           IN  /\ moved \in Int
               /\ GetVaultUpdated.total_b_tokens = vault.total_b_tokens - moved
               /\ GetVaultUpdated.admin_balance = vault.admin_balance + moved
               /\ ValueNow = vault.total_b_tokens * pool.b_rate - moved * pool.b_rate
<1> DEFINE moved == AdminBTokens(vault, fee, pool.b_rate, now)
<1>1. moved \in Int
  BY SettledFrom, AdminBTokensBounds
<1>2. ~(pool.b_rate <= vault.b_rate)
  BY SettledFrom
<1>3. /\ GetVaultUpdated.total_b_tokens = vault.total_b_tokens - moved
      /\ GetVaultUpdated.admin_balance = vault.admin_balance + moved
  BY <1>2, SettledFrom DEF GetVaultUpdated, UpdateRate, VaultRecord
<1> HIDE DEF moved
<1>4. ValueNow = vault.total_b_tokens * pool.b_rate - moved * pool.b_rate
  BY <1>1, <1>3, SettledFrom, Distributive DEF ValueNow
<1> QED
  BY <1>1, <1>3, <1>4 DEF moved

\* Take rate: of the interest the admin gets its percentage, rounded down.
THEOREM TakeRateTheorem == Spec => []TakeRateKept
<1>1. Inv => TakeRateKept
  <2> SUFFICES ASSUME Inv, fee.rate_type = 0,
                      vault.total_b_tokens * (pool.b_rate - vault.b_rate) > 0
               PROVE  TakeRateKept
    BY DEF TakeRateKept
  <2> DEFINE gain     == pool.b_rate - vault.b_rate
             interest == vault.total_b_tokens * gain
             moved    == TakeRateBTokens(vault, fee.rate, pool.b_rate)
             worth    == moved * pool.b_rate
  <2>1. /\ vault \in AnyVault /\ fee.rate \in 0..SCALAR_7
        /\ vault.total_b_tokens \in Nat /\ vault.b_rate \in Nat /\ gain \in Int
        /\ pool.b_rate \in Nat /\ pool.b_rate > 0
    BY SettledFrom, ScalarAssumption
  <2>2. /\ moved \in Int /\ interest \in Int /\ worth \in Int
        /\ worth * SCALAR_7 <= interest * fee.rate
        /\ (worth + pool.b_rate + 2 * SCALAR_12) * SCALAR_7 > interest * fee.rate
    BY <2>1, TakeWorth
  <2>3. pool.b_rate > vault.b_rate
    <3>1. CASE gain <= 0
      <4> HIDE DEF gain
      <4>1. vault.total_b_tokens * gain <= 0
        BY <3>1, <2>1, Z3
      <4>2. interest > 0
        BY DEF gain
      <4> QED
        BY <4>1, <4>2, <2>2
    <3> QED
      BY <3>1, <2>1
  <2>4. AdminBTokens(vault, fee, pool.b_rate, now) = moved
    BY DEF AdminBTokens
  <2>5. ValueNow = vault.total_b_tokens * pool.b_rate - worth
    BY <2>3, <2>4, SettledTo
  <2>6. vault.total_b_tokens * pool.b_rate \in Int
    BY <2>1, ProductType
  <2> HIDE DEF worth, interest, moved
  <2>7. vault.total_b_tokens * pool.b_rate - ValueNow = worth
    BY <2>2, <2>5, <2>6
  <2> QED
    BY <2>2, <2>7 DEF TakeRateKept, interest
<1> QED
  BY <1>1, Invariance, PTL

\* The exact value of the depositors' b_tokens at the fee rate, and the target's bounds
\* times their number.
LEMMA ValueBounds ==
    ASSUME Inv
    PROVE  LET target == TargetBRate(vault, fee.rate, now)
               B      == vault.total_b_tokens
               year   == SCALAR_7 * SECONDS_PER_YEAR
           IN  /\ target \in Int /\ ValueAtFeeRate \in Int
               /\ (B * target) * year <= ValueAtFeeRate + B * year
               /\ ValueAtFeeRate * SCALAR_12
                  <= ((B * target) * SCALAR_12 + B * vault.b_rate) * year
<1> DEFINE target == TargetBRate(vault, fee.rate, now)
           B      == vault.total_b_tokens
           r      == vault.b_rate
           year   == SCALAR_7 * SECONDS_PER_YEAR
           factor == year + fee.rate * (now - vault.last_update_timestamp)
           exact  == r * factor
           ts     == target * SCALAR_12
<1>1. /\ SCALAR_12 \in Int /\ year \in Int /\ B \in Int /\ B >= 0
      /\ r \in Int /\ factor \in Int /\ target \in Int
  BY SettledFrom, ScalarAssumption, TargetAboveRate, ProductType
<1>2. target * year <= exact + year /\ exact * SCALAR_12 <= (ts + r) * year
  BY SettledFrom, TargetBounds
<1>3. ValueAtFeeRate = B * r * factor
  BY DEF ValueAtFeeRate
<1> HIDE DEF target, B, r, year, factor
<1>4. ValueAtFeeRate = B * exact /\ exact \in Int /\ B * exact \in Int
  BY <1>1, <1>3, ProductOrder, ProductType
<1> HIDE DEF exact
<1>5. (B * target) * year <= B * exact + B * year
  <2>1. target * year \in Int /\ exact + year \in Int
    BY <1>1, <1>4, ProductType
  <2>2. (target * year) * B <= (exact + year) * B
    BY <2>1, <1>1, <1>2, ProductMonotone
  <2>3. (target * year) * B = (B * target) * year
    BY <1>1, ProductOrder, ProductType
  <2>4. (exact + year) * B = B * exact + B * year
    BY <2>1, <1>1, <1>4, Distributive, ProductType
  <2> QED
    BY <2>2, <2>3, <2>4
<1>6. (B * exact) * SCALAR_12 <= ((B * target) * SCALAR_12 + B * r) * year
  <2>1. ts \in Int /\ ts + r \in Int /\ exact * SCALAR_12 \in Int /\ (ts + r) * year \in Int
    BY <1>1, <1>4, ProductType
  <2> HIDE DEF ts
  <2>2. (exact * SCALAR_12) * B <= ((ts + r) * year) * B
    BY <2>1, <1>1, <1>2, ProductMonotone
  <2>3. (exact * SCALAR_12) * B = (B * exact) * SCALAR_12
    BY <1>1, <1>4, ProductOrder, ProductType
  <2>4. ((ts + r) * year) * B = (B * (ts + r)) * year
    BY <2>1, <1>1, ProductOrder, ProductType
  <2>5. B * (ts + r) = B * ts + B * r
    BY <2>1, <1>1, Distributive
  <2>6. B * ts = (B * target) * SCALAR_12
    BY <1>1, ProductOrder DEF ts
  <2> QED
    BY <2>2, <2>3, <2>4, <2>5, <2>6
<1> QED
  BY <1>1, <1>4, <1>5, <1>6 DEF target, B, year, r

\* Capped and fixed rate: the depositors earn no more than the rate, but for the
\* roundings.
THEOREM CapTheorem == Spec => []CapRespected
<1>1. Inv => CapRespected
  <2> SUFFICES ASSUME Inv, fee.rate_type \in {1, 2}, pool.b_rate > vault.b_rate
               PROVE  CapRespected
    BY DEF CapRespected
  <2> DEFINE B      == vault.total_b_tokens
             p      == pool.b_rate
             year   == SCALAR_7 * SECONDS_PER_YEAR
             target == TargetBRate(vault, fee.rate, now)
             diff   == BTokenDiff(vault, fee.rate, p, now)
             moved  == AdminBTokens(vault, fee, p, now)
             limit  == B * target + p + SCALAR_12
  <2>1. /\ B \in Int /\ p \in Int /\ p >= 0 /\ SCALAR_12 \in Int
        /\ SCALAR_7 \in Int /\ SECONDS_PER_YEAR \in Int /\ year \in Int /\ year > 0
    <3>1. SCALAR_7 \in Int /\ SECONDS_PER_YEAR \in Int /\ SCALAR_7 > 0 /\ SECONDS_PER_YEAR > 0
      BY ScalarAssumption
    <3>2. year \in Int /\ year > 0
      BY <3>1, ProductType, Z3
    <3> QED
      BY <3>1, <3>2, SettledFrom, ScalarAssumption
  <2>2. diff \in Int /\ B * p - diff * p < limit
    BY SettledFrom, DiffWorth
  <2>3. moved \in Int /\ moved >= diff /\ ValueNow = B * p - moved * p
    BY <2>2, SettledFrom, SettledTo, MovedDiff
  <2>4. /\ target \in Int /\ ValueAtFeeRate \in Int
        /\ (B * target) * year <= ValueAtFeeRate + B * year
    BY ValueBounds
  <2> HIDE DEF B, p, year, target, diff, moved
  <2>5. /\ diff * p <= moved * p /\ B * p \in Int /\ diff * p \in Int /\ moved * p \in Int
        /\ B * target \in Int
    BY <2>1, <2>2, <2>3, <2>4, ProductMonotone, ProductType
  <2>6. ValueNow \in Int /\ limit \in Int /\ ValueNow + 1 <= limit
    BY <2>1, <2>2, <2>3, <2>5
  <2>7. ValueNow * year + year <= limit * year
    <3> HIDE DEF limit
    <3>1. ValueNow + 1 \in Int
      BY <2>6
    <3>2. (ValueNow + 1) * year <= limit * year
      BY <3>1, <2>1, <2>6, ProductMonotone
    <3>3. (ValueNow + 1) * year = ValueNow * year + 1 * year
      BY <2>1, <2>6, Distributive
    <3> QED
      BY <3>2, <3>3, <2>1
  <2>8. limit * year = (B * target) * year + (p + SCALAR_12) * year
    <3> DEFINE rest == p + SCALAR_12
    <3>1. rest \in Int /\ limit = B * target + rest
      BY <2>1, <2>5
    <3> HIDE DEF rest, limit
    <3>2. (B * target + rest) * year = (B * target) * year + rest * year
      BY <3>1, <2>1, <2>5, Distributive
    <3> QED
      BY <3>1, <3>2 DEF rest
  <2>9. (B + p + SCALAR_12) * year = B * year + (p + SCALAR_12) * year
    <3> DEFINE rest == p + SCALAR_12
    <3>1. rest \in Int /\ B + p + SCALAR_12 = B + rest
      BY <2>1
    <3> HIDE DEF rest
    <3>2. (B + rest) * year = B * year + rest * year
      BY <3>1, <2>1, Distributive
    <3> QED
      BY <3>1, <3>2 DEF rest
  <2>10. /\ (B * target) * year \in Int /\ B * year \in Int /\ (p + SCALAR_12) * year \in Int
         /\ ValueNow * year \in Int
    <3>1. p + SCALAR_12 \in Int
      BY <2>1
    <3> QED
      BY <3>1, <2>1, <2>5, <2>6, ProductType
  <2>11. ValueNow * year < ValueAtFeeRate + (B + p + SCALAR_12) * year
    <3> DEFINE a == (B * target) * year
               b == (p + SCALAR_12) * year
               c == (B + p + SCALAR_12) * year
               d == limit * year
               e == B * year
               n == ValueNow * year
    <3>1. n + year <= d /\ d = a + b /\ c = e + b /\ a <= ValueAtFeeRate + e
      BY <2>4, <2>7, <2>8, <2>9
    <3>2. a \in Int /\ b \in Int /\ e \in Int /\ n \in Int
      BY <2>10
    <3> HIDE DEF a, b, c, d, e, n
    <3>3. n < ValueAtFeeRate + c
      BY <3>1, <3>2, <2>1, <2>4
    <3> QED
      BY <3>3 DEF n, c
  <2>12. /\ ValueNow * year = ValueNow * SCALAR_7 * SECONDS_PER_YEAR
         /\ (B + p + SCALAR_12) * year = (B + p + SCALAR_12) * SCALAR_7 * SECONDS_PER_YEAR
    <3>1. B + p + SCALAR_12 \in Int
      BY <2>1
    <3> QED
      BY <3>1, <2>1, <2>6, ProductOrder DEF year
  <2> QED
    BY <2>11, <2>12 DEF CapRespected, B, p
<1> QED
  BY <1>1, Invariance, PTL

\* Fixed rate: while the admin balance lasts, the depositors earn the rate.
THEOREM FixedRateTheorem == Spec => []FixedRateKept
<1>1. Inv => FixedRateKept
  <2> SUFFICES ASSUME Inv, fee.rate_type = 2, pool.b_rate > vault.b_rate,
                      GetVaultUpdated.admin_balance > 0
               PROVE  FixedRateKept
    BY DEF FixedRateKept
  <2> DEFINE B      == vault.total_b_tokens
             p      == pool.b_rate
             year   == SCALAR_7 * SECONDS_PER_YEAR
             target == TargetBRate(vault, fee.rate, now)
             diff   == BTokenDiff(vault, fee.rate, p, now)
             Br     == B * vault.b_rate
             low    == (B * target) * SCALAR_12 + Br
             high   == ValueNow * SCALAR_12 + Br
  <2>1. /\ B \in Int /\ p \in Int /\ SCALAR_12 \in Int /\ SCALAR_12 >= 0
        /\ SCALAR_7 \in Int /\ SECONDS_PER_YEAR \in Int /\ year \in Int /\ year >= 0
        /\ Br \in Int
    BY SettledFrom, ScalarAssumption, ProductType
  <2>2. diff \in Int /\ B * target <= B * p - diff * p
    BY SettledFrom, DiffWorth
  <2>3. ValueNow = B * p - diff * p
    BY <2>2, SettledFrom, SettledTo, MovedDiff
  <2>4. /\ target \in Int /\ ValueAtFeeRate \in Int
        /\ ValueAtFeeRate * SCALAR_12 <= low * year
    BY ValueBounds
  <2> HIDE DEF B, p, year, target, diff, Br
  <2>5. /\ B * target \in Int /\ ValueNow \in Int /\ B * target <= ValueNow
        /\ (B * target) * SCALAR_12 \in Int /\ ValueNow * SCALAR_12 \in Int
    BY <2>1, <2>2, <2>3, <2>4, ProductType
  <2>6. (B * target) * SCALAR_12 <= ValueNow * SCALAR_12
    BY <2>1, <2>5, ProductMonotone
  <2>7. low \in Int /\ high \in Int /\ low <= high
    BY <2>1, <2>5, <2>6
  <2> HIDE DEF low, high
  <2>8. low * year <= high * year /\ low * year \in Int /\ high * year \in Int
    BY <2>1, <2>7, ProductMonotone, ProductType
  <2>9. high * year >= ValueAtFeeRate * SCALAR_12
    BY <2>1, <2>4, <2>8, ProductType
  <2>10. high * year = high * SCALAR_7 * SECONDS_PER_YEAR
    BY <2>1, <2>7, ProductOrder DEF year
  <2> QED
    BY <2>9, <2>10 DEF FixedRateKept, high, Br, B
<1> QED
  BY <1>1, Invariance, PTL

=============================================================================
