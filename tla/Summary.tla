------------------------------ MODULE Summary ------------------------------
(***************************************************************************)
(* The estimate that a dApp shows (src/src/summary.rs): the borrow rate at *)
(* the reserve's utilisation, what of it the pool's suppliers get, and     *)
(* what of that the fee of the vault leaves to its depositors.             *)
(*                                                                         *)
(* The pool is the one of the unit tests (mockpool in                      *)
(* src/src/testutils.rs), which can be put into any state, and that        *)
(* accrues interest at the borrow rate as the Blend pool does.  Rates are  *)
(* integers scaled by SCALAR_7, those of b_tokens and d_tokens by          *)
(* SCALAR_12.                                                              *)
(***************************************************************************)
EXTENDS VaultData

CONSTANTS
    Reserves,      \* reserve data the pool may be given
    ReserveConfigs, BackstopRates, FeeConfigs,
    TestSetups,    \* the set-ups of the unit tests, with the estimate they expect
    TestTolerance, \* 0_0001000, and what fewer decimals lose
    None,          \* a storage entry that is absent
    MaxTime        \* bound: the last ledger timestamp

\* What the estimate reads of a pool.  It panics on a target utilisation of zero when
\* nothing is borrowed; in a pool that the vault has a position in, the supply is
\* positive.
ReserveData   == [b_supply : Nat \ {0}, b_rate : Nat, d_supply : Nat, d_rate : Nat,
                  ir_mod : Nat]
ReserveConfig == [r_base : Nat, r_one : Nat, r_two : Nat, r_three : Nat, util : Nat \ {0}]
Fee           == [rate_type : 0..2, rate : 0..SCALAR_7]

\* A VaultData record that was written at time t or before.
VaultWritten(t) == [last_update_timestamp : 0..t, b_rate : Nat, total_shares : Nat,
                    total_b_tokens : Nat, admin_balance : Nat]

ASSUME ReservesAssumption == Reserves \subseteq ReserveData
ASSUME ConfigsAssumption  == ReserveConfigs \subseteq ReserveConfig
ASSUME BackstopAssumption == BackstopRates \subseteq 0..SCALAR_7
ASSUME FeesAssumption     == FeeConfigs \subseteq [rate_type : Nat, rate : Nat]
ASSUME SetupsAssumption   == TestSetups \subseteq
                                 [config : ReserveConfig, data : ReserveData,
                                  backstop : 0..SCALAR_7, fee : Fee,
                                  vault : VaultWritten(0), est_apr : Nat]
ASSUME NoneAssumption     == None \notin Nat

VARIABLES
    mock,     \* the mock pool's storage: b_rate (or None), data, config, backstop
    fee,      \* storage "Fee" of the vault
    vault,    \* storage "Vault"
    now       \* the ledger timestamp

vars == <<mock, fee, vault, now>>

-----------------------------------------------------------------------------
(***************************************************************************)
(* The curve.  `config' is a ReserveConfig, `data' a ReserveData.          *)
(***************************************************************************)

\* 0_9500000: where the steepest part begins.
MAX_KINK == (SCALAR_7 * 95) \div 100

\* The utilisation: what is owed to the pool as a part of what suppliers own.
CurUtil(data) ==
    LET liabilities == FixedMulCeil(data.d_supply, data.d_rate, SCALAR_12)
        supply      == FixedMulFloor(data.b_supply, data.b_rate, SCALAR_12)
    IN  IF liabilities = 0 THEN 0
        ELSE IF liabilities >= supply THEN SCALAR_7
        ELSE FixedDivCeil(liabilities, supply, SCALAR_7)

\* How far `util' is from `low' to `high', times the rate gained on the way.
Climb(util, low, high, rate) ==
    FixedMulCeil(FixedDivCeil(util - low, high - low, SCALAR_7), rate, SCALAR_7)

\* Mutant: the second part of the curve starts without r_one.
CurIrWithoutROne(util, config, ir_mod) ==
    CASE util <= config.util ->
           FixedMulCeil(Climb(util, 0, config.util, config.r_one) + config.r_base,
                        ir_mod, SCALAR_7)
      [] OTHER ->
           FixedMulCeil(Climb(util, config.util, MAX_KINK, config.r_two) + config.r_base,
                        ir_mod, SCALAR_7)

\* Mutant: the last part of the curve starts without r_two.
CurIrWithoutRTwo(util, config, ir_mod) ==
    CASE util <= config.util ->
           FixedMulCeil(Climb(util, 0, config.util, config.r_one) + config.r_base,
                        ir_mod, SCALAR_7)
      [] util > config.util /\ util <= MAX_KINK ->
           FixedMulCeil(Climb(util, config.util, MAX_KINK, config.r_two)
                            + config.r_one + config.r_base,
                        ir_mod, SCALAR_7)
      [] OTHER ->
           Climb(util, MAX_KINK, SCALAR_7, config.r_three)
           + FixedMulCeil(ir_mod, config.r_one + config.r_base, SCALAR_7)

\* The borrow rate.  It divides by config.util, so the call panics if that is zero
\* while nothing is borrowed.
CurIr(util, config, ir_mod) ==
    CASE util <= config.util ->
           FixedMulCeil(Climb(util, 0, config.util, config.r_one) + config.r_base,
                        ir_mod, SCALAR_7)
      [] util > config.util /\ util <= MAX_KINK ->
           FixedMulCeil(Climb(util, config.util, MAX_KINK, config.r_two)
                            + config.r_one + config.r_base,
                        ir_mod, SCALAR_7)
      [] OTHER ->
           Climb(util, MAX_KINK, SCALAR_7, config.r_three)
           + FixedMulCeil(ir_mod, config.r_two + config.r_one + config.r_base, SCALAR_7)

\* Mutant: the backstop's part is not taken off.
GrossSupplyApr(reserve, bstop_rate) ==
    LET util == CurUtil(reserve.data)
    IN  FixedMulFloor(CurIr(util, reserve.config, reserve.data.ir_mod), util, SCALAR_7)

\* What suppliers of the reserve earn, after the backstop.
SupplyApr(reserve, bstop_rate) ==
    LET util   == CurUtil(reserve.data)
        cur_ir == CurIr(util, reserve.config, reserve.data.ir_mod)
    IN  FixedMulFloor(FixedMulFloor(cur_ir, util, SCALAR_7),
                      SCALAR_7 - bstop_rate, SCALAR_7)

\* Mutant: a fixed rate vault never shows more than the pool pays.
EstAprUnsupplemented(supply_apr, f, admin_balance) ==
    CASE f.rate_type = 0 -> FixedMulFloor(supply_apr, SCALAR_7 - f.rate, SCALAR_7)
      [] f.rate_type \in {1, 2} -> IF supply_apr > f.rate THEN f.rate ELSE supply_apr

\* What the fee leaves to the depositors: of a fixed rate vault the full rate, as soon
\* as there is any admin balance.
EstApr(supply_apr, f, admin_balance) ==
    CASE f.rate_type = 0 -> FixedMulFloor(supply_apr, SCALAR_7 - f.rate, SCALAR_7)
      [] f.rate_type = 1 -> IF supply_apr > f.rate THEN f.rate ELSE supply_apr
      [] f.rate_type = 2 -> IF admin_balance > 0 \/ f.rate < supply_apr
                            THEN f.rate ELSE supply_apr
      [] OTHER -> 0

-----------------------------------------------------------------------------
(***************************************************************************)
(* The mock pool, and the summary of the vault over it.                    *)
(***************************************************************************)

\* get_reserve: a b_rate that was set overrides the one of the data.
GetReserve ==
    [config |-> mock.config,
     data   |-> IF mock.b_rate = None THEN mock.data
                                      ELSE [mock.data EXCEPT !.b_rate = mock.b_rate]]

\* The vault as get_vault_updated returns it.
GetVaultUpdated == UpdateRate(vault, fee, GetReserve.data.b_rate, now)

\* The est_apr of VaultSummary::load.
EstimatedApr ==
    EstApr(SupplyApr(GetReserve, mock.backstop), fee, GetVaultUpdated.admin_balance)

SetBRate(b_rate) ==
    /\ mock' = [mock EXCEPT !.b_rate = b_rate]
    /\ UNCHANGED <<fee, vault, now>>

SetBackstopRate(bstop_rate) ==
    /\ mock' = [mock EXCEPT !.backstop = bstop_rate]
    /\ UNCHANGED <<fee, vault, now>>

SetConfig(config) ==
    /\ mock' = [mock EXCEPT !.config = config]
    /\ UNCHANGED <<fee, vault, now>>

\* set_data clears a b_rate that was set.
SetData(data) ==
    /\ mock' = [mock EXCEPT !.b_rate = None, !.data = data]
    /\ UNCHANGED <<fee, vault, now>>

\* The Blend pool over one unit of time: borrowers owe interest at the borrow rate, and
\* suppliers own it but for the part of the backstop.
Accrued(reserve, bstop_rate) ==
    LET data     == reserve.data
        cur_ir   == CurIr(CurUtil(data), reserve.config, data.ir_mod)
        owed     == FixedMulCeil(data.d_supply, data.d_rate, SCALAR_12)
        owned    == FixedMulFloor(data.b_supply, data.b_rate, SCALAR_12)
        interest == FixedMulFloor(owed, cur_ir, SCALAR_7) \div SECONDS_PER_YEAR
        kept     == FixedMulFloor(interest, SCALAR_7 - bstop_rate, SCALAR_7)
    IN  [data EXCEPT
           !.b_rate = FixedDivFloor(owned + kept, data.b_supply, SCALAR_12),
           !.d_rate = @ + FixedMulFloor(@, cur_ir, SCALAR_7) \div SECONDS_PER_YEAR]

\* Interest accrues, and whoever calls the vault next settles it.
Accrue ==
    /\ now < MaxTime
    /\ now' = now + 1
    /\ mock' = [mock EXCEPT !.b_rate = None, !.data = Accrued(GetReserve, mock.backstop)]
    /\ vault' = UpdateRate(GetVaultUpdated, fee, mock'.data.b_rate, now')
    /\ UNCHANGED fee

\* The admin configures another fee (set_fee), which settles the vault before.  That it
\* must be the admin is left to FeeVault: there are no roles here.
SetFee(f) ==
    /\ ValidFee(f)
    /\ vault' = GetVaultUpdated
    /\ fee' = f
    /\ UNCHANGED <<mock, now>>

\* The tests register a pool with config and data, and write the vault to storage.
Init ==
    \E setup \in TestSetups :
        /\ mock = [b_rate |-> None, data |-> setup.data, config |-> setup.config,
                   backstop |-> setup.backstop]
        /\ fee = setup.fee
        /\ vault = setup.vault
        /\ now = 0

Next ==
    \/ \E data \in Reserves : SetData(data)
    \/ \E data \in Reserves : SetBRate(data.b_rate)
    \/ \E bstop_rate \in BackstopRates : SetBackstopRate(bstop_rate)
    \/ \E config \in ReserveConfigs : SetConfig(config)
    \/ \E f \in FeeConfigs : SetFee(f)
    \/ Accrue

Spec == Init /\ [][Next]_vars

-----------------------------------------------------------------------------
(***************************************************************************)
(* Properties.                                                             *)
(***************************************************************************)

\* Every variable has its type: whatever interest accrues and whoever pays the fee, no
\* rate, supply or balance goes below zero.
TypeOK ==
    /\ mock \in [b_rate : Nat \cup {None}, data : ReserveData, config : ReserveConfig,
                 backstop : 0..SCALAR_7]
    /\ fee \in Fee
    /\ vault \in VaultWritten(now)
    /\ now \in Nat

\* The model computes what the unit tests of summary.rs assert of the code.
EstimatesAsTested ==
    \A setup \in TestSetups :
        /\ GetReserve = [config |-> setup.config, data |-> setup.data]
        /\ mock.backstop = setup.backstop
        /\ fee = setup.fee
        /\ vault = setup.vault
        => /\ EstimatedApr >= setup.est_apr - TestTolerance
           /\ EstimatedApr <= setup.est_apr + TestTolerance

\* At the two kinks the three formulas meet: one unit of utilisation more costs borrowers
\* no more than the part of the curve that begins there, and no less than nothing.  (With
\* a target at the second kink the part between is missing, and the rate jumps by r_two.)
CurveMeetsAtKinks ==
    LET c    == GetReserve.config
        m    == GetReserve.data.ir_mod
        step(low, high, rate) == Climb(low + 1, low, high, rate) + 1
        rise(kink) == CurIr(kink + 1, c, m) - CurIr(kink, c, m)
    IN  c.util < MAX_KINK =>
        /\ rise(c.util) \in 0..FixedMulCeil(step(c.util, MAX_KINK, c.r_two), m, SCALAR_7)
        /\ rise(MAX_KINK) \in 0..step(MAX_KINK, SCALAR_7, c.r_three)

\* A step in which the pool lent more, and all else the estimate depends on stayed.
MoreDebt ==
    /\ GetReserve'.data = [GetReserve.data EXCEPT !.d_supply = GetReserve'.data.d_supply]
    /\ GetReserve'.data.d_supply >= GetReserve.data.d_supply
    /\ mock'.config = mock.config
    /\ mock'.backstop = mock.backstop
    /\ UNCHANGED <<fee, vault>>

\* More debt never lowers the estimate, all else equal: utilisation, the curve and the
\* fee are rounded up and down six times on the way.
EstimateFollowsDebt == [][MoreDebt => EstimatedApr' >= EstimatedApr]_vars

\* The estimate is what depositors get: when the pool accrues interest for a while and
\* the vault is settled, their b_tokens are worth est_apr more, and over a year of such
\* whiles no more and no less than the roundings on the way explain: of the rate, by
\* three units; of the utilisation, which is one unit too high, and of what suppliers own,
\* at the rates these earn; and in each while of a unit of b_rate for each b_token, and of
\* what settling moves.  The vault's b_tokens are part of the pool's supply; of a fixed rate
\* vault, as long as its admin balance lasts, and the b_rate rises.
EstimateIsEarned ==
    [][LET before  == GetVaultUpdated
           reserve == GetReserve
           util    == CurUtil(reserve.data)
           held    == before.total_b_tokens
           value   == held * before.b_rate
           gained  == SECONDS_PER_YEAR * (vault'.total_b_tokens * vault'.b_rate - value)
           unit    == value \div SCALAR_7
           inexact == ((unit + 1) * CurIr(util, reserve.config, reserve.data.ir_mod))
                          \div SCALAR_7 + 1
                      + APR_SCALE * SupplyApr(reserve, mock.backstop)
       IN  /\ now' # now
           /\ vault'.b_rate > before.b_rate
           /\ util < SCALAR_7
           /\ held <= reserve.data.b_supply
           /\ before.admin_balance > 0 => vault'.admin_balance > 0
           => /\ gained >= unit * EstimatedApr - inexact
                           - SECONDS_PER_YEAR
                             * (held + value \div SCALAR_12 + 1 + 3 * SCALAR_12)
              /\ gained <= (unit + 1) * (EstimatedApr + 3)
                           + SECONDS_PER_YEAR
                             * (held + vault'.b_rate + 2 * SCALAR_12)]_vars

=============================================================================
