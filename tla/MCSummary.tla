----------------------------- MODULE MCSummary -----------------------------
(***************************************************************************)
(* Instances of Summary for TLC: the set-ups of the unit tests in          *)
(* src/src/summary.rs and what may follow them.  Four decimals stand for   *)
(* the seven of a rate and the twelve of a b_rate; supplies are in units   *)
(* of 1/200.                                                               *)
(***************************************************************************)
EXTENDS Summary

\* The curve that all tests share.
TestReserveConfig == [r_base |-> 300, r_one |-> 600, r_two |-> 1200, r_three |-> 50000,
                      util |-> 8000]

TestReserve(d_supply, ir_mod) ==
    [b_supply |-> 20000, b_rate |-> 15000, d_supply |-> d_supply, d_rate |-> 20000,
     ir_mod |-> ir_mod]

\* The tests write a vault of 1000 tokens, ten times what the pool supplies; this one owns
\* half of the supply.  The est_apr that they assert depends on neither; what suppliers of
\* the pool are paid (EstimateIsEarned) is about vaults that are among them.
TestSetup(bstop_rate, data, rate_type, rate, admin_balance, est_apr) ==
    [config   |-> TestReserveConfig,
     data     |-> data,
     backstop |-> bstop_rate,
     fee      |-> [rate_type |-> rate_type, rate |-> rate],
     vault    |-> [total_b_tokens |-> 10000, total_shares |-> 12000, b_rate |-> 15000,
                   last_update_timestamp |-> 0, admin_balance |-> admin_balance],
     est_apr  |-> est_apr]

TestVaultSummary == TestSetup(1000, TestReserve(12750, 25000), 0, 1000, 0, 2238)

TestFixedRateZeroTake == TestSetup(0, TestReserve(12750, 25000), 0, 0, 0, 2763)

TestCappedRateBelowCap == TestSetup(2000, TestReserve(10500, 7500), 1, 400, 0, 346)

TestCappedRateAboveCap == TestSetup(2000, TestReserve(14400, 7500), 1, 1500, 0, 1500)

TestFixedRateAdminBalance == TestSetup(2000, TestReserve(12000, 10000), 2, 700, 100, 700)

TestFixedRateNoAdminBalance == TestSetup(2000, TestReserve(12000, 10000), 2, 700, 0, 576)

MCTestSetups ==
    {TestVaultSummary, TestFixedRateZeroTake, TestCappedRateBelowCap,
     TestCappedRateAboveCap, TestFixedRateAdminBalance, TestFixedRateNoAdminBalance}

\* From no debt at all over both kinks to everything lent.
MCReserves ==
    {TestReserve(d_supply, ir_mod) :
         d_supply \in {0, 10500, 12001, 14250, 15000}, ir_mod \in {7500, 25000}}

\* The second curve has its target at the second kink.
MCReserveConfigs ==
    {TestReserveConfig, [TestReserveConfig EXCEPT !.util = 9500, !.r_one = 700]}

MCBackstopRates == {0, 2000}

\* One configuration of each type, and a type the contract must refuse.
MCFeeConfigs ==
    {[rate_type |-> 0, rate |-> 1000], [rate_type |-> 1, rate |-> 400],
     [rate_type |-> 2, rate |-> 700], [rate_type |-> 3, rate |-> 400]}

=============================================================================
