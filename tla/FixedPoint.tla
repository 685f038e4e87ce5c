----------------------------- MODULE FixedPoint -----------------------------
(***************************************************************************)
(* The four rounding operations of the soroban-fixed-point-math crate that *)
(* src/src/vault.rs and src/src/rewards.rs call on i128 values.  The crate *)
(* is not part of this repository; the sources rely on `floor' rounding    *)
(* towards minus infinity (src/src/vault.rs:128, "math lib treats floor as *)
(* rounding away from 0 for negative numbers") and on `ceil' rounding      *)
(* towards plus infinity, for a positive divisor.                          *)
(***************************************************************************)
EXTENDS Integers

\* x * y / denominator, rounded down.
FixedMulFloor(x, y, denominator) == (x * y) \div denominator

\* x * y / denominator, rounded up.
FixedMulCeil(x, y, denominator) == -((-(x * y)) \div denominator)

\* x * denominator / y, rounded down.
FixedDivFloor(x, y, denominator) == (x * denominator) \div y

\* x * denominator / y, rounded up.
FixedDivCeil(x, y, denominator) == -((-(x * denominator)) \div y)

=============================================================================
