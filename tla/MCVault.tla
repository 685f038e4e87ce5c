------------------------------- MODULE MCVault ------------------------------
(***************************************************************************)
(* Instances of Vault for TLC: few users, and scalars so small that every  *)
(* division really rounds.                                                 *)
(***************************************************************************)
EXTENDS Vault, TLC

MCFee(type, rate) == [rate_type |-> type, rate |-> rate]

\* One configuration of each type, and a type the contract must refuse.
MCFeeConfigs == {MCFee(0, 5), MCFee(1, 3), MCFee(2, 10), MCFee(3, 5)}

\* No action tells one user from another.
MCSymmetry == Permutations(Users)

=============================================================================
