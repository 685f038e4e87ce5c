----------------------------- MODULE MCStorage -----------------------------
(***************************************************************************)
(* Instances of Storage for TLC: a ledger stands for a number of days.     *)
(***************************************************************************)
EXTENDS Storage, TLC

\* No action tells one user from another, nor one token from another.
MCSymmetry == Permutations(Users) \cup Permutations(Tokens)

=============================================================================
