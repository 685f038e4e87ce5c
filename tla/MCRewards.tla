----------------------------- MODULE MCRewards -----------------------------
(***************************************************************************)
(* Instances of Rewards for TLC: one reward token, or two that the admin   *)
(* can alternate; shares and scalar so small that every division rounds.   *)
(***************************************************************************)
EXTENDS Rewards, TLC

\* No action tells one user from another, nor one reward token from another.
MCSymmetry == Permutations(Users) \cup Permutations(Tokens)

=============================================================================
