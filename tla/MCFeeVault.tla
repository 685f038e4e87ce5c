----------------------------- MODULE MCFeeVault ----------------------------
(***************************************************************************)
(* Instances of FeeVault for TLC: everything of the contract at once, at   *)
(* the smallest sizes at which prices differ from one and rewards run.     *)
(***************************************************************************)
EXTENDS FeeVault, TLC

MCFeeConfigs == {[rate_type |-> 0, rate |-> 5], [rate_type |-> 2, rate |-> 10]}

\* Everybody signs: a signature more never disables a call.
MCSignatures == {Addresses}

\* The latest event does not matter for what may happen next.
MCView == <<vars, roleVars, rewardVars>>

\* No action tells one user from another, nor a role holder, nor a reward token.
MCSymmetry ==
    Permutations(Users) \cup Permutations(RoleHolders) \cup Permutations(Tokens)

=============================================================================
