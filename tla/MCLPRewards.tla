---------------------------- MODULE MCLPRewards ----------------------------
(* Epochs of two flag intervals; the second epoch can emit all of the treasury. *)
EXTENDS LPRewards, TLC

MCEmissionBps(n) == IF n = 1 THEN 5 ELSE 10

Symmetric == Permutations(Keys) \cup Permutations(Accounts)

=============================================================================
