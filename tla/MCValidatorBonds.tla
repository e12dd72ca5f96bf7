-------------------------- MODULE MCValidatorBonds --------------------------
(* Two accounts and two consensus keys with a bps scale of 10.             *)
EXTENDS ValidatorBonds, TLC

Symmetric == Permutations(Accounts) \cup Permutations(Keys) \cup Permutations(Hashes)

=============================================================================
