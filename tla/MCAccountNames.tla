--------------------------- MODULE MCAccountNames ---------------------------
(* Two accounts, two names and one consensus key, so that a name can change *)
(* hands while a bond of the same owner comes and goes.                     *)
EXTENDS AccountNames, TLC

Symmetric == Permutations(Accounts) \cup Permutations(Names) \cup Permutations(Hashes)

=============================================================================
