---------------------------- MODULE MCGovernance ----------------------------
(* The first epoch can emit all of the treasury, so that a boundary at      *)
(* which the treasury is empty, and the list of proposals stays, is reached.*)
EXTENDS Governance, TLC

MCEmissionBps(n) == 10

\* Keys are only compared and counted.
Symmetry == Permutations(Keys)

=============================================================================
