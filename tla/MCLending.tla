----------------------------- MODULE MCLending -----------------------------
(* Symmetry and view for the model-checking runs of Lending. *)
EXTENDS Lending, TLC

Symmetric == Permutations(Lenders) \cup Permutations(Brokers) \cup Permutations(Loans)

\* No action reads earned: a run whose properties do not read it either need
\* not tell apart states that differ in it alone.
WithoutEarned == <<vault, transferable, shares, debt, brokers, loans, price>>
=============================================================================
