--------------------------- MODULE MCValidations ---------------------------
(***************************************************************************)
(* A small instance of Validations: the server and one other validator,    *)
(* two ledgers that compete for sequence 1 and one for sequence 2.         *)
(***************************************************************************)
EXTENDS Validations, TLC

CONSTANTS self, other, a1, b1, a2

TheNodes == {self, other}
TheLedgers == {a1, b1, a2}
TheSeqs == [l \in TheLedgers |-> IF l = a2 THEN 2 ELSE 1]
\* The two ledgers of sequence 1 may be exchanged.
TheSymmetry == Permutations({a1, b1})

TheLists == {{self}, {self, other}}
=============================================================================
