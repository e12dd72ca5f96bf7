------------------------- MODULE MCValidatorScoring -------------------------
(* Two servers score two validators over a window of two ledgers.          *)
EXTENDS ValidatorScoring

CONSTANTS l1, l2

TheLedgers == {l1, l2}
TheSeqs == [l \in TheLedgers |-> IF l = l2 THEN 2 ELSE 1]
Composites == [n \in Nodes |-> 9500]
Unslashed == [n \in Nodes |-> BpsDenom]

=============================================================================
