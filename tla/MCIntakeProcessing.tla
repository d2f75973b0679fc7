------------------------- MODULE MCIntakeProcessing -------------------------
(* Small instances of IntakeProcessing: two deliveries that may overlap. *)
EXTENDS IntakeProcessing, TLC

CONSTANTS w1, w2, f1, f2
MCWorkers == {w1, w2}
MCOneField == {f1}
MCTwoFields == {f1, f2}
Symmetry == Permutations(MCWorkers) \union Permutations(MCTwoFields)
=============================================================================
