---------------------------- MODULE MCIntakeSave ----------------------------
(* IntakeSave with two requests that may overlap; they are interchangeable. *)
EXTENDS IntakeSave, TLC

CONSTANTS s1, s2

SaversSymmetry == Permutations({s1, s2})
=============================================================================
