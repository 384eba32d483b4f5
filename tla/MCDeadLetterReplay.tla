------------------------- MODULE MCDeadLetterReplay -------------------------
(* Model-checking instances of DeadLetterReplay.                           *)
EXTENDS DeadLetterReplay, TLC

Symmetry == Permutations(Mail) \cup Permutations(Cycle) \cup Permutations(Manual)
=============================================================================
