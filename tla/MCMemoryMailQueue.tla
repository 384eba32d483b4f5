------------------------- MODULE MCMemoryMailQueue -------------------------
(* Model-checking instances of MemoryMailQueue.                            *)
EXTENDS MemoryMailQueue, TLC

Symmetry == Permutations(Job) \cup Permutations(Runner)
=============================================================================
