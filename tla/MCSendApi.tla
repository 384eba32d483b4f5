----------------------------- MODULE MCSendApi -----------------------------
(* Model-checking instances of SendApi.                                    *)
EXTENDS SendApi, TLC

Symmetry == Permutations(Request) \cup Permutations(Body) \cup Permutations(Process)
=============================================================================
