------------------------- MODULE MCCircuitBreaker -------------------------
(* Instances of CircuitBreaker for TLC. *)
EXTENDS CircuitBreaker, TLC

CONSTANTS r1, r2, r3

Symmetry == Permutations(Runs)
=============================================================================
