-------------------------- MODULE MCCircuitBreaker --------------------------
(* The calls are interchangeable. *)
EXTENDS CircuitBreaker, TLC

CallSymmetry == Permutations(Calls)
=============================================================================
