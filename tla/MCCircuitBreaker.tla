--------------------------- MODULE MCCircuitBreaker ---------------------------
(* Instance of CircuitBreaker for TLC. *)
EXTENDS CircuitBreaker
CONSTANTS c1, c2, c3
=============================================================================
