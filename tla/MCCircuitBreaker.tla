--------------------------- MODULE MCCircuitBreaker ---------------------------
(* CircuitBreaker with a few callers.                                      *)
EXTENDS CircuitBreaker

CONSTANTS c1, c2, c3
=============================================================================
