-------------------------- MODULE MCCircuitBreaker --------------------------
(***************************************************************************)
(* An instance of CircuitBreaker: three callers, two test requests.        *)
(***************************************************************************)
EXTENDS CircuitBreakerProps

CONSTANTS c1, c2, c3

=============================================================================
