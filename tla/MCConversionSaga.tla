------------------------- MODULE MCConversionSaga ---------------------------
(***************************************************************************)
(* Instances of ConversionSaga: callers that race for one deposit.         *)
(***************************************************************************)
EXTENDS ConversionSagaProps, TLC

CONSTANTS c1, c2, c3

Symmetric == Permutations(Callers)

=============================================================================
