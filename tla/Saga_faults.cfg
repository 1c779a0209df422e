CONSTANTS
  c1 = c1
  c2 = c2
  c3 = c3
  Callers = {c1, c2, c3}
  Faults = {"fiat", "chain", "store", "slow", "crash"}
  MaxMishaps = 2
  MaxCalls = 5
SPECIFICATION Spec
SYMMETRY Symmetric
CHECK_DEADLOCK FALSE
INVARIANTS
  SagaFollowsLegs
  SagaInv
  EffectsBounded
PROPERTY OnlyLegalTransitions
