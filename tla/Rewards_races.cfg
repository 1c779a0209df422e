CONSTANTS
  d1 = d1
  a1 = a1
  a2 = a2
  p1 = p1
  p2 = p2
  y1 = y1
  y2 = y2
  r1 = r1
  r2 = r2
  Deals = {d1}
  Activations = {a1, a2}
  ActOf <- SameDeal
  Passes = {p1, p2}
  Payments = {y1, y2}
  Refs = {r1, r2}
  NoReward = NoReward
  NoRef = NoRef
  MaxMoves = 2
  MaxMishaps = 1
SYMMETRY Symmetry
SPECIFICATION Spec
CHECK_DEADLOCK FALSE
INVARIANTS
  RewardsInv
  RewardedTwiceNeedsRace
  PaidAfterHold
  PaidTwiceNeedsRace
