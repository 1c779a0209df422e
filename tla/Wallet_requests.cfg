CONSTANTS
  r1 = r1
  r2 = r2
  d1 = d1
  x1 = x1
  w1 = w1
  s1 = s1
  Requests = {r1, r2}
  Deposits = {d1}
  Records = {x1}
  Withdrawals = {w1}
  Stakes = {s1}
  Amount <- Amounts
  Opening = 1
  MaxCalls = 4
  MaxMishaps = 1
SPECIFICATION FairSpec
CHECK_DEADLOCK FALSE
INVARIANTS
  NeverOverdrawn
  PostedOnce
  WalletInv
PROPERTY ConfirmedIsCredited
