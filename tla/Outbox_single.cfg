CONSTANTS
  Items = {i1, i2}
  Workers = {w1}
  Clients = {}
  Admins = {}
  NoItem = NoItem
  MaxTx = 2
  MaxAttempts = 3
  MaxRetryCount = 4
  Depth = 3
  Bare = {w1}
  Confirmers = {w1}
  FlakyUntil = 0
  RpcErrors = TRUE
  LostReplies = FALSE
  Timely = FALSE
  Resubmit = FALSE
  MaxCrashes = 2
  MaxAdminOps = 0
SPECIFICATION Spec
INVARIANTS
  NoDoubleBroadcast
  DurableIntent
PROPERTY DeliversReceipts
CHECK_DEADLOCK FALSE
