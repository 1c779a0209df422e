CONSTANTS
  Items = {i1}
  Workers = {w1, w2}
  Clients = {}
  Admins = {}
  NoItem = NoItem
  MaxTx = 2
  MaxAttempts = 2
  MaxRetryCount = 3
  Depth = 3
  Bare = {}
  Confirmers = {}
  FlakyUntil = 0
  RpcErrors = TRUE
  LostReplies = TRUE
  Timely = TRUE
  Resubmit = FALSE
  MaxCrashes = 1
  MaxAdminOps = 0
SPECIFICATION FairSpec
CHECK_DEADLOCK FALSE
INVARIANT Phase1Exclusive
PROPERTY Settles
