CONSTANTS
  Items = {i1}
  Workers = {w1}
  Clients = {c1}
  Admins = {a1}
  NoItem = NoItem
  MaxTx = 2
  MaxAttempts = 2
  MaxRetryCount = 3
  Depth = 3
  Bare = {w1}
  Confirmers = {w1}
  FlakyUntil = 2
  RpcErrors = TRUE
  LostReplies = FALSE
  Timely = FALSE
  Resubmit = TRUE
  MaxCrashes = 1
  MaxAdminOps = 1
SPECIFICATION Spec
CHECK_DEADLOCK FALSE
INVARIANTS
  ReceiptInv
  SentHasReceipt
