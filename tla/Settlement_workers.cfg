CONSTANTS
  i1 = i1
  t1 = t1
  t2 = t2
  Items = {i1}
  EventTypes = {"notification_fanout", "audit_publish"}
  Fallible = {"notification_fanout"}
  Ticks = {t1, t2}
  NoKey = NoKey
  MaxAttempts = 2
  MaxRows = 2
  MaxReplays = 2
  MaxMishaps = 2
SPECIFICATION FairSpec
CHECK_DEADLOCK FALSE
INVARIANTS
  KeptInv
  ClaimExclusive
  ExecutionsBounded
PROPERTIES
  DoneIsFinal
  EventsSettle
