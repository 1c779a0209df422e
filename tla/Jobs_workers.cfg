CONSTANTS
  w1 = w1
  w2 = w2
  t1 = t1
  t2 = t2
  j1 = j1
  j2 = j2
  Jobs = {j1, j2}
  Workers = {w1, w2}
  Ticks = {t1, t2}
  NoWorker = NoWorker
  Gone = Gone
  NoJob = NoJob
  Owner <- OwnTicks
  Knows <- RollingKnows
  Recurring = {j2}
  MaxRetries = 1
  Timely = TRUE
  MaxMishaps = 1
SPECIFICATION FairSpec
CHECK_DEADLOCK FALSE
INVARIANTS
  LeaseExclusive
  RetriesBounded
PROPERTY WaitingJobsSettle
