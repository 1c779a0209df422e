CONSTANTS
  p1 = p1
  p2 = p2
  Procs = {p1, p2}
  MaxFailures = 2
  MaxLedger = 2
  MaxMishaps = 2
SPECIFICATION FairSpec
INVARIANTS
  IndexedUpToCheckpoint
  RowCatchesUp
PROPERTY ChainIsIndexed
