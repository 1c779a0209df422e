CONSTANTS
  c1 = c1
  c2 = c2
  c3 = c3
  Callers = {c1, c2, c3}
  Threshold = 2
  TestRequests = 2
  MaxFaults = 4
SPECIFICATION FairBreaker
INVARIANT BreakerInv
PROPERTY RecoversUnlessWedged
