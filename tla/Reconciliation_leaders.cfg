CONSTANTS
  e1 = e1
  e2 = e2
  p1 = p1
  p2 = p2
  r1 = r1
  Events = {e1, e2}
  Notices <- Differing
  OnChain = {}
  Closable = {}
  Procs = {p1, p2}
  Runs = {}
  Home <- AtP1
  NoProc = NoProc
  NoEvent = NoEvent
  Tolerance = 1
  MaxResolutions = 1
  Cap = 1
  Timely = TRUE
  MaxMishaps = 1
SPECIFICATION FairSpec
CHECK_DEADLOCK FALSE
INVARIANTS
  OneLeader
  LeakBounded
PROPERTIES
  PendingIsDecided
  OpenIsSettled
