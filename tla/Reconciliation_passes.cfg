CONSTANTS
  e1 = e1
  e2 = e2
  p1 = p1
  p2 = p2
  r1 = r1
  Events = {e1}
  Notices <- Late
  OnChain = {e1}
  Closable = {e1}
  Procs = {p1}
  Runs = {r1}
  Home <- AtP1
  NoProc = NoProc
  NoEvent = NoEvent
  Tolerance = 1
  MaxResolutions = 1
  Cap = 1
  Timely = TRUE
  MaxMishaps = 1
SPECIFICATION Spec
CHECK_DEADLOCK FALSE
INVARIANTS
  ReconInv
  OneCreditPerLife
  ResolvedWasCredited
  UnmatchedIsReported
