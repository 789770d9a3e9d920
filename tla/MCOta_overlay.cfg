SPECIFICATION Spec
CONSTANTS
  Release = {r0, r1}
  Factory = r0
  Upgrader = {u1}
  None = None
  Mixed = Mixed
  MaxRuns = 1
  MaxCuts = 2
INVARIANT
  OverlayAlwaysFresh
CHECK_DEADLOCK FALSE
