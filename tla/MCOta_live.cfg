SPECIFICATION FairSpec
CONSTANTS
  Release = {r0, r1}
  Factory = r0
  Upgrader = {u1}
  None = None
  Mixed = Mixed
  MaxRuns = 1
  MaxCuts = 3
PROPERTIES
  StagedRuns
CHECK_DEADLOCK FALSE
