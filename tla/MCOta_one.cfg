SPECIFICATION Spec
CONSTANTS
  Release = {r0, r1}
  Factory = r0
  Upgrader = {u1}
  None = None
  Mixed = Mixed
  MaxRuns = 2
  MaxCuts = 1
INVARIANTS
  IInv
  BootsUnlessTorn
  UserConfKept
  SuccessMeansStaged
PROPERTIES
  LayersAgree
  OverlayFresh
  BootIsAtomic
CHECK_DEADLOCK FALSE
