SPECIFICATION Spec
CONSTANTS
  d1 = d1
  d2 = d2
  ports = ports
  g1 = g1
  Drive = {d1, d2}
  Proc = {p1, p2}
  Dir = {snes, ports}
  Stock = {snes}
  Game = {g1, g2}
  Info = Info
  OnDrive <- MCOnDrive
  None = None
  FollowOverlap = FALSE
INVARIANTS
  IInv
  OnePool
  RefreshExcludes
PROPERTIES
  NothingLost
  DrivesUntouched
SYMMETRY Processes
