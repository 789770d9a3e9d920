SPECIFICATION Spec
CONSTANTS
  Game = {g1, g2}
  Stem <- SameName
  Player = {p1}
  Wheels = 2
  Path = {e1, e2}
  MaxLaunches = 2
  MaxChanges = 2
SYMMETRY Symmetry
CHECK_DEADLOCK FALSE
INVARIANTS
  Restored
  RightRom
  EvmapyStopped
  UnpluggedUnmapped
