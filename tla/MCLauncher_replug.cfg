SPECIFICATION Spec
CONSTANTS
  Game = {g1}
  Stem <- SameName
  Player = {p1}
  Wheels = 0
  Path = {e1, e2}
  MaxLaunches = 1
  MaxChanges = 4
CHECK_DEADLOCK FALSE
INVARIANTS
  PathsFollowed
