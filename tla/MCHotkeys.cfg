SPECIFICATION Spec
CONSTANTS
  b1 = b1
  b2 = b2
  k1 = k1
  k2 = k2
  k3 = k3
  Device = {d1}
  Button = {b1, b2}
  Key = {k1, k2, k3}
  Mapping <- OneAndChord
  Meaning <- KeysOnly
  Exit = "exit"
  Fd <- TwoFds
  MaxPlugs = 2
  MaxPresses = 2
  MaxGames = 1
  MaxReloads = 1
  MaxPanels = 1
CHECK_DEADLOCK FALSE
INVARIANTS
  ContextFresh
  ReadOnce
  SurvivesUnplug
  NoStuckKey
