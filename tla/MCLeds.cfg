SPECIFICATION Spec
CONSTANTS
  Device <- AllDevices
  Colour = {"blue", "pink"}
  Process = {p1, p2}
  MaxEvents = 3
CHECK_DEADLOCK FALSE
INVARIANTS
  IInv
PROPERTIES
  DisabledGoesDark
  EsColourReturns
  BatteryColourHolds
