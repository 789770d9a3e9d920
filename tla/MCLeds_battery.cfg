SPECIFICATION Spec
CONSTANTS
  Device = {"pwm"}
  Colour = {"blue"}
  Process = {}
  MaxEvents = 5
CHECK_DEADLOCK FALSE
PROPERTIES
  BatteryAlwaysShown
