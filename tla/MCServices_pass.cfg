SPECIFICATION ServicesSpec
CONSTANTS
  list = list
  Key = {list}
  Custom = custom_service
  MCName = {custom_service, syncthing, bad}
  Name = {custom_service, syncthing, bad}
  Valid = {custom_service, syncthing}
  MaxList = 2
  Value <- MCValue
  Boot = S99
  Writer = {S99, user}
  Unset = Unset
  None = None
  Garbage = Garbage
INVARIANTS
  ListsAreGood
  SerialCommands
  CustomStarted
