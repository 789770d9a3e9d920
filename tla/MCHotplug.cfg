SPECIFICATION Spec
CONSTANTS
  Disk = {"sda", "sdb"}
  Drive = {"sda1", "sda2", "sdb"}
  Parent <- DiskOf
  MaxPlugs <- Replugs
  MaxDisks = 1
CHECK_DEADLOCK FALSE
INVARIANTS
  NoStaleMount
  Followed
PROPERTIES
  StaysMounted
