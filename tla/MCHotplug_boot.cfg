SPECIFICATION Spec
CONSTANTS
  Disk = {"sda"}
  Drive = {"sda1", "sda2"}
  Parent <- DiskOf
  MaxPlugs <- Replugs
  MaxDisks = 1
CHECK_DEADLOCK FALSE
PROPERTY
  EveryDriveMounted
