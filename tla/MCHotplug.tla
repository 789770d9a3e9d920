----------------------------- MODULE MCHotplug ------------------------------
(* For TLC: sda has partitions, sdb has none.                              *)
EXTENDS HotplugQueue

DiskOf == [d \in Drive |-> IF d = "sdb" THEN "sdb" ELSE "sda"]
Replugs == [k \in Disk |-> IF k = "sdb" THEN 2 ELSE 1]
=============================================================================
