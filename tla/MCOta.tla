------------------------------- MODULE MCOta -------------------------------
(* The update of one device, for TLC: OtaUpgrade as it is.  The .cfg files *)
(* choose the number of upgrades, runs and interruptions.                  *)
EXTENDS OtaUpgrade
=============================================================================
