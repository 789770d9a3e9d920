----------------------------- MODULE MCServices -----------------------------
(* S99userservices and one user on two services, for TLC.  The values of   *)
(* the setting are all lists of up to MaxList names.                       *)
EXTENDS Services

CONSTANTS MCName, MaxList

ASSUME InstanceAssumption == ServicesAssumption

MCValue == UNION {[1 .. n -> MCName] : n \in 0 .. MaxList}
=============================================================================
