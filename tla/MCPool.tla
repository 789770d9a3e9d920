------------------------------- MODULE MCPool -------------------------------
(* Two drives, one of them with a game of its own, for TLC.  The processes *)
(* are interchangeable.                                                    *)
EXTENDS StoragePool, TLC

CONSTANTS d1, d2, ports, g1

MCOnDrive == [d \in {d1, d2} |-> IF d = d1 THEN {<<ports, g1>>} ELSE {}]
Processes == Permutations(Proc)
=============================================================================
