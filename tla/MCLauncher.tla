----------------------------- MODULE MCLauncher -----------------------------
(* Two roms of one name, a wheel or two pads, for TLC.                     *)
EXTENDS Launcher, TLC
SameName == [g \in Game |-> "name"]
Symmetry == Permutations(Game) \cup Permutations(Path)
=============================================================================
