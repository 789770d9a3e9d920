----------------------------- MODULE MCSettings -----------------------------
(* batocera-settings-set on two keys, for TLC.                             *)
EXTENDS SettingsStore
=============================================================================
