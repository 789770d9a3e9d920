-------------------------------- MODULE MCLeds ------------------------------
(* Every driver, for TLC.                                                  *)
EXTENDS Leds
AllDevices == {Split, Ring, Pwm, Addr, Legion}
=============================================================================
