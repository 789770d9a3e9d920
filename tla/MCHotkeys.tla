----------------------------- MODULE MCHotkeys -----------------------------
(* One button for a key and a chord for another action, for TLC.           *)
EXTENDS HotkeyDaemon
CONSTANTS b1, b2, k1, k2, k3
TwoFds == 1 .. 2
OneAndChord == {[buttons |-> {b1}, action |-> "exit"],
                [buttons |-> {b1, b2}, action |-> "mousemode"]}
KeysOnly == [c \in {Default, Game} |->
               [a \in {"exit", "mousemode"} |->
                  IF a = "exit" THEN IF c = Default THEN {k1} ELSE {k2} ELSE {k3}]]
WithCommand == [c \in {Default, Game} |->
                  [a \in {"exit", "mousemode"} |->
                     IF a = "exit" THEN {k1} ELSE Command]]
=============================================================================
