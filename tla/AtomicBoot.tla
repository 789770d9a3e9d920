----------------------------- MODULE AtomicBoot -----------------------------
(***************************************************************************)
(* What the images on /boot promise the device: there is at any time one   *)
(* set of images the next boot will run, a running system may replace it,  *)
(* and a boot runs exactly that set or, when an image is torn, nothing.    *)
(* Losing power before, during or after a boot does not change the set,    *)
(* except for what a running system has not synced.                        *)
(***************************************************************************)
CONSTANTS Image,      \* the images of one boot
          Content,    \* what a file can hold
          Whole(_),   \* a content that boots
          Damage(_),  \* the contents an unsynced file can be found with
          Initial,    \* the set the device was flashed with
          None

VARIABLES next,       \* the set the next boot will run
          running     \* the set that runs, None while the device is down

Init == next = Initial /\ running = None

Install ==
  /\ running # None
  /\ next' \in [Image -> Content]
  /\ UNCHANGED running

Boot ==
  /\ running = None
  /\ \A i \in Image : Whole(next[i])
  /\ running' = next
  /\ UNCHANGED next

Down ==
  /\ running' = None
  /\ \/ UNCHANGED next
     \/ running # None /\ next' \in [Image -> Content]
                       /\ \A i \in Image : next'[i] \in Damage(next[i])

Next == Install \/ Boot \/ Down

Spec == Init /\ [][Next]_<<next, running>>
=============================================================================
