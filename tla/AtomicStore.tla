---------------------------- MODULE AtomicStore ----------------------------
(***************************************************************************)
(* What a settings file promises its readers and writers: a write applies  *)
(* to what the file holds at that moment and takes effect in one step, and *)
(* a power cut leaves a state the file really was in, never an older one   *)
(* than the last that was synced.                                          *)
(***************************************************************************)
CONSTANTS Request,       \* what a writer may ask for
          Result(_, _),  \* the file after a request
          Initial        \* what the file may hold at first

VARIABLES store,         \* what a reader finds
          durable        \* what a power cut may leave

Init == store \in Initial /\ durable = {store}

Write ==
  /\ \E r \in Request : store' = Result(store, r)
  /\ durable' = durable \cup {store'}

Sync == durable' = {store} /\ UNCHANGED store

Crash == store' \in durable /\ durable' = {store'}

Next == Write \/ Sync \/ Crash

Spec == Init /\ [][Next]_<<store, durable>>
=============================================================================
