--------------------------- MODULE SettingsStore ---------------------------
(***************************************************************************)
(* batocera-settings-set, as patched in this repository: every writer of   *)
(* batocera.conf takes a lock file, reads the whole file, and replaces it  *)
(* through a synced temporary file.  A process may be killed, a call may   *)
(* fail and power may be lost at every step.                               *)
(***************************************************************************)
CONSTANTS Key,       \* the names of settings
          Value,     \* their values
          Writer,    \* the processes that may run batocera-settings-set
          Unset,     \* no line for a key
          None,      \* no file, no process
          Garbage    \* a file that is not text: empty, cut short or full of NULs

Settings == [Key -> Value \cup {Unset}]
File == Settings \cup {None, Garbage}

ASSUME NamesAssumption ==
  /\ None \notin Writer \cup Settings /\ Garbage \notin Settings \cup {None}
  /\ Unset \notin Value

(* One call sets several keys; it may ask for the file to be validated.    *)
Assignment == UNION {[K -> Value] : K \in (SUBSET Key) \ {{}}}
Request == [set : Assignment, validate : BOOLEAN]

ASSUME RequestAssumption == None \notin [set : Assignment, validate : BOOLEAN]

VARIABLES
  conf,      \* what a reader of the file finds
  durable,   \* what a power cut may leave of it
  lock,      \* the process that has the lock file locked
  pc,        \* the next step of each writer
  ask,       \* what each writer was asked
  read,      \* what each writer has read
  temp,      \* the temporary file of each writer
  synced,    \* history: the file when it was last synced
  since      \* history: the keys written since then

store == <<conf, durable, synced, since>>
vars  == <<store, lock, pc, ask, read, temp>>

(* Types; what is read, written or left by a cut is a file.                *)
TypeOK ==
  /\ conf \in File
  /\ durable \subseteq File
  /\ lock \in Writer \cup {None}
  /\ pc \in [Writer -> {"idle", "lock", "read", "temp", "write", "rename",
                        "sync", "unlock"}]
  /\ ask \in [Writer -> Request \cup {None}]
  /\ read \in [Writer -> File]
  /\ temp \in [Writer -> File]
  /\ synced \in File
  /\ since \subseteq Key

Blank == [k \in Key |-> Unset]

(* What is written for a request on what was read: a missing file counts   *)
(* as an empty one, and what is not text stays so.                         *)
Written(file, set) ==
  IF file = Garbage THEN Garbage
  ELSE LET old == IF file = None THEN Blank ELSE file
       IN [k \in Key |-> IF k \in DOMAIN set THEN set[k] ELSE old[k]]

Setting(file, k) == IF file \in {None, Garbage} THEN Unset ELSE file[k]

Init ==
  /\ conf \in {None, Garbage, Blank} /\ durable = {conf}
  /\ lock = None
  /\ pc = [w \in Writer |-> "idle"]
  /\ ask = [w \in Writer |-> None]
  /\ read = [w \in Writer |-> None]
  /\ temp = [w \in Writer |-> None]
  /\ synced = conf /\ since = {}

-----------------------------------------------------------------------------
At(w, p) == pc[w] = p
Go(w, p) == pc' = [pc EXCEPT ![w] = p]

Begin(w, r) ==
  /\ At(w, "idle") /\ Go(w, "lock")
  /\ ask' = [ask EXCEPT ![w] = r]
  /\ UNCHANGED <<store, lock, read, temp>>

Start(w) == \E r \in Request : Begin(w, r)

(* Mutant: whoever ends removes the lock, as a trap would a lock file.     *)
ExitUnlocking(w) ==
  /\ Go(w, "idle") /\ lock' = None
  /\ ask' = [ask EXCEPT ![w] = None]
  /\ read' = [read EXCEPT ![w] = None]
  /\ temp' = [temp EXCEPT ![w] = None]

(* The process ends: the kernel drops its lock and what it has in memory.  *)
(* A temporary file that stays is never read again: its name is new.       *)
Exit(w) ==
  /\ Go(w, "idle")
  /\ lock' = IF lock = w THEN None ELSE lock
  /\ ask' = [ask EXCEPT ![w] = None]
  /\ read' = [read EXCEPT ![w] = None]
  /\ temp' = [temp EXCEPT ![w] = None]

(* Mutant: no lock is taken.                                               *)
LockNothing(w) ==
  /\ At(w, "lock") /\ Go(w, "read")
  /\ UNCHANGED <<store, lock, ask, read, temp>>

LockConfig(w) ==
  /\ At(w, "lock") /\ lock = None
  /\ lock' = w /\ Go(w, "read")
  /\ UNCHANGED <<store, ask, read, temp>>

ReadConfig(w) ==
  /\ At(w, "read")
  /\ conf = Garbage => ~ask[w].validate
  /\ read' = [read EXCEPT ![w] = conf]
  /\ Go(w, "temp")
  /\ UNCHANGED <<store, lock, ask, temp>>

(* Embedded NUL bytes are an error when validation is asked for.           *)
Reject(w) ==
  /\ At(w, "read") /\ conf = Garbage /\ ask[w].validate
  /\ Exit(w) /\ UNCHANGED store

MakeTemp(w) ==
  /\ At(w, "temp") /\ Go(w, "write")
  /\ temp' = [temp EXCEPT ![w] = Garbage]
  /\ UNCHANGED <<store, lock, ask, read>>

WriteTemp(w) ==
  /\ At(w, "write") /\ Go(w, "rename")
  /\ temp' = [temp EXCEPT ![w] = Written(read[w], ask[w].set)]
  /\ UNCHANGED <<store, lock, ask, read>>

(* Mutant: the temporary file is renamed before it is synced.              *)
RenameUnsynced(w) ==
  /\ At(w, "rename") /\ Go(w, "sync")
  /\ conf' = temp[w] /\ durable' = durable \cup {temp[w], Garbage}
  /\ since' = since \cup DOMAIN ask[w].set
  /\ temp' = [temp EXCEPT ![w] = None]
  /\ UNCHANGED <<lock, ask, read, synced>>

Rename(w) ==
  /\ At(w, "rename") /\ Go(w, "sync")
  /\ conf' = temp[w] /\ durable' = durable \cup {temp[w]}
  /\ since' = since \cup DOMAIN ask[w].set
  /\ temp' = [temp EXCEPT ![w] = None]
  /\ UNCHANGED <<lock, ask, read, synced>>

(* Mutant: the directory is synced before the last rename is in it.        *)
FlushedEarly == synced' = conf /\ since' = {} /\ UNCHANGED <<conf, durable>>

Flushed == durable' = {conf} /\ synced' = conf /\ since' = {} /\ UNCHANGED conf

(* The directory is synced; that this may fail is ignored.                 *)
SyncParent(w) ==
  /\ At(w, "sync") /\ Go(w, "unlock")
  /\ Flushed \/ UNCHANGED store
  /\ UNCHANGED <<lock, ask, read, temp>>

Unlock(w) ==
  /\ At(w, "unlock") /\ Exit(w) /\ UNCHANGED store

(* A call fails: what was made of the temporary file is unlinked.          *)
Fail(w) ==
  /\ pc[w] \in {"lock", "read", "temp", "write", "rename"}
  /\ Exit(w) /\ UNCHANGED store

(* Mutant: the lock is a file that a killed process leaves behind.         *)
KillLocked(w) ==
  /\ pc[w] # "idle" /\ Go(w, "idle")
  /\ UNCHANGED <<store, lock, ask, read, temp>>

Kill(w) ==
  /\ pc[w] # "idle" /\ Exit(w) /\ UNCHANGED store

Progress(w) ==
  \/ ReadConfig(w) \/ Reject(w) \/ MakeTemp(w) \/ WriteTemp(w)
  \/ Rename(w) \/ SyncParent(w) \/ Unlock(w)

WriteStep(w) == LockConfig(w) \/ Progress(w) \/ Fail(w)

(* The kernel writes back what is dirty.                                   *)
Writeback == Flushed /\ UNCHANGED <<lock, pc, ask, read, temp>>

PowerLoss ==
  /\ conf' \in durable /\ durable' = {conf'} /\ synced' = conf' /\ since' = {}
  /\ lock' = None
  /\ pc' = [w \in Writer |-> "idle"]
  /\ ask' = [w \in Writer |-> None]
  /\ read' = [w \in Writer |-> None]
  /\ temp' = [w \in Writer |-> None]

Next ==
  \/ \E w \in Writer : Start(w) \/ WriteStep(w) \/ Kill(w)
  \/ Writeback \/ PowerLoss

Spec == Init /\ [][Next]_vars

(* A process that has the lock runs on, and flock wakes those that wait;   *)
(* that a call fails or a process is killed is never relied on.            *)
FairSpec ==
  Spec /\ \A w \in Writer : WF_vars(Progress(w)) /\ SF_vars(LockConfig(w))

-----------------------------------------------------------------------------
(* Concurrent writers are serialised: each replaces the file by its        *)
(* request applied to what the file holds then, in one step, and a cut     *)
(* leaves one of the states since the last sync (the patch, 34-63, 86-150).*)
Locked == {"read", "temp", "write", "rename", "sync", "unlock"}

Store == INSTANCE AtomicStore WITH
  Request <- Assignment, Result <- Written, Initial <- {None, Garbage, Blank},
  store <- conf, durable <- durable
StoreIsAtomic == Store!Spec

(* The lock excludes: whoever is between lock and unlock holds it.         *)
LockExcludes == \A w \in Writer : pc[w] \in Locked <=> lock = w

(* What a writer is about to put in place was made from what the file      *)
(* still holds, so no write that came in between is lost.                  *)
ReadIsFresh ==
  \A w \in Writer :
    /\ pc[w] \in {"temp", "write", "rename"} => read[w] = conf
    /\ pc[w] = "rename" => temp[w] = Written(read[w], ask[w].set)
    /\ pc[w] # "idle" => ask[w] # None

(* The inductive invariant: the lock excludes, so what is read stays fresh,*)
(* and the file is one of those a cut may leave (the patch, 158-258).      *)
IInv == TypeOK /\ conf \in durable /\ LockExcludes /\ ReadIsFresh

(* "Interrupted writes cannot leave a partially written batocera.conf":    *)
(* no write, kill, failure or power cut makes garbage of a good file.      *)
NeverPartial == [][conf # Garbage => conf' # Garbage]_conf

(* A setting that was synced survives every later write to other keys and  *)
(* every power cut (the patch, 65-84, 125-134).                            *)
SettingsSurvive ==
  \A d \in durable : \A k \in Key \ since : Setting(d, k) = Setting(synced, k)

(* A writer that waits gets its turn, whoever is killed (34-63, 249-258).  *)
WriterEnds == \A w \in Writer : pc[w] = "lock" ~> pc[w] = "idle"
=============================================================================
