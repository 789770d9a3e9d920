---------------------------- MODULE StoragePool ----------------------------
(***************************************************************************)
(* batocera-storage-manager: the drives a user plugs in are merged with    *)
(* the internal storage into one mergerfs pool over /userdata/roms.  Each  *)
(* command is a process of its own; only refresh_pool takes a lock.        *)
(***************************************************************************)
EXTENDS Naturals, Sequences

CONSTANTS Drive,     \* the drives, each at its own mount point
          Proc,      \* the commands that may run at once
          Dir,       \* the directories of roms, one per system
          Stock,     \* those S12populateshare makes where they are missing
          Game,      \* the files of the user
          Info,      \* the file a stock directory comes with
          OnDrive,   \* what each drive holds at first
          FollowOverlap, \* bound: an overlap is followed further than to a reboot
          None

Entry == Dir \X (Game \cup {Info})

ASSUME StorageAssumption ==
  /\ Stock \subseteq Dir /\ Info \notin Game /\ None \notin Drive
  /\ OnDrive \in [Drive -> SUBSET Entry] /\ FollowOverlap \in BOOLEAN

VARIABLES
  raw,       \* /userdata/roms itself, under any mount
  base,      \* /userdata/.roms_base
  card,      \* the roms directory of each drive
  pool,      \* the mergerfs mounts over /userdata/roms, the topmost first
  config,    \* mergerfs.roms of batocera-boot.conf
  bootfs,    \* how /boot is mounted
  plugged,   \* the drives that are there
  mounted,   \* the drives mounted under /media
  events,    \* udev events to come: <<"add" or "remove", drive>>
  lock,      \* /tmp/mergerfs_refresh.lock exists
  pc,        \* the next step of each command
  cmd,       \* which command each process runs, and for which drive
  snap,      \* the configuration each process has read
  populated, \* S12populateshare has run since the boot
  overlap,   \* history: commands ran at once in this boot that no lock keeps apart
  stuck      \* history: an unmount of the pool was given up in this boot

files   == <<raw, base, card>>
drives  == <<plugged, mounted, events>>
procs   == <<pc, cmd, snap>>
history == <<overlap, stuck>>
vars    == <<files, pool, config, bootfs, drives, lock, procs, populated, history>>

Idle == [name |-> "none", drive |-> None]
Command == [name : {"refresh", "merge", "eject", "none"}, drive : Drive \cup {None}]

(* Types; an event and a command name a drive, a pool only drives.         *)
TypeOK ==
  /\ raw \subseteq Entry /\ base \subseteq Entry
  /\ card \in [Drive -> SUBSET Entry]
  /\ pool \in Seq(SUBSET Drive)
  /\ config \subseteq Drive
  /\ bootfs \in {"ro", "rw"}
  /\ plugged \subseteq Drive /\ mounted \subseteq Drive
  /\ events \subseteq {"add", "remove"} \X Drive
  /\ lock \in BOOLEAN /\ populated \in BOOLEAN
  /\ overlap \in BOOLEAN /\ stuck \in BOOLEAN
  /\ pc \in [Proc -> {"idle", "lock", "get", "set", "umount", "config", "check",
                      "move", "restore", "wipe", "mount", "detach"}]
  /\ cmd \in [Proc -> Command]
  /\ snap \in [Proc -> SUBSET Drive]

DirsOf(es) == {e[1] : e \in es}
Pooled == UNION {pool[i] : i \in DOMAIN pool}

(* The branches of the pool on top that can be reached, the base apart.    *)
Branch == IF pool = <<>> THEN {} ELSE Head(pool) \cap mounted \cap plugged

(* What the user finds in /userdata/roms.                                  *)
Visible == IF pool = <<>> THEN raw ELSE base \cup UNION {card[d] : d \in Branch}

Init ==
  /\ raw = Stock \X {Info} /\ base = {} /\ card = OnDrive
  /\ pool = <<>> /\ config = {} /\ bootfs = "ro"
  /\ plugged = {} /\ mounted = {} /\ events = {}
  /\ lock = FALSE
  /\ pc = [p \in Proc |-> "idle"]
  /\ cmd = [p \in Proc |-> Idle]
  /\ snap = [p \in Proc |-> {}]
  /\ populated = TRUE /\ overlap = FALSE /\ stuck = FALSE

-----------------------------------------------------------------------------
At(p, step) == pc[p] = step
Go(p, step) == pc' = [pc EXCEPT ![p] = step]
Is(p, name) == cmd[p].name = name

Begin(p, name, d, step) ==
  /\ At(p, "idle") /\ Go(p, step)
  /\ cmd' = [cmd EXCEPT ![p] = [name |-> name, drive |-> d]]
  /\ snap' = [snap EXCEPT ![p] = {}]
  /\ overlap' = (overlap \/ \E q \in Proc :
                   ~At(q, "idle") /\ ~(Is(q, "refresh") /\ name = "refresh"))

(* The exit trap of refresh_pool removes the lock, whoever made it.        *)
Exit(p) ==
  /\ Go(p, "idle")
  /\ cmd' = [cmd EXCEPT ![p] = Idle]
  /\ lock' = (lock /\ ~Is(p, "refresh"))

(* detect: the drive is mounted; when the configuration has it and the     *)
(* pool does not, the pool is refreshed.  Otherwise ES asks the user.      *)
Detect(d) ==
  /\ <<"add", d>> \in events /\ d \in plugged
  /\ events' = events \ {<<"add", d>>}
  /\ mounted' = mounted \cup {d}
  /\ IF d \in config \ Pooled
     THEN \E p \in Proc : Begin(p, "refresh", None, "lock")
     ELSE UNCHANGED <<procs, overlap>>
  /\ UNCHANGED <<files, pool, config, bootfs, plugged, lock, populated, stuck>>

(* remove: a drive that was mounted is ejected.                            *)
Remove(d) ==
  /\ <<"remove", d>> \in events
  /\ events' = events \ {<<"remove", d>>}
  /\ IF d \in mounted
     THEN \E p \in Proc : Begin(p, "eject", d, "get")
     ELSE UNCHANGED <<procs, overlap>>
  /\ UNCHANGED <<files, pool, config, bootfs, plugged, mounted, lock, populated, stuck>>

(* The user answers the question of ES, or ejects a drive of the pool.     *)
Merge(p, d) ==
  /\ populated /\ d \in mounted \cap plugged /\ Begin(p, "merge", d, "get")
  /\ UNCHANGED <<files, pool, config, bootfs, drives, lock, populated, stuck>>

Eject(p, d) ==
  /\ populated /\ d \in mounted \cap config /\ Begin(p, "eject", d, "get")
  /\ UNCHANGED <<files, pool, config, bootfs, drives, lock, populated, stuck>>

-----------------------------------------------------------------------------
(* The steps of the commands.                                              *)

Keep == UNCHANGED <<drives, populated>>

(* Mutant: the lock is looked for and not made.                            *)
LockUnmade(p) ==
  /\ At(p, "lock") /\ ~lock /\ Go(p, "config")
  /\ Keep /\ UNCHANGED <<files, pool, config, bootfs, lock, cmd, snap, history>>

Lock(p) ==
  /\ At(p, "lock") /\ ~lock
  /\ lock' = TRUE /\ Go(p, "config")
  /\ Keep /\ UNCHANGED <<files, pool, config, bootfs, cmd, snap, history>>

(* After 60 tries refresh_pool goes on without the lock.                   *)
Forced(p) ==
  /\ At(p, "lock") /\ lock
  /\ Go(p, "config") /\ overlap' = TRUE
  /\ Keep /\ UNCHANGED <<files, pool, config, bootfs, lock, cmd, snap, stuck>>

Get(p) ==
  /\ At(p, "get") /\ Go(p, "set")
  /\ bootfs' = "rw"
  /\ snap' = [snap EXCEPT ![p] = config]
  /\ Keep /\ UNCHANGED <<files, pool, config, lock, cmd, history>>

(* On a /boot that another command has remounted read-only the write       *)
(* fails; its status is not looked at.                                     *)
Set(p) ==
  /\ At(p, "set") /\ Go(p, "umount")
  /\ LET d == {cmd[p].drive}
     IN config' = IF bootfs = "ro" THEN config
                  ELSE IF Is(p, "merge") THEN snap[p] \cup d ELSE snap[p] \ d
  /\ bootfs' = "ro"
  /\ Keep /\ UNCHANGED <<files, pool, lock, cmd, snap, history>>

(* Mutant: merge moves the files before the pool is down.                  *)
UmountLater(p) ==
  /\ At(p, "umount") /\ (pool = <<>> \/ Is(p, "merge"))
  /\ Go(p, IF Is(p, "refresh") THEN "check"
           ELSE IF Is(p, "merge") THEN "move" ELSE "config")
  /\ Keep /\ UNCHANGED <<files, pool, config, bootfs, lock, cmd, snap, history>>

(* Every mount is taken down, the topmost first.                           *)
Umount(p) ==
  /\ At(p, "umount")
  /\ IF pool # <<>> THEN pool' = Tail(pool) /\ UNCHANGED pc
     ELSE /\ Go(p, IF Is(p, "refresh") THEN "check"
                   ELSE IF Is(p, "merge") THEN "move" ELSE "config")
          /\ UNCHANGED pool
  /\ Keep /\ UNCHANGED <<files, config, bootfs, lock, cmd, snap, history>>

(* A pool that does not come down ends the command; an eject goes on to    *)
(* unmount the drive.                                                      *)
GiveUp(p) ==
  /\ At(p, "umount") \/ At(p, "check")
  /\ pool # <<>> /\ stuck' = TRUE
  /\ IF Is(p, "eject") THEN Go(p, "detach") /\ UNCHANGED <<cmd, lock>>
                       ELSE Exit(p)
  /\ Keep /\ UNCHANGED <<files, pool, config, bootfs, snap, overlap>>

Check(p) ==
  /\ At(p, "check") /\ pool = <<>> /\ Go(p, "move")
  /\ Keep /\ UNCHANGED <<files, pool, config, bootfs, lock, cmd, snap, history>>

(* Mutant: the pool is rebuilt from the configuration eject read first.    *)
ReadOnce(p) ==
  /\ At(p, "config")
  /\ snap' = [snap EXCEPT ![p] = IF Is(p, "eject") THEN @ ELSE config]
  /\ IF Is(p, "eject")
     THEN Go(p, IF config = {} THEN "restore" ELSE "mount") /\ UNCHANGED <<cmd, lock>>
     ELSE IF config # {} THEN Go(p, "umount") /\ UNCHANGED <<cmd, lock>>
     ELSE Exit(p)
  /\ Keep /\ UNCHANGED <<files, pool, config, bootfs, history>>

ReadConfig(p) ==
  /\ At(p, "config")
  /\ snap' = [snap EXCEPT ![p] = config]
  /\ IF Is(p, "eject")
     THEN Go(p, IF config = {} THEN "restore" ELSE "mount") /\ UNCHANGED <<cmd, lock>>
     ELSE IF config # {} THEN Go(p, "umount") /\ UNCHANGED <<cmd, lock>>
     ELSE Exit(p)
  /\ Keep /\ UNCHANGED <<files, pool, config, bootfs, history>>

(* mv of each directory to the base: where one of its name is in the base  *)
(* it stays.  Through a pool, mv takes the directories of the drives.      *)
Movable == DirsOf(Visible) \ DirsOf(base)

Move(p) ==
  /\ At(p, "move")
  /\ \/ /\ Movable = {} /\ Go(p, "mount") /\ UNCHANGED files
     \/ \E dir \in Movable :
          LET moved == {e \in Visible : e[1] = dir}
          IN /\ base' = base \cup moved
             /\ raw' = IF pool = <<>> THEN raw \ moved ELSE raw
             /\ card' = [d \in Drive |-> IF d \in Branch THEN card[d] \ moved ELSE card[d]]
             /\ UNCHANGED pc
  /\ Keep /\ UNCHANGED <<pool, config, bootfs, lock, cmd, snap, history>>

(* refresh_pool leaves out the branches that are not there; merge reads    *)
(* the configuration once more.                                            *)
Branches(p) ==
  IF Is(p, "refresh") THEN snap[p] \cap mounted
  ELSE IF Is(p, "merge") THEN config ELSE snap[p]

Mount(p) ==
  /\ At(p, "mount")
  /\ pool' \in {pool, <<Branches(p)>> \o pool}
  /\ IF Is(p, "eject") THEN Go(p, "detach") /\ UNCHANGED <<cmd, lock>>
                       ELSE Exit(p)
  /\ Keep /\ UNCHANGED <<files, config, bootfs, snap, history>>

(* Mutant: the base is deleted whether or not rsync copied all of it.      *)
RestoreUnchecked(p) ==
  /\ At(p, "restore") /\ Go(p, "wipe")
  /\ \E part \in SUBSET base : raw' = IF pool = <<>> THEN raw \cup part ELSE raw
  /\ Keep /\ UNCHANGED <<base, card, pool, config, bootfs, lock, cmd, snap, history>>

(* No drive is left: rsync copies the base back, but for what exists; it   *)
(* may fail after a part of it.                                            *)
Restore(p) ==
  /\ At(p, "restore")
  /\ \/ raw' = (IF pool = <<>> THEN raw \cup base ELSE raw) /\ Go(p, "wipe")
     \/ /\ \E part \in SUBSET base : raw' = IF pool = <<>> THEN raw \cup part ELSE raw
        /\ Go(p, "detach")
  /\ Keep /\ UNCHANGED <<base, card, pool, config, bootfs, lock, cmd, snap, history>>

Wipe(p) ==
  /\ At(p, "wipe")
  /\ IF base = {} THEN Go(p, "detach") /\ UNCHANGED base
                  ELSE (\E e \in base : base' = base \ {e}) /\ UNCHANGED pc
  /\ Keep /\ UNCHANGED <<raw, card, pool, config, bootfs, lock, cmd, snap, history>>

Detach(p) ==
  /\ At(p, "detach")
  /\ mounted' = mounted \ {cmd[p].drive}
  /\ Exit(p)
  /\ UNCHANGED <<files, pool, config, bootfs, plugged, events, snap, populated, history>>

Step(p) ==
  \/ Lock(p) \/ Forced(p) \/ Get(p) \/ Set(p) \/ Umount(p) \/ GiveUp(p)
  \/ Check(p) \/ ReadConfig(p) \/ Move(p) \/ Mount(p) \/ Restore(p) \/ Wipe(p)
  \/ Detach(p)

-----------------------------------------------------------------------------
(* The user, and the boot.                                                 *)

Held(g) == \E e \in raw \cup base \cup UNION {card[d] : d \in Drive} : e[2] = g

(* A new game goes to the directory the user sees; in a pool, to a branch  *)
(* that has the directory, if one has.                                     *)
AddGame(d, g) ==
  /\ populated /\ ~Held(g)
  /\ LET new == {<<d, g>>}
         nowhere == d \notin DirsOf(Visible)
     IN IF pool = <<>> THEN raw' = raw \cup new /\ UNCHANGED <<base, card>>
        ELSE /\ \/ /\ d \in DirsOf(base) \/ nowhere
                   /\ base' = base \cup new /\ UNCHANGED card
                \/ \E b \in Branch :
                     /\ d \in DirsOf(card[b]) \/ nowhere
                     /\ card' = [card EXCEPT ![b] = @ \cup new] /\ UNCHANGED base
             /\ UNCHANGED raw
  /\ UNCHANGED <<pool, config, bootfs, drives, lock, procs, populated, history>>

(* S12populateshare, at boot, makes the stock directories that are missing.*)
Populate ==
  /\ ~populated /\ populated' = TRUE
  /\ LET new == (Stock \ DirsOf(Visible)) \X {Info}
     IN IF pool = <<>> THEN raw' = raw \cup new /\ UNCHANGED base
                       ELSE base' = base \cup new /\ UNCHANGED raw
  /\ UNCHANGED <<card, pool, config, bootfs, drives, lock, procs, history>>

(* A drive comes back at its mount point once that is free.                *)
Plug(d) ==
  /\ d \notin plugged \cup mounted
  /\ plugged' = plugged \cup {d}
  /\ events' = (events \ {<<"remove", d>>}) \cup {<<"add", d>>}
  /\ UNCHANGED <<files, pool, config, bootfs, mounted, lock, procs, populated, history>>

Unplug(d) ==
  /\ d \in plugged
  /\ plugged' = plugged \ {d}
  /\ events' = (events \ {<<"add", d>>}) \cup {<<"remove", d>>}
  /\ UNCHANGED <<files, pool, config, bootfs, mounted, lock, procs, populated, history>>

(* Power-off at any moment; what is plugged in at the next boot is         *)
(* detected then.                                                          *)
Reboot ==
  /\ pool' = <<>> /\ mounted' = {} /\ lock' = FALSE /\ bootfs' = "ro"
  /\ pc' = [p \in Proc |-> "idle"]
  /\ cmd' = [p \in Proc |-> Idle]
  /\ snap' = [p \in Proc |-> {}]
  /\ plugged' \in SUBSET Drive /\ events' = {"add"} \X plugged'
  /\ populated' = FALSE /\ overlap' = FALSE /\ stuck' = FALSE
  /\ UNCHANGED <<files, config>>

Work ==
  \/ \E p \in Proc : Step(p) \/ \E d \in Drive : Merge(p, d) \/ Eject(p, d)
  \/ \E d \in Drive : Detect(d) \/ Remove(d) \/ Plug(d) \/ Unplug(d)
  \/ \E d \in Dir, g \in Game : AddGame(d, g)
  \/ Populate

Next == ((overlap => FollowOverlap) /\ Work) \/ Reboot

Spec == Init /\ [][Next]_vars

-----------------------------------------------------------------------------
(* No file of the user is ever deleted, by a power cut at any step either, *)
(* while commands that no lock keeps apart do not overlap (893-908).       *)
Stays == \A g \in Game : Held(g) => Held(g)'
NothingLost == [][~overlap => Stays]_files

(* "data preserved in .roms_base": the same, whatever overlaps.            *)
NothingEverLost == [][Stays]_files

(* What is on a drive stays on it: files are moved only when the pool is   *)
(* down ("Verify pool is fully settled before touching files", 624-637).   *)
Kept == \A d \in Drive : card[d] \subseteq card'[d]
DrivesUntouched == [][~overlap => Kept]_card

(* One pool at a time ("to prevent stacking", 610), of drives that the     *)
(* configuration has, once no command runs (579-670, 761-926).             *)
Quiet == \A p \in Proc : At(p, "idle")
OnePool ==
  ~overlap => /\ Len(pool) <= 1
              /\ Quiet /\ ~stuck => Pooled \subseteq config

(* refresh_pool excludes itself, timeouts apart (582-595).                 *)
Refreshing(p) == Is(p, "refresh") /\ ~At(p, "lock")
RefreshExcludes ==
  ~overlap => \A p, q \in Proc : Refreshing(p) /\ Refreshing(q) => p = q

(* "So they can be part of the pool instead of being masked by the mount": *)
(* no game of the user stays under a pool (633-637, 813-821).              *)
NothingMasked == pool # <<>> => \A e \in raw : e[2] \notin Game
-----------------------------------------------------------------------------
(* What these rest on.                                                     *)

Course ==
       {<<"none", "idle">>}
  \cup {"refresh"} \X {"lock", "config", "umount", "check", "move", "mount"}
  \cup {"merge"} \X {"get", "set", "umount", "move", "mount"}
  \cup {"eject"} \X {"get", "set", "umount", "config", "restore", "wipe", "mount",
                     "detach"}
InCourse ==
  \A p \in Proc : /\ <<cmd[p].name, pc[p]>> \in Course
                  /\ Is(p, "merge") \/ Is(p, "eject") => cmd[p].drive \in Drive

(* Only refreshes run beside each other, and those are kept apart.         *)
Alone ==
  \A p, q \in Proc :
    p = q \/ At(p, "idle") \/ At(q, "idle") \/ (Is(p, "refresh") /\ Is(q, "refresh"))
LockHeld == \A p \in Proc : Refreshing(p) => lock

(* The pool is down where files are moved, copied back or deleted.         *)
PoolDown ==
  \A p \in Proc :
    pc[p] \in {"move", "mount", "restore", "wipe"} \/ (At(p, "config") /\ Is(p, "eject"))
      => pool = <<>>

(* What a pool is mounted from is still the configuration.                 *)
SnapFresh ==
  \A p \in Proc :
    At(p, "mount") \/ (Is(p, "refresh") /\ pc[p] \in {"umount", "check", "move"})
      => Is(p, "merge") \/ snap[p] = config

(* Only a command that has changed the configuration finds an older pool.  *)
PoolFollows ==
  stuck \/ Pooled \subseteq config \/ \E p \in Proc : At(p, "umount") /\ ~Is(p, "refresh")

(* What is deleted from the base was copied.                               *)
Copied == \A p \in Proc : At(p, "wipe") => base \subseteq raw

(* The inductive invariant: while nothing overlaps a command has the pool  *)
(* for itself from the unmount to the mount (579-670, 761-926).            *)
IInv ==
  /\ TypeOK /\ InCourse /\ OnePool /\ RefreshExcludes
  /\ ~overlap => Alone /\ LockHeld /\ PoolDown /\ SnapFresh /\ PoolFollows /\ Copied
=============================================================================
