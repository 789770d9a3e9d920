----------------------------- MODULE PoolProofs -----------------------------
(***************************************************************************)
(* For any number of drives, commands, directories and games: a command    *)
(* that nothing overlaps has the pool for itself, so that no game is lost  *)
(* and what is on a drive stays there.                                     *)
(***************************************************************************)
EXTENDS StoragePool, SequenceTheorems, TLAPS

(* What holds of the commands while none overlap.                          *)
Exclusive ==
  Alone /\ LockHeld /\ PoolDown /\ SnapFresh /\ PoolFollows /\ Copied

LEMMA InitIInv == Init => IInv
<1> SUFFICES ASSUME Init PROVE IInv
  OBVIOUS
<1>1. TypeOK
  <2>1. raw \subseteq Entry /\ card \in [Drive -> SUBSET Entry]
    BY StorageAssumption DEF Init, StorageAssumption, Entry
  <2>3. Idle \in Command
    BY DEF Idle, Command
  <2>4. pool \in Seq(SUBSET Drive)
    BY DEF Init
  <2> QED
    BY <2>1, <2>3, <2>4 DEF Init, TypeOK
<1>2. InCourse /\ Alone /\ LockHeld /\ RefreshExcludes
  BY DEF Init, InCourse, Course, Idle, Alone, LockHeld, RefreshExcludes, Refreshing, At, Is
<1>3. PoolDown /\ SnapFresh /\ Copied
  BY DEF Init, PoolDown, SnapFresh, Copied, At, Is, Idle
<1>4. Pooled = {}
  BY DEF Init, Pooled
<1>5. OnePool /\ PoolFollows
  BY <1>4 DEF Init, OnePool, PoolFollows
<1> QED
  BY <1>1, <1>2, <1>3, <1>5 DEF IInv

-----------------------------------------------------------------------------
(* Sequences of mounts.                                                    *)

LEMMA EmptyPool == ASSUME pool = <<>> PROVE Pooled = {} /\ Len(pool) = 0 /\ Branch = {}
  BY DEF Pooled, Branch

LEMMA Popped ==
  ASSUME TypeOK, pool # <<>>, pool' = Tail(pool)
  PROVE  /\ pool' \in Seq(SUBSET Drive)
         /\ Len(pool') <= Len(pool)
         /\ Pooled' \subseteq Pooled
<1>1. pool \in Seq(SUBSET Drive)
  BY DEF TypeOK
<1>2. /\ pool' \in Seq(SUBSET Drive) /\ Len(pool') = Len(pool) - 1
      /\ \A i \in DOMAIN pool' : i + 1 \in DOMAIN pool /\ pool'[i] = pool[i + 1]
  BY <1>1, HeadTailProperties
<1>3. Pooled' \subseteq Pooled
  BY <1>2 DEF Pooled
<1> QED
  BY <1>1, <1>2, <1>3

LEMMA Pushed ==
  ASSUME TypeOK, NEW new \in SUBSET Drive, pool' = <<new>> \o pool
  PROVE  /\ pool' \in Seq(SUBSET Drive)
         /\ pool = <<>> => Len(pool') = 1 /\ Pooled' = new
<1>1. pool \in Seq(SUBSET Drive) /\ <<new>> \in Seq(SUBSET Drive)
  BY DEF TypeOK
<1>2. pool' \in Seq(SUBSET Drive)
  BY <1>1
<1>3. ASSUME pool = <<>> PROVE pool' = <<new>>
  BY <1>1, <1>3
<1>4. ASSUME pool = <<>> PROVE Len(pool') = 1 /\ Pooled' = new
  BY <1>3, <1>4 DEF Pooled
<1> QED
  BY <1>2, <1>4

-----------------------------------------------------------------------------
(* Types.                                                                  *)

LEMMA TypeExit ==
  ASSUME TypeOK, NEW p \in Proc, Exit(p)
  PROVE  /\ cmd' \in [Proc -> Command] /\ lock' \in BOOLEAN
         /\ pc' \in [Proc -> {"idle", "lock", "get", "set", "umount", "config", "check",
                              "move", "restore", "wipe", "mount", "detach"}]
<1>1. cmd' \in [Proc -> Command]
  BY DEF TypeOK, Exit, Idle, Command
<1>2. lock' \in BOOLEAN
  BY DEF TypeOK, Exit
<1> QED
  BY <1>1, <1>2 DEF TypeOK, Exit, Go

LEMMA TypeBegin ==
  ASSUME TypeOK, NEW p \in Proc, NEW d \in Drive \cup {None},
         NEW name \in {"refresh", "merge", "eject"}, NEW step \in {"lock", "get"},
         Begin(p, name, d, step)
  PROVE  /\ cmd' \in [Proc -> Command] /\ overlap' \in BOOLEAN
         /\ pc' \in [Proc -> {"idle", "lock", "get", "set", "umount", "config", "check",
                              "move", "restore", "wipe", "mount", "detach"}]
         /\ snap' \in [Proc -> SUBSET Drive]
<1>1. cmd' \in [Proc -> Command]
  BY DEF TypeOK, Begin, Command
<1>2. overlap' \in BOOLEAN
  BY DEF TypeOK, Begin
<1>3. snap' \in [Proc -> SUBSET Drive]
  BY DEF TypeOK, Begin
<1> QED
  BY <1>1, <1>2, <1>3 DEF TypeOK, Begin, Go

LEMMA VisibleTyped == TypeOK => Visible \subseteq Entry
  BY DEF TypeOK, Visible, Branch

LEMMA TypeUser == ASSUME IInv, Work, ~\E p \in Proc : Step(p) PROVE TypeOK'
<1>1. ASSUME NEW p \in Proc, NEW d \in Drive, Merge(p, d) PROVE TypeOK'
  BY <1>1, TypeBegin DEF IInv, TypeOK, Merge, files, drives
<1>2. ASSUME NEW p \in Proc, NEW d \in Drive, Eject(p, d) PROVE TypeOK'
  BY <1>2, TypeBegin DEF IInv, TypeOK, Eject, files, drives
<1>3. ASSUME NEW d \in Drive, Detect(d) PROVE TypeOK'
  BY <1>3, TypeBegin DEF IInv, TypeOK, Detect, files, procs
<1>4. ASSUME NEW d \in Drive, Remove(d) PROVE TypeOK'
  BY <1>4, TypeBegin DEF IInv, TypeOK, Remove, files, procs
<1>5. ASSUME NEW d \in Drive, Plug(d) \/ Unplug(d) PROVE TypeOK'
  BY <1>5 DEF IInv, TypeOK, Plug, Unplug, files, procs, history
<1>6. ASSUME NEW d \in Dir, NEW g \in Game, AddGame(d, g) PROVE TypeOK'
  <2>1. {<<d, g>>} \subseteq Entry
    BY DEF Entry
  <2>2. /\ raw' \subseteq Entry /\ base' \subseteq Entry
        /\ card' \in [Drive -> SUBSET Entry]
    <3>1. CASE pool = <<>>
      BY <1>6, <2>1, <3>1 DEF IInv, TypeOK, AddGame
    <3>2. CASE pool # <<>> /\ UNCHANGED card
      BY <1>6, <2>1, <3>2 DEF IInv, TypeOK, AddGame
    <3>3. CASE pool # <<>> /\ UNCHANGED base
      BY <1>6, <2>1, <3>3 DEF IInv, TypeOK, AddGame
    <3> QED
      BY <1>6, <3>1, <3>2, <3>3 DEF IInv, TypeOK, AddGame
  <2> QED
    BY <1>6, <2>2 DEF IInv, TypeOK, AddGame, drives, procs, history
<1>7. CASE Populate
  <2>1. (Stock \ DirsOf(Visible)) \X {Info} \subseteq Entry
    BY StorageAssumption DEF StorageAssumption, Entry
  <2> QED
    BY <1>7, <2>1 DEF IInv, TypeOK, Populate, drives, procs, history
<1> QED
  BY <1>1, <1>2, <1>3, <1>4, <1>5, <1>6, <1>7 DEF Work

LEMMA TypeStep == ASSUME IInv, NEW p \in Proc, Step(p) PROVE TypeOK'
<1>1. CASE Lock(p)
  BY <1>1 DEF IInv, TypeOK, Keep, drives, Go, Lock, files, history
<1>2. CASE Forced(p)
  BY <1>2 DEF IInv, TypeOK, Keep, drives, Go, Forced, files, history
<1>3. CASE Check(p)
  BY <1>3 DEF IInv, TypeOK, Keep, drives, Go, Check, files, history
<1>4. CASE Get(p)
  BY <1>4 DEF IInv, TypeOK, Keep, drives, Go, Get, files, history
<1>5. CASE Set(p)
  <2>1. config' \subseteq Drive
    BY <1>5 DEF IInv, TypeOK, Set, Is, Command, InCourse, Course, At
  <2> QED
    BY <1>5, <2>1 DEF IInv, TypeOK, Keep, drives, Go, Set, files, history
<1>6. CASE Umount(p)
  BY <1>6, Popped DEF IInv, TypeOK, Keep, drives, Go, Umount, files, history
<1>7. CASE GiveUp(p)
  BY <1>7, TypeExit DEF IInv, TypeOK, Keep, drives, Go, GiveUp, files
<1>8. CASE ReadConfig(p)
  BY <1>8, TypeExit DEF IInv, TypeOK, Keep, drives, Go, ReadConfig, files, history
<1>9. CASE Move(p)
  BY <1>9, VisibleTyped DEF IInv, TypeOK, Keep, drives, Go, Move, files, history
<1>10. CASE Mount(p)
  <2>1. Branches(p) \in SUBSET Drive
    BY DEF IInv, TypeOK, Branches
  <2> QED
    BY <1>10, <2>1, Pushed, TypeExit DEF IInv, TypeOK, Keep, drives, Go, Mount, files, history
<1>11. CASE Restore(p) \/ Wipe(p)
  BY <1>11 DEF IInv, TypeOK, Keep, drives, Go, Restore, Wipe, history
<1>12. CASE Detach(p)
  BY <1>12, TypeExit DEF IInv, TypeOK, Keep, drives, Go, Detach, files, history
<1> QED
  BY <1>1, <1>2, <1>3, <1>4, <1>5, <1>6, <1>7, <1>8, <1>9, <1>10, <1>11, <1>12
  DEF Step

LEMMA TypeReboot == ASSUME IInv, Reboot PROVE TypeOK'
<1>1. Idle \in Command
  BY DEF Idle, Command
<1>2. pool' \in Seq(SUBSET Drive)
  BY DEF Reboot
<1> QED
  BY <1>1, <1>2 DEF IInv, TypeOK, Reboot, files

-----------------------------------------------------------------------------
(* The user and the boot leave the commands what they rely on.             *)

Core ==
  InCourse /\ OnePool /\ RefreshExcludes /\ (~overlap => Exclusive)

LEMMA CoreOfIInv == IInv <=> TypeOK /\ Core
  BY DEF IInv, Core, Exclusive

LEMMA CoreFrame ==
  ASSUME Core, UNCHANGED <<pool, config, lock, procs, history>>,
         pool = <<>> => base' = base /\ raw \subseteq raw'
  PROVE  Core'
<1>1. InCourse' /\ RefreshExcludes' /\ (~overlap => Alone' /\ LockHeld' /\ PoolDown' /\ SnapFresh')
  BY DEF Core, Exclusive, InCourse, RefreshExcludes, Refreshing, Alone, LockHeld, PoolDown,
         SnapFresh, At, Is, procs, history
<1>2. Pooled' = Pooled
  BY DEF Pooled
<1>3. OnePool' /\ (~overlap => PoolFollows')
  BY <1>2 DEF Core, Exclusive, OnePool, PoolFollows, Quiet, At, Is, procs, history
<1>4. ASSUME ~overlap PROVE Copied'
  BY <1>4 DEF Core, Exclusive, PoolDown, Copied, At, procs
<1> QED
  BY <1>1, <1>3, <1>4 DEF Core, Exclusive, history

LEMMA CoreBegin ==
  ASSUME TypeOK, Core, NEW p \in Proc, NEW d \in Drive \cup {None},
         NEW name \in {"refresh", "merge", "eject"}, NEW step \in {"lock", "get"},
         name = "refresh" <=> step = "lock",
         name # "refresh" => d \in Drive,
         Begin(p, name, d, step), UNCHANGED <<files, pool, config, lock, stuck>>
  PROVE  Core'
<1>1. /\ pc' = [pc EXCEPT ![p] = step] /\ pc[p] = "idle"
      /\ cmd' = [cmd EXCEPT ![p] = [name |-> name, drive |-> d]]
      /\ snap' = [snap EXCEPT ![p] = {}]
      /\ ~overlap' => ~overlap
      /\ ~overlap' => \A q \in Proc : pc[q] = "idle" \/ (Is(q, "refresh") /\ name = "refresh")
  BY DEF Begin, At, Go
<1>2. DOMAIN pc = Proc /\ DOMAIN cmd = Proc /\ DOMAIN snap = Proc
  BY DEF TypeOK
<1>3. InCourse'
  BY <1>1, <1>2 DEF Core, InCourse, Course, Is
<1>4. ~overlap' => Alone' /\ LockHeld' /\ RefreshExcludes'
  BY <1>1, <1>2 DEF Core, Exclusive, Alone, LockHeld, RefreshExcludes, Refreshing, At, Is
<1>5. ~overlap' => PoolDown' /\ SnapFresh' /\ Copied'
  BY <1>1, <1>2 DEF Core, Exclusive, PoolDown, SnapFresh, Copied, At, Is, files
<1>6. Pooled' = Pooled
  BY DEF Pooled
<1>7. ~overlap' => OnePool' /\ PoolFollows'
  BY <1>1, <1>2, <1>6 DEF Core, Exclusive, OnePool, PoolFollows, Quiet, At, Is
<1> QED
  BY <1>3, <1>4, <1>5, <1>7 DEF Core, Exclusive, OnePool, RefreshExcludes

LEMMA CoreUser == ASSUME IInv, Work, ~\E p \in Proc : Step(p) PROVE Core'
<1> TypeOK /\ Core
  BY CoreOfIInv
<1>1. ASSUME NEW p \in Proc, NEW d \in Drive, Merge(p, d) \/ Eject(p, d) PROVE Core'
  BY <1>1, CoreBegin DEF Merge, Eject
<1>2. ASSUME NEW d \in Drive, Detect(d) PROVE Core'
  <2>1. CASE d \in config \ Pooled
    BY <1>2, <2>1, CoreBegin DEF Detect
  <2>2. CASE d \notin config \ Pooled
    BY <1>2, <2>2, CoreFrame DEF Detect, files, history
  <2> QED
    BY <2>1, <2>2
<1>3. ASSUME NEW d \in Drive, Remove(d) PROVE Core'
  <2>1. CASE d \in mounted
    BY <1>3, <2>1, CoreBegin DEF Remove
  <2>2. CASE d \notin mounted
    BY <1>3, <2>2, CoreFrame DEF Remove, files, history
  <2> QED
    BY <2>1, <2>2
<1>4. ASSUME NEW d \in Drive, Plug(d) \/ Unplug(d) PROVE Core'
  BY <1>4, CoreFrame DEF Plug, Unplug, files
<1>5. ASSUME NEW d \in Dir, NEW g \in Game, AddGame(d, g) PROVE Core'
  BY <1>5, CoreFrame DEF AddGame
<1>6. CASE Populate
  BY <1>6, CoreFrame DEF Populate
<1> QED
  BY <1>1, <1>2, <1>3, <1>4, <1>5, <1>6 DEF Work

LEMMA CoreReboot == ASSUME Reboot PROVE Core'
<1>1. /\ pc' = [p \in Proc |-> "idle"] /\ cmd' = [p \in Proc |-> Idle]
      /\ pool' = <<>>
  BY DEF Reboot
<1>2. Pooled' = {} /\ Len(pool') = 0
  BY <1>1 DEF Pooled
<1>3. InCourse' /\ RefreshExcludes' /\ Alone' /\ LockHeld'
  BY <1>1 DEF InCourse, Course, Idle, RefreshExcludes, Refreshing, Alone, LockHeld, At, Is
<1>4. PoolDown' /\ SnapFresh' /\ Copied'
  BY <1>1 DEF PoolDown, SnapFresh, Copied, Idle, At, Is
<1> QED
  BY <1>2, <1>3, <1>4 DEF Core, Exclusive, OnePool, PoolFollows

-----------------------------------------------------------------------------
(* A step of a command.                                                    *)

LEMMA CourseGo ==
  ASSUME TypeOK, InCourse, NEW p \in Proc, NEW step,
         Go(p, step), <<cmd[p].name, step>> \in Course, UNCHANGED cmd
  PROVE  InCourse'
  BY DEF TypeOK, InCourse, Go, Is

LEMMA CourseExit ==
  ASSUME TypeOK, InCourse, NEW p \in Proc, Exit(p) PROVE InCourse'
  BY DEF TypeOK, InCourse, Course, Exit, Go, Is, Idle

LEMMA CourseStep == ASSUME IInv, NEW p \in Proc, Step(p) PROVE InCourse'
<1> TypeOK /\ InCourse
  BY DEF IInv
<1>1. <<cmd[p].name, pc[p]>> \in Course
  BY DEF InCourse
<1>2. CASE Lock(p) \/ Forced(p)
  BY <1>1, <1>2, CourseGo DEF Course, Lock, Forced, At
<1>3. CASE Get(p) \/ Set(p)
  BY <1>1, <1>3, CourseGo DEF Course, Get, Set, At
<1>4. CASE Umount(p)
  <2>1. CASE pool # <<>>
    BY <1>4, <2>1 DEF Umount, InCourse, Is
  <2>2. CASE pool = <<>>
    <3>1. <<cmd[p].name, IF Is(p, "refresh") THEN "check"
             ELSE IF Is(p, "merge") THEN "move" ELSE "config">> \in Course
      BY <1>1, <1>4 DEF Course, Umount, At, Is
    <3> QED
      BY <1>4, <2>2, <3>1, CourseGo DEF Umount
  <2> QED
    BY <2>1, <2>2
<1>5. CASE GiveUp(p)
  <2>1. CASE Is(p, "eject")
    <3>1. <<cmd[p].name, "detach">> \in Course
      BY <2>1 DEF Course, Is
    <3> QED
      BY <1>5, <2>1, <3>1, CourseGo DEF GiveUp
  <2> QED
    BY <1>5, <2>1, CourseExit DEF GiveUp
<1>6. CASE Check(p)
  BY <1>1, <1>6, CourseGo DEF Course, Check, At
<1>7. CASE ReadConfig(p)
  <2>1. CASE Is(p, "eject")
    <3>1. \A step \in {"restore", "mount"} : <<cmd[p].name, step>> \in Course
      BY <2>1 DEF Course, Is
    <3>2. PICK step \in {"restore", "mount"} : Go(p, step) /\ UNCHANGED cmd
      BY <1>7, <2>1 DEF ReadConfig
    <3> QED
      BY <3>1, <3>2, CourseGo
  <2>2. CASE ~Is(p, "eject") /\ config # {}
    <3>1. <<cmd[p].name, "umount">> \in Course
      BY <1>1, <1>7 DEF Course, ReadConfig, At
    <3> QED
      BY <1>7, <2>2, <3>1, CourseGo DEF ReadConfig
  <2>3. CASE ~Is(p, "eject") /\ config = {}
    BY <1>7, <2>3, CourseExit DEF ReadConfig
  <2> QED
    BY <2>1, <2>2, <2>3
<1>8. CASE Move(p)
  <2>1. <<cmd[p].name, "mount">> \in Course
    BY <1>1, <1>8 DEF Course, Move, At
  <2>2. UNCHANGED <<pc, cmd>> => InCourse'
    BY DEF InCourse, Is
  <2> QED
    BY <1>8, <2>1, <2>2, CourseGo DEF Move
<1>9. CASE Mount(p)
  <2>1. CASE Is(p, "eject")
    <3>1. <<cmd[p].name, "detach">> \in Course
      BY <2>1 DEF Course, Is
    <3> QED
      BY <1>9, <2>1, <3>1, CourseGo DEF Mount
  <2> QED
    BY <1>9, <2>1, CourseExit DEF Mount
<1>10. CASE Restore(p) \/ Wipe(p)
  <2>1. \A step \in {"wipe", "detach"} : <<cmd[p].name, step>> \in Course
    BY <1>1, <1>10 DEF Course, Restore, Wipe, At
  <2>2. UNCHANGED <<pc, cmd>> => InCourse'
    BY DEF InCourse, Is
  <2> QED
    BY <1>10, <2>1, <2>2, CourseGo DEF Restore, Wipe
<1>11. CASE Detach(p)
  BY <1>11, CourseExit DEF Detach
<1> QED
  BY <1>2, <1>3, <1>4, <1>5, <1>6, <1>7, <1>8, <1>9, <1>10, <1>11 DEF Step

LEMMA ExcludeGo ==
  ASSUME TypeOK, InCourse, Alone, LockHeld, RefreshExcludes, ~overlap, NEW p \in Proc,
         NEW step, Go(p, step), step # "lock", ~At(p, "lock"), ~At(p, "idle"), UNCHANGED <<cmd, lock>>
  PROVE  Alone' /\ LockHeld' /\ RefreshExcludes'
  BY DEF TypeOK, Alone, LockHeld, RefreshExcludes, Refreshing, At, Is, Go

LEMMA ExcludeExit ==
  ASSUME TypeOK, InCourse, Alone, LockHeld, RefreshExcludes, ~overlap, NEW p \in Proc,
         Exit(p), ~At(p, "lock"), ~At(p, "idle")
  PROVE  Alone' /\ LockHeld' /\ RefreshExcludes'
<1>1. /\ pc' = [pc EXCEPT ![p] = "idle"] /\ cmd' = [cmd EXCEPT ![p] = Idle]
      /\ DOMAIN pc = Proc /\ DOMAIN cmd = Proc
  BY DEF TypeOK, Exit, Go
<1>2. ASSUME NEW q \in Proc, q # p, Refreshing(q) PROVE lock'
  <2>1. lock
    BY <1>2 DEF LockHeld
  <2>2. ~Is(p, "refresh")
    BY <1>2 DEF RefreshExcludes, Refreshing
  <2> QED
    BY <2>1, <2>2 DEF Exit
<1>3. LockHeld'
  BY <1>1, <1>2 DEF LockHeld, Refreshing, At, Is, Idle
<1> QED
  BY <1>1, <1>3 DEF Alone, RefreshExcludes, Refreshing, At, Is, Idle

Later == {"set", "umount", "config", "check", "move", "restore", "wipe", "mount", "detach"}

LEMMA Outcome ==
  ASSUME NEW p \in Proc, Step(p), ~Lock(p), ~Forced(p)
  PROVE  /\ ~At(p, "lock") /\ ~At(p, "idle")
         /\ \/ Exit(p)
            \/ UNCHANGED <<pc, cmd, lock>>
            \/ \E step \in Later : Go(p, step) /\ UNCHANGED <<cmd, lock>>
<1>1. CASE Get(p)
  BY <1>1 DEF Get, At, Later
<1>2. CASE Set(p)
  BY <1>2 DEF Set, At, Later
<1>3. CASE Umount(p)
  BY <1>3 DEF Umount, At, Later
<1>4. CASE GiveUp(p)
  BY <1>4 DEF GiveUp, At, Later
<1>5. CASE Check(p)
  BY <1>5 DEF Check, At, Later
<1>6. CASE ReadConfig(p)
  BY <1>6 DEF ReadConfig, At, Later
<1>7. CASE Move(p)
  BY <1>7 DEF Move, At, Later
<1>8. CASE Mount(p)
  BY <1>8 DEF Mount, At, Later
<1>9. CASE Restore(p)
  BY <1>9 DEF Restore, At, Later
<1>10. CASE Wipe(p)
  BY <1>10 DEF Wipe, At, Later
<1>11. CASE Detach(p)
  BY <1>11 DEF Detach, At, Later
<1> QED
  BY <1>1, <1>2, <1>3, <1>4, <1>5, <1>6, <1>7, <1>8, <1>9, <1>10, <1>11
  DEF Step

LEMMA ExcludeStep ==
  ASSUME IInv, NEW p \in Proc, Step(p), ~overlap'
  PROVE  ~overlap /\ Alone' /\ LockHeld' /\ RefreshExcludes'
<1>1. TypeOK /\ InCourse /\ RefreshExcludes
  BY DEF IInv
<1>2. ~overlap
  BY DEF Step, Lock, Forced, Get, Set, Umount, GiveUp, Check, ReadConfig, Move, Mount,
         Restore, Wipe, Detach, history
<1>3. Alone /\ LockHeld
  BY <1>2 DEF IInv
<1>4. CASE Lock(p)
  <2>1. /\ pc' = [pc EXCEPT ![p] = "config"] /\ DOMAIN pc = Proc /\ UNCHANGED cmd
        /\ pc[p] = "lock" /\ ~lock /\ lock'
    BY <1>1, <1>4 DEF TypeOK, Lock, At, Go
  <2>2. \A q \in Proc : ~Refreshing(q)
    BY <1>3, <2>1 DEF LockHeld
  <2> QED
    BY <1>2, <1>3, <2>1, <2>2 DEF Alone, LockHeld, RefreshExcludes, Refreshing, At, Is
<1>5. CASE Forced(p)
  BY <1>5 DEF Forced
<1>6. CASE ~Lock(p) /\ ~Forced(p)
  <2>1. ASSUME UNCHANGED <<pc, cmd, lock>> PROVE Alone' /\ LockHeld' /\ RefreshExcludes'
    BY <1>1, <1>2, <1>3, <2>1
    DEF Alone, LockHeld, RefreshExcludes, Refreshing, At, Is
  <2>2. ASSUME NEW step \in Later, Go(p, step), UNCHANGED <<cmd, lock>>
        PROVE  Alone' /\ LockHeld' /\ RefreshExcludes'
    BY <1>1, <1>2, <1>3, <1>6, <2>2, Outcome, ExcludeGo DEF Later
  <2> QED
    BY <1>1, <1>2, <1>3, <1>6, <2>1, <2>2, Outcome, ExcludeExit
<1> QED
  BY <1>2, <1>4, <1>5, <1>6

-----------------------------------------------------------------------------
(* A command that is past the lock finds the others idle or waiting, so    *)
(* what it has checked and read holds until it has mounted.                *)

Own(p) ==
  /\ pc[p] \in {"move", "mount", "restore", "wipe"} \/ (pc[p] = "config" /\ Is(p, "eject"))
       => pool = <<>>
  /\ pc[p] = "mount" \/ (Is(p, "refresh") /\ pc[p] \in {"umount", "check", "move"})
       => Is(p, "merge") \/ snap[p] = config
  /\ pc[p] = "wipe" => base \subseteq raw

LEMMA OwnAll == PoolDown /\ SnapFresh /\ Copied <=> \A p \in Proc : Own(p)
  BY DEF PoolDown, SnapFresh, Copied, Own, At

LEMMA OthersWait ==
  ASSUME IInv, ~overlap, NEW p \in Proc, NEW q \in Proc, p # q,
         ~At(p, "lock"), ~At(p, "idle")
  PROVE  pc[q] \in {"idle", "lock"}
<1>1. Alone /\ RefreshExcludes
  BY DEF IInv
<1> QED
  BY <1>1 DEF Alone, RefreshExcludes, Refreshing, At

LEMMA OtherOwn ==
  ASSUME IInv, ~overlap, NEW p \in Proc, NEW q \in Proc, p # q, Step(p),
         ~Lock(p), ~Forced(p)
  PROVE  Own(q)' /\ pc'[q] = pc[q]
<1>1. pc[q] \in {"idle", "lock"}
  BY Outcome, OthersWait
<1>2. pc'[q] = pc[q]
  BY Outcome DEF Exit, Go, IInv, TypeOK
<1> QED
  BY <1>1, <1>2 DEF Own

LEMMA OwnStep ==
  ASSUME IInv, ~overlap, NEW p \in Proc, Step(p), ~Lock(p), ~Forced(p)
  PROVE  Own(p)'
<1>1. Own(p) /\ p \in DOMAIN pc /\ p \in DOMAIN snap /\ p \in DOMAIN cmd
  BY OwnAll DEF IInv, TypeOK
<1>2. <<cmd[p].name, pc[p]>> \in Course
  BY DEF IInv, InCourse
<1>3. CASE Get(p)
  BY <1>1, <1>2, <1>3 DEF Own, Get, Course, Exit, Go, At, Is, Idle, Keep
<1>4. CASE Set(p)
  BY <1>1, <1>2, <1>4 DEF Own, Set, Course, Exit, Go, At, Is, Idle, Keep
<1>5. CASE Umount(p)
  BY <1>1, <1>2, <1>5 DEF Own, Umount, Course, Exit, Go, At, Is, Idle, Keep
<1>6. CASE GiveUp(p)
  BY <1>1, <1>2, <1>6 DEF Own, GiveUp, Course, Exit, Go, At, Is, Idle, Keep
<1>7. CASE Check(p)
  BY <1>1, <1>2, <1>7 DEF Own, Check, Course, Exit, Go, At, Is, Idle, Keep
<1>8. CASE ReadConfig(p)
  BY <1>1, <1>2, <1>8 DEF Own, ReadConfig, Course, Exit, Go, At, Is, Idle, Keep
<1>9. CASE Move(p)
  BY <1>1, <1>2, <1>9 DEF Own, Move, Course, Exit, Go, At, Is, Idle, Keep
<1>10. CASE Mount(p)
  BY <1>1, <1>2, <1>10 DEF Own, Mount, Course, Exit, Go, At, Is, Idle, Keep
<1>11. CASE Restore(p)
  BY <1>1, <1>2, <1>11 DEF Own, Restore, Course, Exit, Go, At, Is, Idle, Keep
<1>12. CASE Wipe(p)
  BY <1>1, <1>2, <1>12 DEF Own, Wipe, Course, Exit, Go, At, Is, Idle, Keep
<1>13. CASE Detach(p)
  BY <1>1, <1>2, <1>13 DEF Own, Detach, Course, Exit, Go, At, Is, Idle, Keep
<1> QED
  BY <1>3, <1>4, <1>5, <1>6, <1>7, <1>8, <1>9, <1>10, <1>11, <1>12, <1>13
  DEF Step

-----------------------------------------------------------------------------
(* The pool: one mount, of what the configuration has.                     *)

LEMMA FollowsFrame ==
  ASSUME TypeOK, PoolFollows, NEW p \in Proc, ~At(p, "umount"), UNCHANGED <<pool, config, stuck>>,
         Exit(p) \/ UNCHANGED <<pc, cmd>> \/ \E step : Go(p, step) /\ UNCHANGED cmd
  PROVE  PoolFollows'
<1>1. Pooled' = Pooled
  BY DEF Pooled
<1>2. \A q \in Proc : At(q, "umount") /\ ~Is(q, "refresh")
                       => (At(q, "umount") /\ ~Is(q, "refresh"))'
  BY DEF TypeOK, Exit, Go, At, Is
<1> QED
  BY <1>1, <1>2 DEF PoolFollows

LEMMA PoolStep ==
  ASSUME IInv, ~overlap, NEW p \in Proc, Step(p), ~Forced(p)
  PROVE  Len(pool') <= 1 /\ PoolFollows'
<1>1. TypeOK /\ PoolFollows /\ Own(p) /\ Len(pool) <= 1
  BY OwnAll DEF IInv, OnePool
<1>2. <<cmd[p].name, pc[p]>> \in Course
  BY DEF IInv, InCourse
<1>3. CASE Lock(p) \/ Get(p)
  BY <1>1, <1>3, FollowsFrame DEF Lock, Get, At, history
<1>4. CASE Set(p)
  <2>1. pc'[p] = "umount" /\ cmd'[p].name # "refresh" /\ pool' = pool
    BY <1>1, <1>2, <1>4 DEF TypeOK, Set, Course, At, Go
  <2> QED
    BY <1>1, <2>1 DEF PoolFollows, At, Is
<1>5. CASE Umount(p) /\ pool # <<>>
  <2>1. Pooled' \subseteq Pooled /\ Len(pool') <= Len(pool) /\ pool' \in Seq(SUBSET Drive)
    BY <1>1, <1>5, Popped DEF Umount
  <2>2. UNCHANGED <<pc, cmd, config, stuck>>
    BY <1>5 DEF Umount, history
  <2>3. PoolFollows'
    BY <1>1, <2>1, <2>2 DEF PoolFollows, At, Is
  <2>4. Len(pool') <= 1
    BY <1>1, <2>1, LenProperties DEF TypeOK
  <2> QED
    BY <2>3, <2>4
<1>6. CASE pool = <<>> /\ UNCHANGED pool
  <2>1. Pooled' = {} /\ Len(pool') = 0
    BY <1>6 DEF Pooled
  <2> QED
    BY <2>1 DEF PoolFollows
<1>7. CASE GiveUp(p)
  BY <1>1, <1>7 DEF GiveUp, PoolFollows
<1>8. CASE Check(p) \/ Move(p)
  BY <1>6, <1>1, <1>8 DEF Check, Move, Own, At
<1>9. CASE ReadConfig(p)
  BY <1>1, <1>9, FollowsFrame DEF ReadConfig, At, history
<1>10. CASE Mount(p) /\ pool' # pool
  <2>1. pool = <<>> /\ pool' = <<Branches(p)>> \o pool
    BY <1>1, <1>10 DEF Mount, Own, At
  <2>2. Branches(p) \in SUBSET Drive /\ Branches(p) \subseteq config
    BY <1>1, <1>10 DEF TypeOK, Mount, Own, Branches, At, Is
  <2>3. Len(pool') = 1 /\ Pooled' = Branches(p)
    BY <1>1, <2>1, <2>2, Pushed
  <2> QED
    BY <1>10, <2>2, <2>3 DEF Mount, PoolFollows
<1>11. CASE Mount(p) /\ pool' = pool
  BY <1>1, <1>6, <1>11 DEF Mount, Own, At
<1>12. CASE Restore(p) \/ Wipe(p)
  BY <1>1, <1>12, FollowsFrame DEF Restore, Wipe, At, history
<1>13. CASE Detach(p)
  BY <1>1, <1>13, FollowsFrame DEF Detach, At, history
<1>14. CASE Umount(p) /\ pool = <<>>
  BY <1>6, <1>14 DEF Umount
<1> QED
  BY <1>3, <1>4, <1>5, <1>7, <1>8, <1>9, <1>10, <1>11, <1>12, <1>13, <1>14 DEF Step

LEMMA CoreStep == ASSUME IInv, NEW p \in Proc, Step(p) PROVE Core'
<1>1. InCourse'
  BY CourseStep
<1>2. CASE overlap'
  BY <1>1, <1>2 DEF Core, OnePool, RefreshExcludes
<1>3. CASE ~overlap'
  <2>1. ~overlap /\ ~Forced(p) /\ Alone' /\ LockHeld' /\ RefreshExcludes'
    BY <1>3, ExcludeStep DEF Forced
  <2>2. PoolDown' /\ SnapFresh' /\ Copied'
    <3>1. CASE Lock(p)
      <4>1. <<cmd[p].name, pc[p]>> \in Course
        BY DEF IInv, InCourse
      <4>2. \A q \in Proc : Own(q)
        BY <2>1, OwnAll DEF IInv
      <4> QED
        BY <3>1, <4>1, <4>2 DEF IInv, TypeOK, Lock, Go, Course, Own, At, Is, files,
           PoolDown, SnapFresh, Copied
    <3>2. CASE ~Lock(p)
      <4>1. \A q \in Proc : Own(q)'
        BY <2>1, <3>2, OwnStep, OtherOwn
      <4> QED
        BY <4>1 DEF PoolDown, SnapFresh, Copied, Own, At
    <3> QED
      BY <3>1, <3>2
  <2>3. Len(pool') <= 1 /\ PoolFollows'
    BY <2>1, PoolStep
  <2>4. OnePool'
    BY <2>3 DEF OnePool, PoolFollows, Quiet, At
  <2> QED
    BY <1>1, <2>1, <2>2, <2>3, <2>4 DEF Core, Exclusive
<1> QED
  BY <1>2, <1>3

LEMMA NextStep == ASSUME IInv, [Next]_vars PROVE IInv'
<1>1. ASSUME NEW p \in Proc, Step(p) PROVE IInv'
  BY <1>1, TypeStep, CoreStep DEF IInv, Core, Exclusive
<1>2. CASE Work /\ ~\E p \in Proc : Step(p)
  BY <1>2, TypeUser, CoreUser DEF IInv, Core, Exclusive
<1>3. CASE Reboot
  BY <1>3, TypeReboot, CoreReboot DEF IInv, Core, Exclusive
<1>4. CASE UNCHANGED vars
  <2>1. TypeOK'
    BY <1>4 DEF IInv, TypeOK, vars, files, drives, procs, history
  <2>2. Core'
    BY <1>4, CoreOfIInv, CoreFrame DEF vars, files, procs, history
  <2> QED
    BY <2>1, <2>2 DEF IInv, Core, Exclusive
<1> QED
  BY <1>1, <1>2, <1>3, <1>4 DEF Next

(* The inductive invariant holds in every reachable state: one pool, of    *)
(* what the configuration has, and refreshes exclude each other, while     *)
(* commands that no lock keeps apart do not overlap (StoragePool.IInv).    *)
THEOREM Invariance == Spec => []IInv
  BY InitIInv, NextStep, PTL DEF Spec

(* One pool at a time, of configured drives (StoragePool.OnePool), for any *)
(* number of drives and commands.                                          *)
THEOREM Single == Spec => []OnePool
<1>1. IInv => OnePool
  BY DEF IInv
<1> QED
  BY Invariance, <1>1, PTL

(* refresh_pool excludes itself (StoragePool.RefreshExcludes).             *)
THEOREM Exclusion == Spec => []RefreshExcludes
<1>1. IInv => RefreshExcludes
  BY DEF IInv
<1> QED
  BY Invariance, <1>1, PTL

-----------------------------------------------------------------------------
(* What the users and the drives keep.                                     *)

(* What stays on the drives, and with whom a game stays, in a step that    *)
(* nothing overlaps.                                                       *)
LEMMA KeepStep ==
  ASSUME IInv, ~overlap, [Next]_vars
  PROVE  Kept /\ \A g \in Game : Held(g) => Held(g)'
<1> DEFINE Whole == raw \cup base \cup UNION {card[d] : d \in Drive}
<1>1. (Kept /\ Whole \subseteq Whole') => Kept /\ \A g \in Game : Held(g) => Held(g)'
  BY DEF Held
<1>2. CASE UNCHANGED files
  BY <1>1, <1>2 DEF Kept, files
<1>3. TypeOK
  BY DEF IInv
<1>4. ASSUME NEW p \in Proc, Move(p), ~UNCHANGED files PROVE Kept /\ Whole \subseteq Whole'
  <2>1. pool = <<>>
    BY <1>4, OwnAll DEF IInv, Own, Move, At
  <2>2. PICK dir \in Movable : LET moved == {e \in raw : e[1] = dir}
                               IN base' = base \cup moved /\ raw' = raw \ moved
    BY <1>4, <2>1 DEF Move, Visible
  <2>3. card' = card
    BY <1>3, <1>4, <2>1 DEF TypeOK, Move, Branch
  <2> QED
    BY <2>2, <2>3 DEF Kept
<1>5. ASSUME NEW p \in Proc, Restore(p) PROVE Kept /\ Whole \subseteq Whole'
  BY <1>5 DEF Restore, Kept
<1>6. ASSUME NEW p \in Proc, Wipe(p) PROVE Kept /\ Whole \subseteq Whole'
  <2>1. base \subseteq raw
    BY <1>6, OwnAll DEF IInv, Own, Wipe, At
  <2>2. UNCHANGED <<raw, card>>
    BY <1>6 DEF Wipe
  <2> QED
    BY <2>1, <2>2 DEF Kept
<1>7. ASSUME NEW d \in Dir, NEW g \in Game, AddGame(d, g) PROVE Kept /\ Whole \subseteq Whole'
  <2>1. raw \subseteq raw' /\ base \subseteq base'
    BY <1>7 DEF AddGame
  <2>2. \A b \in Drive : card[b] \subseteq card'[b]
    BY <1>3, <1>7 DEF TypeOK, AddGame
  <2> QED
    BY <2>1, <2>2 DEF Kept
<1>8. ASSUME Populate PROVE Kept /\ Whole \subseteq Whole'
  BY <1>8 DEF Populate, Kept
<1>9. ASSUME NEW p \in Proc, Step(p) PROVE UNCHANGED files \/ Move(p) \/ Restore(p) \/ Wipe(p)
  BY <1>9 DEF Step, Lock, Forced, Get, Set, Umount, GiveUp, Check, ReadConfig, Mount, Detach, files
<1>10. ASSUME Work, ~\E p \in Proc : Step(p)
       PROVE  UNCHANGED files \/ Populate \/ \E d \in Dir, g \in Game : AddGame(d, g)
  BY <1>10 DEF Work, Merge, Eject, Detect, Remove, Plug, Unplug
<1>11. Reboot \/ UNCHANGED vars => UNCHANGED files
  BY DEF Reboot, vars
<1> QED
  BY <1>1, <1>2, <1>4, <1>5, <1>6, <1>7, <1>8, <1>9, <1>10, <1>11 DEF Next

(* No game of the user is ever deleted, at whatever step the power fails   *)
(* (StoragePool.NothingLost), for any number of drives and directories.    *)
THEOREM Preservation == Spec => NothingLost
<1>1. IInv /\ [Next]_vars => [~overlap => Stays]_files
  BY KeepStep DEF Stays
<1> QED
  BY Invariance, <1>1, PTL DEF Spec, NothingLost

(* What is on a drive stays on it (StoragePool.DrivesUntouched).           *)
THEOREM Untouched == Spec => DrivesUntouched
<1>1. IInv /\ [Next]_vars => [~overlap => Kept]_card
  BY KeepStep
<1> QED
  BY Invariance, <1>1, PTL DEF Spec, DrivesUntouched
=============================================================================
