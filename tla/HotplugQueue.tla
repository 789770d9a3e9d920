---------------------------- MODULE HotplugQueue ----------------------------
(***************************************************************************)
(* Disks that come and go while the system boots: batocera-storage-udev    *)
(* leaves a file for each drive of a disk until S11share has listed those  *)
(* files, detected the drives and set the ready flag; from then on it      *)
(* starts batocera-storage-manager itself, in the background.  A drive is  *)
(* what is mounted: a partition, or a disk without any.                    *)
(***************************************************************************)
EXTENDS Naturals, Sequences, FiniteSets

CONSTANTS Disk, Drive,
          Parent,    \* the disk of each drive; a disk without partitions is its own
          MaxPlugs,  \* bound: how often each disk is plugged in
          MaxDisks   \* bound: how many disks are plugged in at all

ASSUME HotplugAssumption ==
  /\ Parent \in [Drive -> Disk] /\ \A d \in Drive \cap Disk : Parent[d] = d
  /\ MaxPlugs \in [Disk -> Nat] /\ MaxDisks \in Nat

VARIABLES
  plug,      \* how often each disk has been plugged in
  there,     \* the disks that are there
  uevents,   \* the events of each drive that udevd has still to handle
  leaving,   \* the disks with partitions whose own removal is still to be handled
  handler,   \* the event batocera-storage-udev handles, at most one a drive
  queue,     \* storage-manager.delay: <<drive, n-th plug, is written>>
  ready,     \* batocera.share.mounted exists
  share,     \* the next step of S11share
  list,      \* the files S11share has listed, <<drive, n-th plug>>
  current,   \* the file S11share handles, a set of at most one
  jobs,      \* managers: <<command, drive, n-th plug, next step>>
  mount,     \* the plug each drive is mounted since, 0 for none
  pending,   \* the disks with a file storage.pending: the user is asked about one
  missed     \* history: the drives that a step of the code passed over since they came

user == <<plug, there>>
udev == <<uevents, leaving, handler>>
boot == <<ready, share, list, current>>
vars == <<user, udev, queue, boot, jobs, mount, pending, missed>>

Plugs == UNION {1 .. MaxPlugs[k] : k \in Disk}
File == Drive \X Plugs
Event == {"detect", "remove"} \X Plugs
Stage == {"flag", "lock", "look", "mount", "keep", "find", "unmount"}
Job == {"detect", "remove"} \X Drive \X Plugs \X Stage

(* Types; every file and job belongs to a plug of a drive.                 *)
TypeOK ==
  /\ plug \in [Disk -> Plugs \cup {0}] /\ mount \in [Drive -> Plugs \cup {0}]
  /\ there \subseteq Disk /\ leaving \subseteq Disk /\ ready \in BOOLEAN
  /\ uevents \in [Drive -> Seq(Event)]
  /\ handler \in [Drive -> {<<>>} \cup ({"detect", "write", "remove"} \X Plugs)]
  /\ queue \subseteq Drive \X Plugs \X BOOLEAN
  /\ share \in {"list", "next", "rm", "done"}
  /\ list \subseteq File /\ current \subseteq File /\ jobs \subseteq Job
  /\ pending \subseteq Disk /\ missed \subseteq Drive

Init ==
  /\ plug = [k \in Disk |-> 0] /\ mount = [d \in Drive |-> 0]
  /\ there = {} /\ current = {} /\ queue = {} /\ list = {} /\ jobs = {}
  /\ leaving = {} /\ pending = {} /\ missed = {}
  /\ uevents = [d \in Drive |-> <<>>]
  /\ handler = [d \in Drive |-> <<>>]
  /\ ready = FALSE /\ share = "list"

Nth(d) == plug[Parent[d]]
Here(d) == Parent[d] \in there
Drives(k) == {d \in Drive : Parent[d] = k}

\* The code passes over a drive that is there and not mounted since it came.
Miss(d, lost) == missed' = IF lost /\ Here(d) THEN missed \cup {d} ELSE missed

-----------------------------------------------------------------------------
(* The user, and udevd: it handles the events of one drive one by one.     *)

Send(k, event) ==
  uevents' = [d \in Drive |-> IF Parent[d] = k THEN Append(uevents[d], event) ELSE uevents[d]]

Plug(k) ==
  /\ k \notin there /\ plug[k] < MaxPlugs[k]
  /\ Cardinality({j \in Disk : plug[j] # 0} \cup {k}) <= MaxDisks
  /\ there' = there \cup {k} /\ plug' = [plug EXCEPT ![k] = @ + 1]
  /\ Send(k, <<"detect", plug[k] + 1>>) /\ missed' = missed \ Drives(k)
  /\ UNCHANGED <<leaving, handler, queue, boot, jobs, mount, pending>>

Unplug(k) ==
  /\ k \in there /\ there' = there \ {k}
  /\ Send(k, <<"remove", plug[k]>>)
  /\ leaving' = IF k \in Drive THEN leaving ELSE leaving \cup {k}
  /\ UNCHANGED <<plug, handler, queue, boot, jobs, mount, pending, missed>>

Manage(command, d, n) ==
  jobs' = jobs \cup {<<command, d, n, IF command = "detect" THEN "flag" ELSE "find">>}

(* "If system is already booted, run immediately".                         *)
Handle(d) ==
  /\ handler[d] = <<>> /\ uevents[d] # <<>>
  /\ uevents' = [uevents EXCEPT ![d] = Tail(@)]
  /\ LET event == Head(uevents[d])
     IN IF ready THEN Manage(event[1], d, event[2]) /\ UNCHANGED handler
                 ELSE handler' = [handler EXCEPT ![d] = event] /\ UNCHANGED jobs
  /\ UNCHANGED <<user, leaving, queue, boot, mount, pending, missed>>

(* The redirection makes the file, echo writes it then; S11share finds the *)
(* file only if it has not listed them yet.                                *)
MakeFile(d) ==
  /\ handler[d] # <<>> /\ handler[d][1] = "detect"
  /\ LET n == handler[d][2]
     IN /\ queue' = queue \cup {<<d, n, FALSE>>}
        /\ handler' = [handler EXCEPT ![d] = <<"write", n>>]
        /\ Miss(d, n = Nth(d) /\ share # "list")
  /\ UNCHANGED <<user, uevents, leaving, boot, jobs, mount, pending>>

Finish(d) == handler' = [handler EXCEPT ![d] = <<>>]

(* Where S11share has removed the file in between, nothing is left of it.  *)
WriteFile(d) ==
  /\ handler[d] # <<>> /\ handler[d][1] = "write" /\ Finish(d)
  /\ LET n == handler[d][2]
     IN queue' = IF <<d, n, FALSE>> \in queue
                 THEN (queue \ {<<d, n, FALSE>>}) \cup {<<d, n, TRUE>>} ELSE queue
  /\ UNCHANGED <<user, uevents, leaving, boot, jobs, mount, pending, missed>>

Files(d) == {f \in queue : f[1] = d}

(* Mutant: while the system boots, a removal only cleans the queue.        *)
OnlyForget(d) ==
  /\ handler[d] # <<>> /\ handler[d][1] = "remove" /\ Finish(d)
  /\ queue' = queue \ Files(d)
  /\ UNCHANGED <<user, uevents, leaving, boot, jobs, mount, pending, missed>>

(* "Clean up queue if drive is removed before boot finishes".              *)
Forget(d) ==
  /\ handler[d] # <<>> /\ handler[d][1] = "remove" /\ Finish(d)
  /\ queue' = queue \ Files(d)
  /\ Manage("remove", d, handler[d][2])
  /\ UNCHANGED <<user, uevents, leaving, boot, mount, pending, missed>>

(* The removal of the disk itself, which is never mounted.                 *)
ClearFlag(k) ==
  /\ k \in leaving /\ leaving' = leaving \ {k} /\ pending' = pending \ {k}
  /\ UNCHANGED <<user, uevents, handler, queue, boot, jobs, mount, missed>>

-----------------------------------------------------------------------------
(* S11share.                                                               *)

List ==
  /\ share = "list" /\ share' = "next"
  /\ list' = {<<f[1], f[2]>> : f \in queue}
  /\ UNCHANGED <<user, udev, queue, ready, current, jobs, mount, pending, missed>>

(* detect runs in the foreground; a file that is gone, or not written yet, *)
(* names no drive.                                                         *)
Read(file) ==
  /\ share = "next" /\ file \in list /\ share' = "rm"
  /\ list' = list \ {file} /\ current' = {file}
  /\ IF <<file[1], file[2], TRUE>> \in queue
     THEN Manage("detect", file[1], file[2]) /\ UNCHANGED missed
     ELSE UNCHANGED jobs /\ Miss(file[1], file[2] = Nth(file[1]))
  /\ UNCHANGED <<user, udev, queue, ready, mount, pending>>

Running(command, d) == \E job \in jobs : job[1] = command /\ job[2] = d

(* Mutant: the loop empties the directory.                                 *)
RemoveAll(file) ==
  /\ share = "rm" /\ file \in current /\ share' = "next"
  /\ ~\E stage \in Stage : <<"detect", file[1], file[2], stage>> \in jobs
  /\ queue' = {} /\ current' = {}
  /\ UNCHANGED <<user, udev, ready, list, jobs, mount, pending, missed>>

Remove(file) ==
  /\ share = "rm" /\ file \in current /\ share' = "next"
  /\ ~\E stage \in Stage : <<"detect", file[1], file[2], stage>> \in jobs
  /\ queue' = {f \in queue : <<f[1], f[2]>> # file}
  /\ current' = {}
  /\ UNCHANGED <<user, udev, ready, list, jobs, mount, pending, missed>>

(* Mutant: the loop ends at its first file.                                *)
ReadyEarly ==
  /\ share = "next" /\ share' = "done" /\ ready' = TRUE
  /\ UNCHANGED <<user, udev, queue, list, current, jobs, mount, pending, missed>>

Ready ==
  /\ share = "next" /\ list = {} /\ share' = "done" /\ ready' = TRUE
  /\ UNCHANGED <<user, udev, queue, list, current, jobs, mount, pending, missed>>

-----------------------------------------------------------------------------
(* batocera-storage-manager detect: the flag of the disk, the lock of the  *)
(* drive, /proc/mounts, then the mount.                                    *)

Step(job, next) == jobs' = (jobs \ {job}) \cup next
At(job, command, stage) == job[1] = command /\ job[4] = stage
Then(job, stage) == Step(job, {<<job[1], job[2], job[3], stage>>})

(* "Pending flag exists": whichever drive of the disk it was touched for.  *)
Flag(job) ==
  /\ At(job, "detect", "flag")
  /\ LET d == job[2]
     IN IF Parent[d] \in pending
        THEN Step(job, {}) /\ Miss(d, job[3] = Nth(d) /\ mount[d] # Nth(d))
        ELSE Then(job, "lock") /\ UNCHANGED missed
  /\ UNCHANGED <<user, udev, queue, boot, mount, pending>>

Locked(job) == job[1] = "detect" /\ job[4] \in {"look", "mount", "keep"}

(* A second detect of the drive gives up.                                  *)
Lock(job) ==
  /\ At(job, "detect", "lock")
  /\ IF \E other \in jobs : other[2] = job[2] /\ Locked(other)
     THEN Step(job, {}) ELSE Then(job, "look")
  /\ UNCHANGED <<user, udev, queue, boot, mount, pending, missed>>

Look(job) ==
  /\ At(job, "detect", "look")
  /\ Then(job, IF mount[job[2]] = 0 THEN "mount" ELSE "keep")
  /\ UNCHANGED <<user, udev, queue, boot, mount, pending, missed>>

(* A drive with roms that is neither in the configuration nor ignored is   *)
(* put to the user.                                                        *)
Ask(d) == \E asks \in BOOLEAN :
  pending' = IF asks THEN pending \cup {Parent[d]} ELSE pending

(* The mount fails where the drive has gone, and may fail where it has not.*)
Mount(job) ==
  /\ At(job, "detect", "mount") /\ Step(job, {})
  /\ LET d == job[2]
     IN \/ /\ Here(d) /\ mount' = [mount EXCEPT ![d] = Nth(d)]
           /\ Ask(d) /\ UNCHANGED missed
        \/ UNCHANGED <<mount, pending>> /\ Miss(d, TRUE)
  /\ UNCHANGED <<user, udev, queue, boot>>

(* "Already mounted": of an earlier plug as well, or no longer.            *)
Keep(job) ==
  /\ At(job, "detect", "keep") /\ Step(job, {})
  /\ LET d == job[2]
     IN /\ Miss(d, mount[d] # Nth(d))
        /\ IF mount[d] # 0 THEN Ask(d) ELSE UNCHANGED pending
  /\ UNCHANGED <<user, udev, queue, boot, mount>>

(* remove: of the name of a partition other than sd* lsblk finds no disk   *)
(* any more, so its flag stays.                                            *)
Find(job) ==
  /\ At(job, "remove", "find")
  /\ LET d == job[2]
     IN IF mount[d] # 0 THEN Then(job, "unmount") /\ UNCHANGED pending
        ELSE Step(job, {}) /\ \E found \in BOOLEAN :
               pending' = IF found \/ Parent[d] = d THEN pending \ {Parent[d]} ELSE pending
  /\ UNCHANGED <<user, udev, queue, boot, mount, missed>>

(* eject leaves the flag; handled late it ends the mount of the next plug. *)
Unmount(job) ==
  /\ At(job, "remove", "unmount") /\ Step(job, {})
  /\ LET d == job[2]
     IN mount' = [mount EXCEPT ![d] = 0] /\ Miss(d, mount[d] = Nth(d))
  /\ UNCHANGED <<user, udev, queue, boot, pending>>

(* The answer of the user, whose EmulationStation runs after the boot:     *)
(* merge only clears the flag ...                                          *)
Merge(k) ==
  /\ ready /\ k \in pending /\ \E d \in Drives(k) : mount[d] # 0
  /\ pending' = pending \ {k}
  /\ UNCHANGED <<user, udev, queue, boot, jobs, mount, missed>>

(* ... and ignore detects every drive of the disk again.                   *)
Ignore(k) ==
  /\ ready /\ k \in pending \cap there
  /\ pending' = pending \ {k} /\ missed' = missed \ Drives(k)
  /\ jobs' = jobs \cup {<<"detect", d, Nth(d), "flag">> : d \in Drives(k)}
  /\ UNCHANGED <<user, udev, queue, boot, mount>>

Work(job) ==
  Flag(job) \/ Lock(job) \/ Look(job) \/ Mount(job) \/ Keep(job) \/ Find(job) \/ Unmount(job)
Udev(d) == Handle(d) \/ MakeFile(d) \/ WriteFile(d) \/ Forget(d)
Share == List \/ Ready \/ (\E f \in list : Read(f)) \/ (\E f \in current : Remove(f))
User(k) == Plug(k) \/ Unplug(k) \/ Merge(k) \/ Ignore(k)

Next ==
  \/ Share \/ \E job \in jobs : Work(job)
  \/ \E d \in Drive : Udev(d)
  \/ \E k \in Disk : User(k) \/ ClearFlag(k)

(* The kernel schedules every process; what the user does is up to him.    *)
Fairness ==
  /\ WF_vars(Share) /\ \A d \in Drive : WF_vars(Udev(d))
  /\ \A d \in Drive :
       \A stages \in {{"flag"}, {"lock"}, {"look", "mount", "keep"}, {"find", "unmount"}} :
         WF_vars(\E job \in jobs : job[2] = d /\ job[4] \in stages /\ Work(job))

Spec == Init /\ [][Next]_vars /\ Fairness

-----------------------------------------------------------------------------
(* A mount of a drive that went does not outlive the removals under way:   *)
(* udev:28-32 makes the manager unmount it, when the system boots as well. *)
Removing(d) ==
  \/ Running("remove", d)
  \/ handler[d] # <<>> /\ handler[d][1] = "remove"
  \/ \E i \in DOMAIN uevents[d] : uevents[d][i][1] = "remove"

Stale(d) == mount[d] # 0 /\ (~Here(d) \/ mount[d] # Nth(d))
NoStaleMount == \A d \in Drive : Stale(d) => Removing(d)

(* What is there has been plugged in.                                      *)
Counted == \A k \in there : plug[k] # 0

IInv == TypeOK /\ Counted /\ NoStaleMount

(* udev has handled an event of the n-th plug of a drive.                  *)
Heard(d, n) ==
  \/ \E f \in Files(d) : f[2] = n
  \/ handler[d] # <<>> /\ handler[d][2] = n

(* What is known of a drive is of this plug or an earlier one.             *)
Past(d) ==
  /\ \A i \in DOMAIN uevents[d] : uevents[d][i][2] <= Nth(d)
  /\ \A n \in Plugs : Heard(d, n) => n <= Nth(d)

(* While a drive is there its last event is that it came; udev has handled *)
(* all events of it before a file of this plug is in the queue.            *)
Unqueued(d) ==
  /\ uevents[d][Len(uevents[d])] = <<"detect", Nth(d)>>
  /\ \A i \in 1 .. Len(uevents[d]) - 1 : uevents[d][i][2] < Nth(d)
  /\ \A n \in Plugs : Heard(d, n) => n < Nth(d)

InOrder(d) ==
  Here(d) => IF uevents[d] = <<>> THEN handler[d] # <<>> => handler[d][1] # "remove"
                                  ELSE Unqueued(d)

\* S11share takes a file from its list before it handles it.
ListKnown ==
  /\ share = "list" => list = {} /\ current = {}
  /\ list \cap current = {}

QInv == IInv /\ ListKnown /\ \A d \in Drive : Past(d) /\ InOrder(d)

(* A drive that is there is mounted, or one of the processes still has it: *)
(* an event, a handler that will leave a file in time, a file S11share will*)
(* read, or a detect; nothing of an earlier plug, a removal that is handled*)
(* late, its file or its detect, makes the code forget it (udev:15-32,     *)
(* S11share:416-427, manager:185-238, 352-357).  It excepts the drives that*)
(* a line of the code passes over, each one where the line is: Flag, Keep, *)
(* a mount that fails, Unmount, MakeFile, Read.                            *)
HasEvent(d) == \E i \in DOMAIN uevents[d] : uevents[d][i] = <<"detect", Nth(d)>>
HasFile(d) ==
  /\ share = "list" \/ <<d, Nth(d)>> \in list
  /\ \/ <<d, Nth(d), TRUE>> \in queue
     \/ <<d, Nth(d), FALSE>> \in queue /\ handler[d] = <<"write", Nth(d)>>
Detected(d) ==
  \E job \in jobs : job[1] = "detect" /\ job[2] = d /\ (job[3] = Nth(d) \/ Locked(job))

OnItsWay(d) ==
  \/ mount[d] = Nth(d) \/ HasEvent(d) \/ handler[d] = <<"detect", Nth(d)>>
  \/ HasFile(d) \/ Detected(d)

Followed == \A d \in Drive : Here(d) /\ d \notin missed => OnItsWay(d)

FInv == QInv /\ Followed

(* Its liveness half: a drive that stays is mounted in the end, if no step *)
(* of the code passes over it.                                             *)
StaysMounted ==
  \A d \in Drive :
    (Here(d) /\ d \notin missed) ~> (mount[d] = Nth(d) \/ ~Here(d) \/ d \in missed)

(* "If booting, queue detect events": whenever it comes, a drive that      *)
(* stays is mounted (udev:21-26).                                          *)
EveryDriveMounted == \A d \in Drive : Here(d) ~> (mount[d] # 0 \/ ~Here(d))
=============================================================================
