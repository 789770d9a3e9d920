---------------------------- MODULE HotplugProofs ----------------------------
(***************************************************************************)
(* For any number of disks and drives, plugged in any number of times: no  *)
(* mount outlives its drive once the removals under way are done, and a    *)
(* drive that is there is forgotten by no step but those named in Followed.*)
(***************************************************************************)
EXTENDS HotplugQueue, SequenceTheorems, TLAPS

\* An event that is queued leaves those before it where they are.
LEMMA Queued ==
  ASSUME NEW s \in Seq(Event), NEW e \in Event
  PROVE  /\ Append(s, e) \in Seq(Event)
         /\ \A i \in DOMAIN s : i \in DOMAIN Append(s, e) /\ Append(s, e)[i] = s[i]
         /\ Len(s) + 1 \in DOMAIN Append(s, e) /\ Append(s, e)[Len(s) + 1] = e
  BY AppendProperties

\* An event that is taken is the first, and the others stay in their order.
LEMMA Taken ==
  ASSUME NEW s \in Seq(Event), s # <<>>
  PROVE  /\ Head(s) \in Event /\ Tail(s) \in Seq(Event)
         /\ \A i \in DOMAIN s :
              s[i] = Head(s) \/ (i - 1 \in DOMAIN Tail(s) /\ Tail(s)[i - 1] = s[i])
  BY HeadTailProperties

\* The plugs are counted from 1.
LEMMA Numbers == \A n \in Plugs : n \in Nat /\ n # 0
<1> SUFFICES ASSUME NEW n \in Plugs PROVE n \in Nat /\ n # 0
  OBVIOUS
<1>1. PICK k \in Disk : n \in 1 .. MaxPlugs[k]
  BY DEF Plugs
<1> QED
  BY <1>1, HotplugAssumption

LEMMA Kinds ==
  ASSUME TypeOK, NEW d \in Drive
  PROVE  /\ Parent[d] \in Disk /\ Nth(d) \in Plugs \cup {0} /\ Nth(d) \in Nat
         /\ Counted /\ Here(d) => Nth(d) \in Plugs
<1>1. Parent[d] \in Disk
  BY HotplugAssumption
<1>2. Nth(d) \in Plugs \cup {0}
  BY <1>1 DEF TypeOK, Nth
<1>3. Counted /\ Here(d) => Nth(d) # 0
  BY DEF Counted, Here, Nth
<1> QED
  BY <1>1, <1>2, <1>3, Numbers

LEMMA InitIInv == Init => IInv
<1> SUFFICES ASSUME Init PROVE IInv
  OBVIOUS
<1>1. uevents \in [Drive -> Seq(Event)]
  BY DEF Init
<1>2. TypeOK
  BY <1>1 DEF Init, TypeOK
<1> QED
  BY <1>2 DEF Init, IInv, Counted, NoStaleMount, Stale

-----------------------------------------------------------------------------
(* A step that changes no mount, disk or removal leaves them as they are.  *)

LEMMA Frame ==
  ASSUME IInv, TypeOK', UNCHANGED <<user, mount>>,
         \A d \in Drive : Stale(d) /\ Removing(d) => Removing(d)'
  PROVE  IInv'
  BY DEF IInv, Counted, NoStaleMount, Stale, Here, Nth, user

\* The drives passed over are drives.
LEMMA MissType ==
  ASSUME TypeOK, NEW d \in Drive, NEW lost, Miss(d, lost)
  PROVE  missed' \subseteq Drive
  BY DEF TypeOK, Miss

\* What Send leaves of the events of a drive.
LEMMA Sent ==
  ASSUME TypeOK, NEW k, NEW e \in Event, Send(k, e)
  PROVE  /\ uevents' \in [Drive -> Seq(Event)]
         /\ \A d \in Drive : \A i \in DOMAIN uevents[d] :
              i \in DOMAIN uevents'[d] /\ uevents'[d][i] = uevents[d][i]
         /\ \A d \in Drive :
              IF Parent[d] = k
              THEN /\ uevents'[d] = Append(uevents[d], e)
                   /\ \E i \in DOMAIN uevents'[d] : uevents'[d][i] = e
              ELSE uevents'[d] = uevents[d]
<1>1. \A d \in Drive : uevents[d] \in Seq(Event)
  BY DEF TypeOK
<1>2. \A d \in Drive : uevents'[d] = IF Parent[d] = k THEN Append(uevents[d], e) ELSE uevents[d]
  BY DEF Send
<1>3. \A d \in Drive :
        /\ Append(uevents[d], e) \in Seq(Event)
        /\ \A i \in DOMAIN uevents[d] : /\ i \in DOMAIN Append(uevents[d], e)
                                        /\ Append(uevents[d], e)[i] = uevents[d][i]
        /\ \E i \in DOMAIN Append(uevents[d], e) : Append(uevents[d], e)[i] = e
  BY <1>1, Queued
<1>4. uevents' \in [Drive -> Seq(Event)]
  BY <1>1, <1>3 DEF Send
<1> QED
  BY <1>2, <1>3, <1>4

LEMMA StepPlug == ASSUME IInv, NEW k \in Disk, Plug(k) PROVE IInv'
<1> DEFINE e == <<"detect", plug[k] + 1>>
<1>1. plug[k] + 1 \in Plugs /\ plug[k] + 1 # 0
  <2>0. plug[k] \in Plugs \cup {0}
    BY DEF IInv, TypeOK
  <2>1. plug[k] \in Nat /\ MaxPlugs[k] \in Nat /\ plug[k] < MaxPlugs[k]
    BY <2>0, HotplugAssumption, Numbers DEF Plug
  <2>2. plug[k] + 1 \in 1 .. MaxPlugs[k] /\ plug[k] + 1 # 0
    BY <2>1
  <2> QED
    BY <2>2 DEF Plugs
<1>2. e \in Event
  BY <1>1 DEF Event
<1>3. TypeOK /\ Send(k, e)
  BY DEF Plug, IInv
<1>4. plug' \in [Disk -> Plugs \cup {0}] /\ there' \subseteq Disk /\ missed' \subseteq Drive
  BY <1>1 DEF Plug, IInv, TypeOK
<1>5. TypeOK'
  BY <1>2, <1>3, <1>4, Sent DEF Plug, TypeOK, boot
<1>6. Counted'
  BY <1>1 DEF Plug, IInv, TypeOK, Counted
<1>7. ASSUME NEW d \in Drive, Stale(d)' PROVE Removing(d)'
  <2>1. Stale(d)
    BY <1>7, Kinds DEF Plug, Stale, Here, Nth, IInv, TypeOK
  <2>2. Removing(d)
    BY <2>1 DEF IInv, NoStaleMount
  <2>3. \A i \in DOMAIN uevents[d] : i \in DOMAIN uevents'[d] /\ uevents'[d][i] = uevents[d][i]
    BY <1>2, <1>3, Sent
  <2> QED
    BY <2>2, <2>3 DEF Plug, Removing, Running
<1> QED
  BY <1>5, <1>6, <1>7 DEF IInv, NoStaleMount

LEMMA StepUnplug == ASSUME IInv, NEW k \in Disk, Unplug(k) PROVE IInv'
<1> DEFINE e == <<"remove", plug[k]>>
<1>1. e \in Event /\ e[1] = "remove"
  BY DEF Unplug, IInv, TypeOK, Counted, Event
<1>2. TypeOK /\ Send(k, e)
  BY DEF Unplug, IInv
<1>3. TypeOK'
  BY <1>1, <1>2, Sent DEF Unplug, TypeOK, boot
<1>4. Counted'
  BY DEF Unplug, IInv, Counted
<1>5. ASSUME NEW d \in Drive, Stale(d)' PROVE Removing(d)'
  <2>1. CASE Parent[d] = k
    <3>1. \E i \in DOMAIN uevents'[d] : uevents'[d][i] = e
      BY <1>1, <1>2, <2>1, Sent
    <3> QED
      BY <1>1, <3>1 DEF Removing
  <2>2. CASE Parent[d] # k
    <3>1. Stale(d)
      BY <1>5, <2>2 DEF Unplug, Stale, Here, Nth
    <3>2. Removing(d)
      BY <3>1 DEF IInv, NoStaleMount
    <3>3. uevents'[d] = uevents[d]
      BY <1>1, <1>2, <2>2, Sent
    <3> QED
      BY <3>2, <3>3 DEF Unplug, Removing, Running
  <2> QED
    BY <2>1, <2>2
<1> QED
  BY <1>3, <1>4, <1>5 DEF IInv, NoStaleMount

-----------------------------------------------------------------------------
(* udevd and its helper: a removal goes from the events to the handler or  *)
(* to a manager.                                                           *)

LEMMA StepHandle == ASSUME IInv, NEW d \in Drive, Handle(d) PROVE IInv'
<1> DEFINE event == Head(uevents[d])
<1>1. uevents[d] \in Seq(Event) /\ uevents[d] # <<>>
  BY DEF Handle, IInv, TypeOK
<1>2. /\ event \in Event /\ Tail(uevents[d]) \in Seq(Event)
      /\ \A i \in DOMAIN uevents[d] :
           \/ uevents[d][i] = event
           \/ i - 1 \in DOMAIN Tail(uevents[d]) /\ Tail(uevents[d])[i - 1] = uevents[d][i]
  BY <1>1, Taken
<1>3. uevents' \in [Drive -> Seq(Event)]
  BY <1>2 DEF Handle, IInv, TypeOK
<1>4. handler' \in [Drive -> {<<>>} \cup ({"detect", "write", "remove"} \X Plugs)]
  BY <1>2 DEF Handle, Event, IInv, TypeOK
<1>5. \A stage \in Stage : <<event[1], d, event[2], stage>> \in Job
  BY <1>2 DEF Event, Job
<1>6. jobs' \subseteq Job
  BY <1>5 DEF Handle, Manage, Stage, IInv, TypeOK
<1>7. TypeOK'
  BY <1>3, <1>4, <1>6 DEF Handle, IInv, TypeOK, boot, user
<1>8. jobs \subseteq jobs'
  BY DEF Handle, Manage
<1>9. ASSUME NEW e \in Drive, Removing(e) PROVE Removing(e)'
  <2>1. CASE Running("remove", e)
    BY <1>8, <2>1 DEF Removing, Running
  <2>2. CASE handler[e] # <<>> /\ handler[e][1] = "remove"
    <3>1. handler'[e] = handler[e]
      BY <2>2 DEF Handle, IInv, TypeOK
    <3> QED
      BY <2>2, <3>1 DEF Removing
  <2>3. CASE \E i \in DOMAIN uevents[e] : uevents[e][i][1] = "remove"
    <3>1. CASE e # d
      <4>1. uevents'[e] = uevents[e]
        BY <3>1 DEF Handle, IInv, TypeOK
      <4> QED
        BY <2>3, <4>1 DEF Removing
    <3>2. CASE e = d
      <4>1. PICK i \in DOMAIN uevents[d] : uevents[d][i][1] = "remove"
        BY <2>3, <3>2
      <4>2. uevents'[d] = Tail(uevents[d])
        BY DEF Handle, IInv, TypeOK
      <4>3. CASE uevents[d][i] # event
        BY <1>2, <3>2, <4>1, <4>2, <4>3 DEF Removing
      <4>4. CASE uevents[d][i] = event /\ ready
        <5>1. <<"remove", d, event[2], "find">> \in jobs'
          BY <4>1, <4>4 DEF Handle, Manage
        <5> QED
          BY <3>2, <5>1 DEF Removing, Running
      <4>5. CASE uevents[d][i] = event /\ ~ready
        <5>1. handler'[d] = event /\ event # <<>> /\ event[1] = "remove"
          BY <1>2, <4>1, <4>5 DEF Handle, IInv, TypeOK, Event
        <5> QED
          BY <3>2, <5>1 DEF Removing
      <4> QED
        BY <4>3, <4>4, <4>5
    <3> QED
      BY <3>1, <3>2
  <2> QED
    BY <1>9, <2>1, <2>2, <2>3 DEF Removing
<1> QED
  BY <1>7, <1>9, Frame DEF Handle

LEMMA StepFile ==
  ASSUME IInv, NEW d \in Drive, MakeFile(d) \/ WriteFile(d)
  PROVE  IInv'
<1>1. handler[d] \in {"detect", "write"} \X Plugs
  BY DEF MakeFile, WriteFile, IInv, TypeOK
<1>6. handler[d][2] \in Plugs
  BY <1>1
<1>2. handler' \in [Drive -> {<<>>} \cup ({"detect", "write", "remove"} \X Plugs)]
  <2>1. CASE MakeFile(d)
    BY <1>6, <2>1 DEF MakeFile, IInv, TypeOK
  <2>2. CASE WriteFile(d)
    BY <2>2 DEF WriteFile, Finish, IInv, TypeOK
  <2> QED
    BY <2>1, <2>2
<1>7. \A b \in BOOLEAN : <<d, handler[d][2], b>> \in Drive \X Plugs \X BOOLEAN
  BY <1>6
<1>8. queue' \subseteq queue \cup {<<d, handler[d][2], b>> : b \in BOOLEAN}
  BY DEF MakeFile, WriteFile
<1>3. queue' \subseteq Drive \X Plugs \X BOOLEAN
  BY <1>7, <1>8 DEF IInv, TypeOK
<1>9. missed' \subseteq Drive
  BY MissType DEF MakeFile, WriteFile, IInv, TypeOK
<1>4. TypeOK'
  BY <1>2, <1>3, <1>9 DEF MakeFile, WriteFile, IInv, TypeOK, boot, user
<1>5. ASSUME NEW e \in Drive, Removing(e) PROVE Removing(e)'
  <2>1. handler[e] # <<>> /\ handler[e][1] = "remove" => handler'[e] = handler[e]
    BY <1>1 DEF MakeFile, WriteFile, Finish, IInv, TypeOK
  <2> QED
    BY <1>5, <2>1 DEF MakeFile, WriteFile, Removing, Running
<1> QED
  BY <1>4, <1>5, Frame DEF MakeFile, WriteFile

LEMMA StepForget == ASSUME IInv, NEW d \in Drive, Forget(d) PROVE IInv'
<1>1. handler[d] \in {"remove"} \X Plugs
  BY DEF Forget, IInv, TypeOK
<1>2. handler' \in [Drive -> {<<>>} \cup ({"detect", "write", "remove"} \X Plugs)]
  BY DEF Forget, Finish, IInv, TypeOK
<1>3. jobs' \subseteq Job
  BY <1>1 DEF Forget, Manage, Job, Stage, IInv, TypeOK
<1>4. queue' \subseteq Drive \X Plugs \X BOOLEAN
  BY DEF Forget, Files, IInv, TypeOK
<1>5. TypeOK'
  BY <1>2, <1>3, <1>4 DEF Forget, IInv, TypeOK, boot, user
<1>6. ASSUME NEW e \in Drive, Removing(e) PROVE Removing(e)'
  <2>1. CASE e = d
    <3>1. <<"remove", d, handler[d][2], "find">> \in jobs'
      BY DEF Forget, Manage
    <3> QED
      BY <2>1, <3>1 DEF Removing, Running
  <2>2. CASE e # d
    <3>1. handler'[e] = handler[e] /\ uevents'[e] = uevents[e] /\ jobs \subseteq jobs'
      BY <2>2 DEF Forget, Finish, Manage, IInv, TypeOK
    <3> QED
      BY <1>6, <3>1 DEF Removing, Running
  <2> QED
    BY <2>1, <2>2
<1> QED
  BY <1>5, <1>6, Frame DEF Forget

\* The flag of a disk is no concern of its mounts, nor is a detect that is started.
LEMMA StepFlags ==
  ASSUME IInv, NEW k \in Disk, ClearFlag(k) \/ Merge(k) \/ Ignore(k)
  PROVE  IInv'
<1>1. jobs \subseteq jobs' /\ UNCHANGED <<user, mount, uevents, handler>>
  BY DEF ClearFlag, Merge, Ignore, udev
<1>2. \A d \in Drives(k) : k \in there => <<"detect", d, Nth(d), "flag">> \in Job
  BY Kinds DEF Drives, Here, IInv, Job, Stage
<1>3. jobs' \subseteq Job
  BY <1>2 DEF ClearFlag, Merge, Ignore, IInv, TypeOK
<1>4. TypeOK'
  BY <1>1, <1>3 DEF ClearFlag, Merge, Ignore, IInv, TypeOK, boot, user, udev
<1>5. ASSUME NEW e \in Drive, Removing(e) PROVE Removing(e)'
  BY <1>1, <1>5 DEF Removing, Running
<1> QED
  BY <1>1, <1>4, <1>5, Frame

-----------------------------------------------------------------------------
(* S11share: it starts managers and takes none away.                       *)

LEMMA StepShare == ASSUME IInv, Share PROVE IInv'
<1>1. list' \subseteq File /\ current' \subseteq File
  <2>1. CASE List
    BY <2>1 DEF List, IInv, TypeOK, File
  <2>2. CASE Ready
    BY <2>2 DEF Ready, IInv, TypeOK
  <2>3. ASSUME NEW f \in list, Read(f) PROVE list' \subseteq File /\ current' \subseteq File
    BY <2>3 DEF Read, IInv, TypeOK
  <2>4. ASSUME NEW f \in current, Remove(f) PROVE list' \subseteq File /\ current' \subseteq File
    BY <2>4 DEF Remove, IInv, TypeOK
  <2> QED
    BY <2>1, <2>2, <2>3, <2>4 DEF Share
<1>2. queue' \subseteq Drive \X Plugs \X BOOLEAN
  BY DEF Share, List, Read, Remove, Ready, IInv, TypeOK
<1>3. jobs \subseteq jobs' /\ jobs' \subseteq Job /\ missed' \subseteq Drive
  <2>1. ASSUME NEW f \in list, Read(f)
        PROVE  jobs \subseteq jobs' /\ jobs' \subseteq Job /\ missed' \subseteq Drive
    <3>1. f[1] \in Drive /\ f[2] \in Plugs
      BY DEF IInv, TypeOK, File
    <3>2. <<"detect", f[1], f[2], "flag">> \in Job
      BY <3>1 DEF Job, Stage
    <3> QED
      BY <2>1, <3>1, <3>2, MissType DEF Read, Manage, IInv, TypeOK
  <2> QED
    BY <2>1 DEF Share, List, Remove, Ready, IInv, TypeOK
<1>4. TypeOK'
  BY <1>1, <1>2, <1>3 DEF Share, List, Read, Remove, Ready, IInv, TypeOK, udev, user
<1>5. ASSUME NEW e \in Drive, Removing(e) PROVE Removing(e)'
  BY <1>3, <1>5 DEF Share, List, Read, Remove, Ready, udev, Removing, Running
<1> QED
  BY <1>4, <1>5, Frame DEF Share, List, Read, Remove, Ready

-----------------------------------------------------------------------------
(* The managers: one that removes ends with the drive unmounted.           *)

\* A job that goes on to its next stage is still one of its drive.
LEMMA Going ==
  ASSUME TypeOK, NEW job \in jobs, NEW stage \in Stage, Then(job, stage)
  PROVE  /\ jobs' \subseteq Job /\ <<job[1], job[2], job[3], stage>> \in jobs'
         /\ jobs \ {job} \subseteq jobs'
         /\ jobs' \subseteq (jobs \ {job}) \cup {<<job[1], job[2], job[3], stage>>}
<1>1. job \in Job
  BY DEF TypeOK
<1>2. <<job[1], job[2], job[3], stage>> \in Job
  BY <1>1 DEF Job
<1> QED
  BY <1>2 DEF Then, Step, TypeOK

LEMMA JobKind ==
  ASSUME TypeOK, NEW job \in jobs
  PROVE  job[2] \in Drive /\ job[3] \in Plugs /\ job = <<job[1], job[2], job[3], job[4]>>
  BY DEF TypeOK, Job

\* A manager that detects but does not mount changes no mount and ends no removal.
LEMMA StepDetect ==
  ASSUME IInv, NEW job \in jobs, Flag(job) \/ Lock(job) \/ Look(job) \/ Keep(job)
  PROVE  IInv'
<1>1. job[1] = "detect" /\ job[2] \in Drive /\ TypeOK
  BY JobKind DEF Flag, Lock, Look, Keep, At, IInv
<1>2. jobs' \subseteq Job /\ jobs \ {job} \subseteq jobs'
  <2>1. Step(job, {}) \/ \E stage \in Stage : Then(job, stage)
    BY DEF Flag, Lock, Look, Keep, Stage
  <2> QED
    BY <1>1, <2>1, Going DEF Step, TypeOK
<1>3. missed' \subseteq Drive
  BY <1>1, MissType DEF Flag, Lock, Look, Keep, TypeOK
<1>4. pending' \subseteq Disk
  BY <1>1, Kinds DEF Flag, Lock, Look, Keep, Ask, TypeOK
<1>5. TypeOK'
  BY <1>1, <1>2, <1>3, <1>4 DEF Flag, Lock, Look, Keep, TypeOK, user, udev, boot
<1>6. ASSUME NEW e \in Drive, Removing(e) PROVE Removing(e)'
  <2>1. Running("remove", e) => Running("remove", e)'
    BY <1>1, <1>2 DEF Running
  <2> QED
    BY <1>6, <2>1 DEF Flag, Lock, Look, Keep, udev, Removing
<1> QED
  BY <1>5, <1>6, Frame DEF Flag, Lock, Look, Keep

LEMMA StepFind == ASSUME IInv, NEW job \in jobs, Find(job) PROVE IInv'
<1>1. job[1] = "remove" /\ job[2] \in Drive /\ TypeOK
  BY JobKind DEF Find, At, IInv
<1>2. jobs' \subseteq Job /\ jobs \ {job} \subseteq jobs'
  <2>1. Step(job, {}) \/ Then(job, "unmount")
    BY DEF Find
  <2> QED
    BY <1>1, <2>1, Going DEF Step, TypeOK, Stage
<1>3. pending' \subseteq Disk
  BY <1>1 DEF Find, TypeOK
<1>4. TypeOK'
  BY <1>1, <1>2, <1>3 DEF Find, TypeOK, user, udev, boot
<1>5. ASSUME NEW e \in Drive, Stale(e), Removing(e) PROVE Removing(e)'
  <2>1. ASSUME Running("remove", e) PROVE Running("remove", e)'
    <3>1. PICK r \in jobs : r[1] = "remove" /\ r[2] = e
      BY <2>1 DEF Running
    <3>2. CASE r # job
      BY <1>2, <3>1, <3>2 DEF Running
    <3>3. CASE r = job
      <4>1. Then(job, "unmount")
        BY <1>5, <3>1, <3>3 DEF Find, Stale
      <4>2. <<"remove", e, job[3], "unmount">> \in jobs'
        BY <1>1, <3>1, <3>3, <4>1, Going DEF Stage
      <4> QED
        BY <4>2 DEF Running
    <3> QED
      BY <3>2, <3>3
  <2> QED
    BY <1>5, <2>1 DEF Find, udev, Removing
<1> QED
  BY <1>4, <1>5, Frame DEF Find

LEMMA StepMount == ASSUME IInv, NEW job \in jobs, Mount(job) PROVE IInv'
<1>1. job[1] = "detect" /\ job[2] \in Drive /\ TypeOK
  BY JobKind DEF Mount, At, IInv
<1>2. jobs' \subseteq jobs /\ jobs \ {job} \subseteq jobs'
  BY DEF Mount, Step
<1>3. mount' \in [Drive -> Plugs \cup {0}]
  BY <1>1, Kinds DEF Mount, TypeOK
<1>4. missed' \subseteq Drive /\ pending' \subseteq Disk
  BY <1>1, MissType, Kinds DEF Mount, Ask, TypeOK
<1>5. TypeOK'
  BY <1>1, <1>2, <1>3, <1>4 DEF Mount, TypeOK, user, udev, boot
<1>6. ASSUME NEW e \in Drive, Stale(e)' PROVE Removing(e)'
  <2>1. Stale(e)
    BY <1>1, <1>6 DEF Mount, Stale, Here, Nth, TypeOK, user
  <2>2. Removing(e)
    BY <2>1 DEF IInv, NoStaleMount
  <2>3. Running("remove", e) => Running("remove", e)'
    BY <1>1, <1>2 DEF Running
  <2> QED
    BY <2>2, <2>3 DEF Mount, udev, Removing
<1> QED
  BY <1>5, <1>6 DEF Mount, IInv, Counted, NoStaleMount, user

LEMMA StepUnmount == ASSUME IInv, NEW job \in jobs, Unmount(job) PROVE IInv'
<1>1. job[2] \in Drive /\ TypeOK
  BY JobKind DEF IInv
<1>2. mount' \in [Drive -> Plugs \cup {0}] /\ jobs' \subseteq jobs /\ jobs \ {job} \subseteq jobs'
  BY <1>1 DEF Unmount, Step, TypeOK
<1>3. missed' \subseteq Drive
  BY <1>1, MissType DEF Unmount
<1>4. TypeOK'
  BY <1>1, <1>2, <1>3 DEF Unmount, TypeOK, user, udev, boot
<1>5. ASSUME NEW e \in Drive, Stale(e)' PROVE Removing(e)'
  <2>1. e # job[2] /\ Stale(e)
    BY <1>1, <1>5 DEF Unmount, Stale, Here, Nth, TypeOK, user
  <2>2. Removing(e)
    BY <2>1 DEF IInv, NoStaleMount
  <2>3. Running("remove", e) => Running("remove", e)'
    BY <1>2, <2>1 DEF Running
  <2> QED
    BY <2>2, <2>3 DEF Unmount, udev, Removing
<1> QED
  BY <1>4, <1>5 DEF Unmount, IInv, Counted, NoStaleMount, user

LEMMA Preserved == IInv /\ [Next]_vars => IInv'
<1> SUFFICES ASSUME IInv, [Next]_vars PROVE IInv'
  OBVIOUS
<1>1. CASE Share
  BY <1>1, StepShare
<1>2. ASSUME NEW job \in jobs, Work(job) PROVE IInv'
  BY <1>2, StepDetect, StepFind, StepMount, StepUnmount DEF Work
<1>3. ASSUME NEW k \in Disk, User(k) \/ ClearFlag(k) PROVE IInv'
  BY <1>3, StepPlug, StepUnplug, StepFlags DEF User
<1>4. ASSUME NEW d \in Drive, Udev(d) PROVE IInv'
  BY <1>4, StepHandle, StepFile, StepForget DEF Udev
<1>5. CASE UNCHANGED vars
  BY <1>5 DEF vars, user, udev, boot, IInv, TypeOK, Counted, NoStaleMount, Stale, Here, Nth,
              Removing, Running
<1> QED
  BY <1>1, <1>2, <1>3, <1>4, <1>5 DEF Next

-----------------------------------------------------------------------------

\* The types, for every drive however often it comes.
THEOREM Invariance == Spec => []IInv
<1>1. Init /\ [][Next]_vars => []IInv
  BY InitIInv, Preserved, PTL
<1> QED
  BY <1>1, PTL DEF Spec

\* A mount whose drive has gone, or come back since, has a removal under way that ends it.
THEOREM NoStale == Spec => []NoStaleMount
<1>1. IInv => NoStaleMount
  BY DEF IInv
<1> QED
  BY <1>1, Invariance, PTL

-----------------------------------------------------------------------------
(* The order in which the events of a drive are handled.                   *)

LEMMA InitQInv == Init => QInv
<1> SUFFICES ASSUME Init PROVE QInv
  OBVIOUS
<1>1. ListKnown
  BY DEF Init, ListKnown
<1>2. ASSUME NEW d \in Drive PROVE Past(d) /\ InOrder(d)
  BY <1>2 DEF Init, Past, InOrder, Here, Heard, Files
<1> QED
  BY <1>1, <1>2, InitIInv DEF QInv

LEMMA StepList == ASSUME QInv, [Next]_vars PROVE ListKnown'
<1>1. CASE List \/ Ready
  BY <1>1 DEF List, Ready, QInv, ListKnown
<1>2. ASSUME NEW f \in list, Read(f) PROVE ListKnown'
  BY <1>2 DEF Read, QInv, ListKnown
<1>3. ASSUME NEW f \in current, Remove(f) PROVE ListKnown'
  BY <1>3 DEF Remove, QInv, ListKnown
<1>4. CASE UNCHANGED boot
  BY <1>4 DEF boot, QInv, ListKnown
<1>5. Share \/ UNCHANGED boot
  BY DEF Next, Work, Flag, Lock, Look, Mount, Keep, Find, Unmount, User, Plug, Unplug, Merge,
         Ignore, ClearFlag, Udev, Handle, MakeFile, WriteFile, Forget, vars
<1> QED
  BY <1>1, <1>2, <1>3, <1>4, <1>5 DEF Share

\* A step that takes no event of a drive, and forgets what was heard of it, keeps the order.
LEMMA OrderFrame ==
  ASSUME NEW d \in Drive, Past(d), InOrder(d), Nth(d)' = Nth(d),
         Here(d)' => Here(d), uevents'[d] = uevents[d],
         \A n \in Plugs : Heard(d, n)' => Heard(d, n),
         handler'[d] = handler[d] \/ handler'[d] = <<>> \/ handler'[d][1] # "remove"
  PROVE  Past(d)' /\ InOrder(d)'
<1>1. Past(d)'
  BY DEF Past
<1>2. InOrder(d)'
  BY DEF InOrder, Unqueued
<1> QED
  BY <1>1, <1>2

\* The n-th plug of a drive is the one its last event names.
LEMMA OrderPlug ==
  ASSUME QInv, NEW d \in Drive, Plug(Parent[d]) PROVE Past(d)' /\ InOrder(d)'
<1> DEFINE u == uevents[d]  p == Nth(d)
<1>0. TypeOK /\ Past(d) /\ Parent[d] \in Disk
  BY Kinds DEF QInv, IInv
<1>1. u \in Seq(Event) /\ p \in Nat /\ p + 1 \in Plugs
  <2>1. p \in Nat /\ MaxPlugs[Parent[d]] \in Nat /\ p < MaxPlugs[Parent[d]]
    BY <1>0, Kinds, HotplugAssumption DEF Plug, Nth
  <2>2. p + 1 \in 1 .. MaxPlugs[Parent[d]]
    BY <2>1
  <2> QED
    BY <1>0, <2>1, <2>2 DEF TypeOK, Plugs
<1>2. <<"detect", p + 1>> \in Event
  BY <1>1 DEF Event
<1>3. uevents'[d] = Append(u, <<"detect", p + 1>>) /\ Nth(d)' = p + 1
  <2>1. Send(Parent[d], <<"detect", p + 1>>)
    BY DEF Plug, Nth
  <2>2. plug'[Parent[d]] = p + 1
    BY <1>0 DEF Plug, Nth, TypeOK
  <2> QED
    BY <1>0, <1>2, <2>1, <2>2, Sent DEF Nth
<1>4. /\ Len(uevents'[d]) = Len(u) + 1 /\ uevents'[d][Len(u) + 1] = <<"detect", p + 1>>
      /\ \A i \in 1 .. Len(u) : uevents'[d][i] = u[i]
      /\ DOMAIN uevents'[d] = 1 .. Len(u) + 1 /\ Len(u) \in Nat /\ DOMAIN u = 1 .. Len(u)
  BY <1>1, <1>2, <1>3, AppendProperties, LenProperties
<1>5. \A n \in Plugs : Heard(d, n)' => n <= p
  BY <1>0 DEF Plug, Heard, Files, Past
<1>6. \A i \in 1 .. Len(u) : u[i][2] <= p /\ u[i][2] \in Nat
  <2> TAKE i \in 1 .. Len(u)
  <2>1. u[i] \in Event
    BY <1>1, <1>4
  <2>2. u[i][2] \in Plugs
    BY <2>1 DEF Event
  <2>3. u[i][2] <= p
    BY <1>0, <1>4 DEF Past
  <2> QED
    BY <2>2, <2>3, Numbers
<1>9. \A n \in Plugs : n <= p => n < p + 1 /\ n <= p + 1
  BY <1>1, Numbers
<1>7. Past(d)'
  <2>1. \A i \in DOMAIN uevents'[d] : uevents'[d][i][2] <= p + 1
    <3> SUFFICES ASSUME NEW i \in 1 .. Len(u) + 1 PROVE uevents'[d][i][2] <= p + 1
      BY <1>4
    <3>1. CASE i = Len(u) + 1
      <4>1. <<"detect", p + 1>>[2] = p + 1
        OBVIOUS
      <4> QED
        BY <1>1, <1>4, <3>1, <4>1
    <3>2. CASE i # Len(u) + 1
      <4>1. i \in 1 .. Len(u)
        BY <1>4, <3>2
      <4>2. uevents'[d][i][2] = u[i][2]
        BY <1>4, <4>1
      <4>3. u[i][2] <= p /\ u[i][2] \in Nat
        BY <1>6, <4>1
      <4> QED
        BY <1>1, <4>2, <4>3
    <3> QED
      BY <3>1, <3>2
  <2>2. \A n \in Plugs : Heard(d, n)' => n <= p + 1
    BY <1>5, <1>9
  <2> QED
    BY <1>3, <2>1, <2>2 DEF Past
<1>8. Unqueued(d)'
  <2>1. uevents'[d][Len(uevents'[d])] = <<"detect", p + 1>>
    BY <1>4
  <2>2. \A i \in 1 .. Len(uevents'[d]) - 1 : uevents'[d][i][2] < p + 1
    <3> SUFFICES ASSUME NEW i \in 1 .. Len(u) PROVE uevents'[d][i][2] < p + 1
      <4>1. Len(uevents'[d]) - 1 = Len(u)
        BY <1>4
      <4> QED
        BY <4>1
    <3>1. uevents'[d][i][2] = u[i][2]
      BY <1>4
    <3>2. u[i][2] <= p /\ u[i][2] \in Nat
      BY <1>6
    <3> QED
      BY <1>1, <3>1, <3>2
  <2>3. \A n \in Plugs : Heard(d, n)' => n < p + 1
    BY <1>5, <1>9
  <2> QED
    BY <1>3, <2>1, <2>2, <2>3 DEF Unqueued
<1>10. uevents'[d] # <<>>
  <2>1. Append(u, <<"detect", p + 1>>) # <<>>
    BY <1>1, <1>2, AppendProperties
  <2> QED
    BY <1>3, <2>1
<1> QED
  BY <1>7, <1>8, <1>10 DEF InOrder

LEMMA OrderUnplug ==
  ASSUME QInv, NEW d \in Drive, Unplug(Parent[d]) PROVE Past(d)' /\ InOrder(d)'
<1> DEFINE u == uevents[d]  p == Nth(d)
<1>1. TypeOK /\ u \in Seq(Event) /\ p \in Plugs /\ p \in Nat /\ Past(d)
  BY Kinds, Numbers DEF Unplug, Here, QInv, IInv, TypeOK
<1>2. <<"remove", p>> \in Event
  BY <1>1 DEF Event
<1>3. uevents'[d] = Append(u, <<"remove", p>>) /\ Nth(d)' = p
  <2>1. Send(Parent[d], <<"remove", p>>)
    BY DEF Unplug, Nth
  <2> QED
    BY <1>1, <1>2, <2>1, Sent DEF Unplug, Nth
<1>4. /\ uevents'[d][Len(u) + 1] = <<"remove", p>>
      /\ \A i \in 1 .. Len(u) : uevents'[d][i] = u[i]
      /\ DOMAIN uevents'[d] = 1 .. Len(u) + 1 /\ Len(u) \in Nat /\ DOMAIN u = 1 .. Len(u)
  BY <1>1, <1>2, <1>3, AppendProperties, LenProperties
<1>5. \A n \in Plugs : Heard(d, n)' => n <= p
  BY <1>1 DEF Unplug, Heard, Files, Past
<1>6. \A i \in 1 .. Len(u) : u[i][2] <= p
  BY <1>1, <1>4 DEF Past
<1>7. \A i \in DOMAIN uevents'[d] : uevents'[d][i][2] <= p
  BY <1>1, <1>4, <1>6
<1>8. ~Here(d)'
  BY DEF Unplug, Here
<1> QED
  BY <1>3, <1>5, <1>7, <1>8 DEF Past, InOrder

\* The places of a sequence that has more than one element.
LEMMA Places ==
  ASSUME NEW n \in Nat, n - 1 \in Nat \ {0}
  PROVE  n - 1 \in 1 .. n - 1 /\ (n - 1) + 1 = n /\ 1 \in 1 .. n - 1
  OBVIOUS

LEMMA OrderHandle ==
  ASSUME QInv, NEW d \in Drive, Handle(d) PROVE Past(d)' /\ InOrder(d)'
<1> DEFINE u == uevents[d]  p == Nth(d)
<1>1. u \in Seq(Event) /\ u # <<>> /\ p \in Nat /\ Past(d) /\ InOrder(d)
  BY Kinds DEF Handle, QInv, IInv, TypeOK
<1>2. /\ Len(u) \in Nat \ {0} /\ DOMAIN u = 1 .. Len(u) /\ Tail(u) \in Seq(Event)
      /\ Len(Tail(u)) = Len(u) - 1 /\ DOMAIN Tail(u) = 1 .. Len(u) - 1
      /\ \A i \in 1 .. Len(u) - 1 : Tail(u)[i] = u[i + 1]
      /\ Head(u) = u[1] /\ Head(u) \in Event
  BY <1>1, HeadTailProperties, LenProperties, EmptySeq
<1>3. uevents'[d] = Tail(u) /\ Nth(d)' = p /\ (Here(d)' => Here(d)) /\ queue' = queue
  BY DEF Handle, Nth, Here, user, QInv, IInv, TypeOK
<1>4. handler[d] = <<>> /\ (handler'[d] = <<>> \/ handler'[d] = Head(u))
  BY DEF Handle, QInv, IInv, TypeOK
<1>5. \A n \in Plugs : Heard(d, n)' => Heard(d, n) \/ n = Head(u)[2]
  BY <1>3, <1>4 DEF Heard, Files
<1>6. \A i \in 1 .. Len(u) : u[i][2] \in Nat /\ u[i][2] <= p
  <2> TAKE i \in 1 .. Len(u)
  <2>1. u[i] \in Event /\ i \in DOMAIN u
    BY <1>1, <1>2
  <2>2. u[i][2] \in Plugs
    BY <2>1 DEF Event
  <2> QED
    BY <1>1, <2>1, <2>2, Numbers DEF Past
<1>7. Past(d)'
  <2>1. \A i \in DOMAIN uevents'[d] : uevents'[d][i][2] <= p
    BY <1>2, <1>3, <1>6
  <2>2. \A n \in Plugs : Heard(d, n)' => n <= p
    BY <1>1, <1>2, <1>5, <1>6 DEF Past
  <2> QED
    BY <1>3, <2>1, <2>2 DEF Past
<1>8. InOrder(d)'
  <2> SUFFICES ASSUME Here(d)' PROVE InOrder(d)'
    BY DEF InOrder
  <2>1. Unqueued(d)
    BY <1>1, <1>3 DEF InOrder
  <2>2. CASE Tail(u) = <<>>
    <3>1. Len(u) = 1
      <4>1. Len(Tail(u)) = Len(<<>>) /\ Len(<<>>) = 0
        BY <2>2, EmptySeq
      <4> QED
        BY <1>2, <4>1
    <3>2. Head(u)[1] = "detect"
      BY <1>2, <2>1, <3>1 DEF Unqueued
    <3> QED
      BY <1>3, <1>4, <2>2, <3>2 DEF InOrder
  <2>3. CASE Tail(u) # <<>>
    <3>0. Len(u) \in Nat
      BY <1>2
    <3>1. Len(u) - 1 \in Nat \ {0}
      <4>1. Len(Tail(u)) \in Nat \ {0}
        BY <1>2, <2>3, EmptySeq
      <4> QED
        BY <1>2, <4>1
    <3>2. uevents'[d][Len(uevents'[d])] = <<"detect", p>>
      <4>1. Len(u) - 1 \in 1 .. Len(u) - 1 /\ (Len(u) - 1) + 1 = Len(u)
        BY <3>0, <3>1, Places
      <4>2. Tail(u)[Len(u) - 1] = u[Len(u)]
        BY <1>2, <4>1
      <4> QED
        BY <1>2, <1>3, <2>1, <4>2 DEF Unqueued
    <3>3. \A i \in 1 .. Len(uevents'[d]) - 1 : uevents'[d][i][2] < p
      BY <1>2, <1>3, <2>1, <3>1 DEF Unqueued
    <3>4. Head(u)[2] < p
      <4>1. 1 \in 1 .. Len(u) - 1
        BY <3>0, <3>1, Places
      <4> QED
        BY <1>2, <2>1, <4>1 DEF Unqueued
    <3>5. \A n \in Plugs : Heard(d, n)' => n < p
      BY <1>5, <2>1, <3>4 DEF Unqueued
    <3>6. Unqueued(d)'
      BY <1>3, <3>2, <3>3, <3>5 DEF Unqueued
    <3> QED
      BY <1>3, <2>3, <3>6 DEF InOrder
  <2> QED
    BY <2>2, <2>3
<1> QED
  BY <1>7, <1>8

LEMMA StepOrder ==
  ASSUME QInv, [Next]_vars, NEW d \in Drive PROVE Past(d)' /\ InOrder(d)'
<1>1. TypeOK /\ Past(d) /\ InOrder(d)
  BY DEF QInv, IInv
<1>2. CASE UNCHANGED <<user, uevents, handler>> /\ queue' \subseteq queue
  <2>1. \A n \in Plugs : Heard(d, n)' => Heard(d, n)
    BY <1>2 DEF Heard, Files
  <2> QED
    BY <1>1, <1>2, <2>1, OrderFrame DEF user, Nth, Here
<1>3. ASSUME Share PROVE UNCHANGED <<user, uevents, handler>> /\ queue' \subseteq queue
  BY <1>3 DEF Share, List, Ready, Read, Remove, udev
<1>4. ASSUME NEW job \in jobs, Work(job)
      PROVE  UNCHANGED <<user, uevents, handler>> /\ queue' \subseteq queue
  BY <1>4 DEF Work, Flag, Lock, Look, Mount, Keep, Find, Unmount, udev
<1>5. ASSUME NEW k \in Disk, Merge(k) \/ Ignore(k) \/ ClearFlag(k)
      PROVE  UNCHANGED <<user, uevents, handler>> /\ queue' \subseteq queue
  BY <1>5 DEF Merge, Ignore, ClearFlag, udev
<1>6. ASSUME NEW k \in Disk, Plug(k) \/ Unplug(k)
      PROVE  Past(d)' /\ InOrder(d)'
  <2>1. CASE k = Parent[d]
    BY <1>6, <2>1, OrderPlug, OrderUnplug
  <2>2. CASE k # Parent[d]
    <3>1. Nth(d)' = Nth(d) /\ (Here(d)' => Here(d)) /\ handler' = handler /\ queue' = queue
      <4>1. plug'[Parent[d]] = plug[Parent[d]] /\ (Parent[d] \in there' => Parent[d] \in there)
        BY <1>1, <1>6, <2>2, Kinds DEF Plug, Unplug, TypeOK
      <4> QED
        BY <1>6, <4>1 DEF Plug, Unplug, Nth, Here
    <3>2. uevents'[d] = uevents[d]
      BY <1>6, <2>2 DEF Plug, Unplug, Send
    <3>3. \A n \in Plugs : Heard(d, n)' => Heard(d, n)
      BY <3>1 DEF Heard, Files
    <3> QED
      BY <1>1, <3>1, <3>2, <3>3, OrderFrame
  <2> QED
    BY <2>1, <2>2
<1>7. ASSUME NEW e \in Drive, Udev(e) PROVE Past(d)' /\ InOrder(d)'
  <2>0. Nth(d)' = Nth(d) /\ (Here(d)' => Here(d))
    BY <1>7 DEF Udev, Handle, MakeFile, WriteFile, Forget, user, Nth, Here
  <2>1. CASE Handle(e)
    <3>1. CASE e = d
      BY <2>1, <3>1, OrderHandle
    <3>2. CASE e # d
      <4>1. uevents'[d] = uevents[d] /\ handler'[d] = handler[d] /\ queue' = queue
        BY <1>1, <2>1, <3>2 DEF Handle, TypeOK
      <4>2. \A n \in Plugs : Heard(d, n)' => Heard(d, n)
        BY <4>1 DEF Heard, Files
      <4> QED
        BY <1>1, <2>0, <4>1, <4>2, OrderFrame
    <3> QED
      BY <3>1, <3>2
  <2>2. CASE MakeFile(e)
    <3>1. handler' = [handler EXCEPT ![e] = <<"write", handler[e][2]>>]
          /\ handler[e] # <<>> /\ queue' = queue \cup {<<e, handler[e][2], FALSE>>}
          /\ uevents' = uevents
      BY <2>2 DEF MakeFile
    <3>2. handler'[d] = handler[d] \/ handler'[d][1] # "remove"
      BY <1>1, <3>1 DEF TypeOK
    <3>3. ASSUME NEW n \in Plugs, Heard(d, n)' PROVE Heard(d, n)
      <4>1. CASE \E f \in Files(d)' : f[2] = n
        <5>1. PICK f \in queue' : f[1] = d /\ f[2] = n
          BY <4>1 DEF Files
        <5>2. <<e, handler[e][2], FALSE>>[1] = e /\ <<e, handler[e][2], FALSE>>[2] = handler[e][2]
          OBVIOUS
        <5> QED
          BY <3>1, <5>1, <5>2 DEF Heard, Files
      <4>2. CASE handler'[d] # <<>> /\ handler'[d][2] = n
        BY <1>1, <3>1, <4>2 DEF Heard, TypeOK
      <4> QED
        BY <3>3, <4>1, <4>2 DEF Heard
    <3> QED
      BY <1>1, <2>0, <3>1, <3>2, <3>3, OrderFrame
  <2>3. CASE WriteFile(e)
    <3>1. handler' = [handler EXCEPT ![e] = <<>>] /\ handler[e] # <<>> /\ uevents' = uevents
          /\ queue' \subseteq queue \cup {<<e, handler[e][2], TRUE>>}
      BY <2>3 DEF WriteFile, Finish
    <3>2. handler'[d] = handler[d] \/ handler'[d] = <<>>
      BY <1>1, <3>1 DEF TypeOK
    <3>3. ASSUME NEW n \in Plugs, Heard(d, n)' PROVE Heard(d, n)
      <4>1. CASE \E f \in Files(d)' : f[2] = n
        <5>1. PICK f \in queue' : f[1] = d /\ f[2] = n
          BY <4>1 DEF Files
        <5>2. <<e, handler[e][2], TRUE>>[1] = e /\ <<e, handler[e][2], TRUE>>[2] = handler[e][2]
          OBVIOUS
        <5> QED
          BY <3>1, <5>1, <5>2 DEF Heard, Files
      <4>2. CASE handler'[d] # <<>> /\ handler'[d][2] = n
        BY <3>2, <4>2 DEF Heard
      <4> QED
        BY <3>3, <4>1, <4>2 DEF Heard
    <3> QED
      BY <1>1, <2>0, <3>1, <3>2, <3>3, OrderFrame
  <2>4. CASE Forget(e)
    <3>1. handler' = [handler EXCEPT ![e] = <<>>] /\ queue' \subseteq queue /\ uevents' = uevents
      BY <2>4 DEF Forget, Finish
    <3>2. handler'[d] = handler[d] \/ handler'[d] = <<>>
      BY <1>1, <3>1 DEF TypeOK
    <3>3. \A n \in Plugs : Heard(d, n)' => Heard(d, n)
      BY <3>1, <3>2 DEF Heard, Files
    <3> QED
      BY <1>1, <2>0, <3>1, <3>2, <3>3, OrderFrame
  <2> QED
    BY <1>7, <2>1, <2>2, <2>3, <2>4 DEF Udev
<1>8. CASE UNCHANGED vars
  BY <1>2, <1>8 DEF vars, udev
<1> QED
  BY <1>2, <1>3, <1>4, <1>5, <1>6, <1>7, <1>8 DEF Next, User

LEMMA QPreserved == QInv /\ [Next]_vars => QInv'
  BY Preserved, StepList, StepOrder DEF QInv

-----------------------------------------------------------------------------
(* A drive that is there is on its way.                                    *)

\* What a step passes over, it has marked.
LEMMA Unmissed ==
  ASSUME NEW d \in Drive, NEW e \in Drive, NEW lost, Miss(e, lost), d \notin missed'
  PROVE  d \notin missed /\ ~(e = d /\ lost /\ Here(d))
  BY DEF Miss

\* A step that changes no mount, event or handler of a drive, nor its file or its detect.
LEMMA WayFrame ==
  ASSUME NEW d \in Drive, OnItsWay(d), Nth(d)' = Nth(d), mount'[d] = mount[d],
         uevents'[d] = uevents[d], handler'[d] = handler[d],
         HasFile(d) => HasFile(d)', Detected(d) => Detected(d)'
  PROVE  OnItsWay(d)'
  BY DEF OnItsWay, HasEvent

LEMMA DetectGrows ==
  ASSUME NEW d \in Drive, Nth(d)' = Nth(d), jobs \subseteq jobs', Detected(d)
  PROVE  Detected(d)'
  BY DEF Detected, Locked

LEMMA DetectElse ==
  ASSUME NEW d \in Drive, Nth(d)' = Nth(d), Detected(d), NEW job \in jobs,
         jobs \ {job} \subseteq jobs', job[1] # "detect" \/ job[2] # d
  PROVE  Detected(d)'
<1>1. PICK r \in jobs : r[1] = "detect" /\ r[2] = d /\ (r[3] = Nth(d) \/ Locked(r))
  BY DEF Detected
<1>2. r \in jobs'
  BY <1>1
<1> QED
  BY <1>1, <1>2 DEF Detected, Locked

LEMMA WayPlug ==
  ASSUME FInv, NEW k \in Disk, Plug(k) \/ Unplug(k), NEW d \in Drive, Here(d)', d \notin missed'
  PROVE  OnItsWay(d)'
<1>1. TypeOK
  BY DEF FInv, QInv, IInv
<1>2. CASE Parent[d] = k
  <2>1. Plug(k)
    BY <1>2 DEF Unplug, Here
  <2>2. plug[k] + 1 \in Plugs
    <3>1. plug[k] \in Plugs \cup {0} /\ MaxPlugs[k] \in Nat
      BY <1>1, HotplugAssumption DEF TypeOK
    <3>2. plug[k] + 1 \in 1 .. MaxPlugs[k]
      BY <2>1, <3>1, Numbers DEF Plug
    <3> QED
      BY <3>2 DEF Plugs
  <2>3. <<"detect", plug[k] + 1>> \in Event /\ Send(k, <<"detect", plug[k] + 1>>)
    BY <2>1, <2>2 DEF Event, Plug
  <2>4. \E i \in DOMAIN uevents'[d] : uevents'[d][i] = <<"detect", plug[k] + 1>>
    BY <1>1, <1>2, <2>3, Sent
  <2>5. Nth(d)' = plug[k] + 1
    BY <1>1, <1>2, <2>1 DEF Plug, Nth, TypeOK
  <2> QED
    BY <2>4, <2>5 DEF OnItsWay, HasEvent
<1>3. CASE Parent[d] # k
  <2>1. Nth(d)' = Nth(d) /\ Here(d) /\ d \notin missed
    <3>1. plug'[Parent[d]] = plug[Parent[d]] /\ Parent[d] \in there
      BY <1>1, <1>3, Kinds DEF Plug, Unplug, TypeOK, Here
    <3>2. d \notin missed
      BY <1>3 DEF Plug, Unplug, Drives
    <3> QED
      BY <3>1, <3>2 DEF Nth, Here
  <2>2. uevents'[d] = uevents[d]
    BY <1>3 DEF Plug, Unplug, Send
  <2>3. UNCHANGED <<mount, handler, queue, jobs, share, list>>
    BY DEF Plug, Unplug, boot
  <2> QED
    BY <2>1, <2>2, <2>3, WayFrame DEF FInv, Followed, HasFile, Detected, Locked
<1> QED
  BY <1>2, <1>3

LEMMA WayHandle ==
  ASSUME FInv, NEW e \in Drive, Handle(e), NEW d \in Drive, Here(d), d \notin missed
  PROVE  OnItsWay(d)'
<1>1. TypeOK /\ OnItsWay(d)
  BY DEF FInv, QInv, IInv, Followed
<1>2. Nth(d)' = Nth(d) /\ UNCHANGED <<mount, queue, share, list>>
  BY DEF Handle, user, boot, Nth
<1>3. jobs \subseteq jobs' /\ (Detected(d) => Detected(d)')
  <2>1. jobs \subseteq jobs'
    BY DEF Handle, Manage
  <2> QED
    BY <1>2, <2>1, DetectGrows
<1>4. CASE e # d
  <2>1. uevents'[d] = uevents[d] /\ handler'[d] = handler[d]
    BY <1>1, <1>4 DEF Handle, TypeOK
  <2> QED
    BY <1>1, <1>2, <1>3, <2>1, WayFrame DEF HasFile
<1>5. CASE e = d
  <2> DEFINE event == Head(uevents[d])
  <2>1. uevents[d] \in Seq(Event) /\ uevents[d] # <<>> /\ uevents'[d] = Tail(uevents[d])
    BY <1>1, <1>5 DEF Handle, TypeOK
  <2>2. handler[d] = <<>> /\ (handler'[d] = <<>> \/ handler'[d] = event)
    BY <1>1, <1>5 DEF Handle, TypeOK
  <2>3. CASE HasEvent(d)
    <3>1. PICK i \in DOMAIN uevents[d] : uevents[d][i] = <<"detect", Nth(d)>>
      BY <2>3 DEF HasEvent
    <3>2. CASE uevents[d][i] # event
      <4>1. i - 1 \in DOMAIN Tail(uevents[d]) /\ Tail(uevents[d])[i - 1] = uevents[d][i]
        BY <2>1, <3>1, <3>2, Taken
      <4> QED
        BY <1>2, <2>1, <3>1, <4>1 DEF OnItsWay, HasEvent
    <3>3. CASE uevents[d][i] = event /\ ready
      <4>1. <<"detect", d, Nth(d), "flag">> \in jobs'
        BY <1>5, <3>1, <3>3 DEF Handle, Manage
      <4> QED
        BY <1>2, <4>1 DEF OnItsWay, Detected
    <3>4. CASE uevents[d][i] = event /\ ~ready
      <4>1. handler'[d] = <<"detect", Nth(d)>>
        BY <1>1, <1>5, <3>1, <3>4 DEF Handle, TypeOK
      <4> QED
        BY <1>2, <4>1 DEF OnItsWay
    <3> QED
      BY <3>2, <3>3, <3>4
  <2>4. CASE HasFile(d)
    <3>1. HasFile(d)'
      BY <1>2, <2>2, <2>4 DEF HasFile
    <3> QED
      BY <3>1 DEF OnItsWay
  <2> QED
    BY <1>1, <1>2, <1>3, <2>2, <2>3, <2>4 DEF OnItsWay
<1> QED
  BY <1>4, <1>5

LEMMA WayFile ==
  ASSUME FInv, NEW e \in Drive, MakeFile(e) \/ WriteFile(e),
         NEW d \in Drive, Here(d), d \notin missed'
  PROVE  OnItsWay(d)'
<1> DEFINE n == handler[e][2]
<1>1. TypeOK
  BY DEF FInv, QInv, IInv
<1>2. Nth(d)' = Nth(d) /\ UNCHANGED <<mount, uevents, jobs, share, list>>
  BY DEF MakeFile, WriteFile, user, boot, Nth
<1>3. d \notin missed /\ (MakeFile(e) /\ e = d => n # Nth(d) \/ share = "list")
  BY Unmissed DEF MakeFile, WriteFile
<1>4. OnItsWay(d)
  BY <1>3 DEF FInv, Followed
<1>6. HasFile(d) => HasFile(d)'
  <2> SUFFICES ASSUME HasFile(d) PROVE HasFile(d)'
    OBVIOUS
  <2>1. CASE <<d, Nth(d), TRUE>> \in queue
    <3>1. <<d, Nth(d), TRUE>> \in queue'
      <4>1. <<d, Nth(d), TRUE>> # <<e, n, FALSE>>
        OBVIOUS
      <4> QED
        BY <2>1, <4>1 DEF MakeFile, WriteFile
    <3> QED
      BY <1>2, <3>1 DEF HasFile
  <2>2. CASE <<d, Nth(d), FALSE>> \in queue /\ handler[d] = <<"write", Nth(d)>>
    <3>1. CASE e = d
      <4>1. WriteFile(d) /\ n = Nth(d)
        <5>1. handler[d][1] = "write" /\ handler[d][2] = Nth(d)
          BY <2>2
        <5> QED
          BY <3>1, <5>1 DEF MakeFile
      <4>2. <<d, Nth(d), TRUE>> \in queue'
        BY <2>2, <3>1, <4>1 DEF WriteFile
      <4> QED
        BY <1>2, <4>2 DEF HasFile
    <3>2. CASE e # d
      <4>1. handler'[d] = handler[d]
        BY <1>1, <3>2 DEF MakeFile, WriteFile, Finish, TypeOK
      <4>2. <<d, Nth(d), FALSE>> # <<e, n, FALSE>>
        BY <3>2
      <4>3. <<d, Nth(d), FALSE>> \in queue'
        BY <2>2, <4>2 DEF MakeFile, WriteFile
      <4> QED
        BY <1>2, <2>2, <4>1, <4>3 DEF HasFile
    <3> QED
      BY <3>1, <3>2
  <2> QED
    BY <2>1, <2>2 DEF HasFile
<1>7. Detected(d) => Detected(d)'
  BY <1>2, DetectGrows
<1>8. CASE handler[d] = <<"detect", Nth(d)>>
  <2>1. CASE e = d
    <3>1. MakeFile(d) /\ n = Nth(d) /\ share = "list"
      <4>1. handler[d][1] = "detect" /\ handler[d][2] = Nth(d)
        BY <1>8
      <4> QED
        BY <1>3, <2>1, <4>1 DEF WriteFile
    <3>2. handler'[d] = <<"write", Nth(d)>> /\ <<d, Nth(d), FALSE>> \in queue'
      BY <1>1, <2>1, <3>1 DEF MakeFile, TypeOK
    <3> QED
      BY <1>2, <3>1, <3>2 DEF OnItsWay, HasFile
  <2>2. CASE e # d
    <3>1. handler'[d] = handler[d]
      BY <1>1, <2>2 DEF MakeFile, WriteFile, Finish, TypeOK
    <3> QED
      BY <1>2, <1>8, <3>1 DEF OnItsWay
  <2> QED
    BY <2>1, <2>2
<1> QED
  BY <1>2, <1>4, <1>6, <1>7, <1>8 DEF OnItsWay, HasEvent

\* A removal of an earlier plug forgets files of earlier plugs.
LEMMA WayForget ==
  ASSUME FInv, NEW e \in Drive, Forget(e), NEW d \in Drive, Here(d), d \notin missed
  PROVE  OnItsWay(d)'
<1>1. TypeOK /\ OnItsWay(d) /\ InOrder(d)
  BY DEF FInv, QInv, IInv, Followed
<1>2. Nth(d)' = Nth(d) /\ UNCHANGED <<mount, uevents, share, list>>
  BY DEF Forget, user, boot, Nth
<1>3. Detected(d) => Detected(d)'
  <2>1. jobs \subseteq jobs'
    BY DEF Forget, Manage
  <2> QED
    BY <1>2, <2>1, DetectGrows
<1>4. CASE e = d
  <2>1. handler[d] # <<>> /\ handler[d][1] = "remove"
    BY <1>4 DEF Forget
  <2>2. uevents[d] # <<>> /\ Unqueued(d)
    BY <1>1, <2>1 DEF InOrder
  <2>3. Len(uevents[d]) \in DOMAIN uevents[d]
    BY <1>1, <2>2, EmptySeq, LenProperties DEF TypeOK
  <2> QED
    BY <1>2, <2>2, <2>3 DEF OnItsWay, HasEvent, Unqueued
<1>5. CASE e # d
  <2>1. handler'[d] = handler[d]
    BY <1>1, <1>5 DEF Forget, Finish, TypeOK
  <2>2. \A b \in BOOLEAN : <<d, Nth(d), b>> \in queue => <<d, Nth(d), b>> \in queue'
    <3>1. \A b \in BOOLEAN : <<d, Nth(d), b>>[1] = d
      OBVIOUS
    <3> QED
      BY <1>5, <3>1 DEF Forget, Files
  <2>3. HasFile(d) => HasFile(d)'
    BY <1>2, <2>1, <2>2 DEF HasFile
  <2> QED
    BY <1>1, <1>2, <1>3, <2>1, <2>3, WayFrame
<1> QED
  BY <1>4, <1>5

LEMMA WayShare ==
  ASSUME FInv, Share, NEW d \in Drive, Here(d), d \notin missed'
  PROVE  OnItsWay(d)'
<1>1. TypeOK /\ ListKnown
  BY DEF FInv, QInv, IInv
<1>2. Nth(d)' = Nth(d) /\ UNCHANGED <<mount, uevents, handler>>
  BY DEF Share, List, Ready, Read, Remove, user, udev, Nth
<1>3. Detected(d) => Detected(d)'
  <2>1. jobs \subseteq jobs'
    BY DEF Share, List, Ready, Read, Remove, Manage
  <2> QED
    BY <1>2, <2>1, DetectGrows
<1>4. ASSUME d \notin missed, HasFile(d) => HasFile(d)' PROVE OnItsWay(d)'
  BY <1>2, <1>3, <1>4, WayFrame DEF FInv, Followed
<1>5. CASE List
  <2>1. ASSUME NEW b \in BOOLEAN, <<d, Nth(d), b>> \in queue PROVE <<d, Nth(d)>> \in list'
    <3>1. <<d, Nth(d), b>>[1] = d /\ <<d, Nth(d), b>>[2] = Nth(d)
      OBVIOUS
    <3> QED
      BY <1>5, <2>1, <3>1 DEF List
  <2>2. HasFile(d) => HasFile(d)'
    BY <1>2, <1>5, <2>1 DEF HasFile, List
  <2> QED
    BY <1>4, <1>5, <2>2 DEF List
<1>6. CASE Ready
  <2>1. HasFile(d) => HasFile(d)'
    BY <1>6 DEF HasFile, Ready
  <2> QED
    BY <1>4, <1>6, <2>1 DEF Ready
<1>7. ASSUME NEW f \in list, Read(f) PROVE OnItsWay(d)'
  <2>1. f[1] \in Drive /\ f[2] \in Plugs /\ f = <<f[1], f[2]>>
    BY <1>1 DEF TypeOK, File
  <2>2. CASE f # <<d, Nth(d)>>
    <3>1. d \notin missed
      BY <1>7, <2>1, Unmissed DEF Read
    <3>2. HasFile(d) => HasFile(d)'
      BY <1>2, <1>7, <2>2 DEF HasFile, Read
    <3> QED
      BY <1>4, <3>1, <3>2
  <2>3. CASE f = <<d, Nth(d)>>
    <3>1. f[1] = d /\ f[2] = Nth(d)
      BY <2>3
    <3>2. CASE <<d, Nth(d), TRUE>> \in queue
      <4>1. <<"detect", d, Nth(d), "flag">> \in jobs'
        BY <1>7, <3>1, <3>2 DEF Read, Manage
      <4> QED
        BY <1>2, <4>1 DEF OnItsWay, Detected
    <3>3. CASE <<d, Nth(d), TRUE>> \notin queue
      BY <1>7, <3>1, <3>3, Unmissed DEF Read
    <3> QED
      BY <3>2, <3>3
  <2> QED
    BY <2>2, <2>3
<1>8. ASSUME NEW f \in current, Remove(f) PROVE OnItsWay(d)'
  <2>1. HasFile(d) => <<d, Nth(d)>> \in list /\ <<d, Nth(d)>> # f
    BY <1>1, <1>8 DEF HasFile, Remove, ListKnown
  <2>2. ASSUME NEW b \in BOOLEAN, <<d, Nth(d), b>> \in queue, <<d, Nth(d)>> # f
        PROVE  <<d, Nth(d), b>> \in queue'
    <3>1. <<d, Nth(d), b>>[1] = d /\ <<d, Nth(d), b>>[2] = Nth(d)
      OBVIOUS
    <3> QED
      BY <1>8, <2>2, <3>1 DEF Remove
  <2>3. HasFile(d) => HasFile(d)'
    BY <1>2, <1>8, <2>1, <2>2 DEF HasFile, Remove
  <2> QED
    BY <1>4, <1>8, <2>3 DEF Remove
<1> QED
  BY <1>5, <1>6, <1>7, <1>8 DEF Share

\* A manager that ends without the drive leaves it to another, or has marked it.
LEMMA WayWork ==
  ASSUME FInv, NEW job \in jobs, Work(job), NEW d \in Drive, Here(d), d \notin missed'
  PROVE  OnItsWay(d)'
<1>1. /\ TypeOK /\ job[2] \in Drive /\ job[3] \in Plugs
      /\ job = <<job[1], job[2], job[3], job[4]>>
  BY JobKind DEF FInv, QInv, IInv
<1>2. Nth(d)' = Nth(d) /\ UNCHANGED <<uevents, handler, queue, share, list>>
  BY DEF Work, Flag, Lock, Look, Mount, Keep, Find, Unmount, user, udev, boot, Nth
<1>3. d \notin missed
  BY <1>1, Unmissed DEF Work, Flag, Lock, Look, Mount, Keep, Find, Unmount
<1>4. OnItsWay(d) /\ (HasFile(d) => HasFile(d)')
  BY <1>2, <1>3 DEF FInv, Followed, HasFile
<1>5. jobs \ {job} \subseteq jobs'
  <2>1. Step(job, {}) \/ \E stage \in Stage : Then(job, stage)
    BY DEF Work, Flag, Lock, Look, Mount, Keep, Find, Unmount, Stage
  <2> QED
    BY <1>1, <2>1, Going DEF Step
<1>6. CASE job[2] # d
  <2>1. mount'[d] = mount[d]
    BY <1>1, <1>6 DEF Work, Flag, Lock, Look, Mount, Keep, Find, Unmount, TypeOK
  <2> QED
    BY <1>2, <1>4, <1>5, <1>6, <2>1, DetectElse, WayFrame
<1>7. CASE job[2] = d /\ (Find(job) \/ Unmount(job))
  <2>1. job[1] # "detect"
    BY <1>7 DEF Find, Unmount, At
  <2>2. Detected(d) => Detected(d)'
    BY <1>2, <1>5, <2>1, DetectElse
  <2>3. mount[d] = Nth(d) => mount'[d] = Nth(d)
    BY <1>3, <1>7, Unmissed DEF Find, Unmount
  <2> QED
    BY <1>2, <1>4, <2>2, <2>3 DEF OnItsWay, HasEvent
<1>8. CASE job[2] = d /\ (Flag(job) \/ Lock(job) \/ Look(job))
  <2>1. mount' = mount /\ job[1] = "detect"
    BY <1>8 DEF Flag, Lock, Look, At
  <2>2. ASSUME NEW stage \in Stage, Then(job, stage), Locked(job) => stage \in {"mount", "keep"}
        PROVE  OnItsWay(d)'
    <3>1. <<"detect", d, job[3], stage>> \in jobs'
      BY <1>1, <1>8, <2>1, <2>2, Going
    <3>2. Detected(d) => Detected(d)'
      <4> SUFFICES ASSUME Detected(d) PROVE Detected(d)'
        OBVIOUS
      <4>1. PICK r \in jobs : r[1] = "detect" /\ r[2] = d /\ (r[3] = Nth(d) \/ Locked(r))
        BY DEF Detected
      <4>2. CASE r = job
        BY <1>2, <2>2, <3>1, <4>1, <4>2 DEF Detected, Locked
      <4>3. CASE r # job
        BY <1>2, <1>5, <4>1, <4>3 DEF Detected, Locked
      <4> QED
        BY <4>2, <4>3
    <3> QED
      BY <1>2, <1>4, <2>1, <3>2, WayFrame
  <2>3. CASE Flag(job) /\ Parent[d] \in pending
    <3>1. mount[d] = Nth(d) \/ job[3] # Nth(d)
      BY <1>3, <1>8, <2>3, Unmissed DEF Flag
    <3>2. CASE mount[d] = Nth(d)
      BY <1>2, <2>1, <3>2 DEF OnItsWay
    <3>3. CASE job[3] # Nth(d)
      <4>1. Detected(d) => Detected(d)'
        <5> SUFFICES ASSUME Detected(d) PROVE Detected(d)'
          OBVIOUS
        <5>1. PICK r \in jobs : r[1] = "detect" /\ r[2] = d /\ (r[3] = Nth(d) \/ Locked(r))
          BY DEF Detected
        <5>2. r # job
          BY <2>3, <3>3, <5>1 DEF Flag, At, Locked
        <5> QED
          BY <1>2, <1>5, <5>1, <5>2 DEF Detected, Locked
      <4> QED
        BY <1>2, <1>4, <2>1, <4>1, WayFrame
    <3> QED
      BY <3>1, <3>2, <3>3
  <2>4. CASE Flag(job) /\ Parent[d] \notin pending
    <3>1. Then(job, "lock") /\ ~Locked(job)
      BY <1>8, <2>4 DEF Flag, At, Locked
    <3> QED
      BY <2>2, <3>1 DEF Stage
  <2>5. CASE Lock(job)
    <3>1. CASE \E other \in jobs : other[2] = d /\ Locked(other)
      <4>1. PICK other \in jobs : other[2] = d /\ Locked(other)
        BY <3>1
      <4>2. other \in jobs'
        BY <1>5, <2>5, <4>1 DEF Lock, At, Locked
      <4> QED
        BY <4>1, <4>2 DEF OnItsWay, Detected, Locked
    <3>2. CASE ~\E other \in jobs : other[2] = d /\ Locked(other)
      <4>1. Then(job, "look") /\ ~Locked(job)
        BY <1>8, <2>5, <3>2 DEF Lock, At, Locked
      <4> QED
        BY <2>2, <4>1 DEF Stage
    <3> QED
      BY <3>1, <3>2
  <2>6. CASE Look(job)
    BY <2>2, <2>6 DEF Look, Stage
  <2> QED
    BY <1>8, <2>3, <2>4, <2>5, <2>6
<1>9. CASE job[2] = d /\ Mount(job)
  <2>1. mount'[d] = Nth(d)
    BY <1>1, <1>3, <1>9, Unmissed DEF Mount, TypeOK
  <2> QED
    BY <1>2, <2>1 DEF OnItsWay
<1>10. CASE job[2] = d /\ Keep(job)
  <2>1. mount'[d] = Nth(d)
    BY <1>3, <1>10, Unmissed DEF Keep
  <2> QED
    BY <1>2, <2>1 DEF OnItsWay
<1> QED
  BY <1>6, <1>7, <1>8, <1>9, <1>10 DEF Work

LEMMA WayAnswer ==
  ASSUME FInv, NEW k \in Disk, ClearFlag(k) \/ Merge(k) \/ Ignore(k),
         NEW d \in Drive, Here(d), d \notin missed'
  PROVE  OnItsWay(d)'
<1>1. Nth(d)' = Nth(d) /\ UNCHANGED <<mount, uevents, handler, queue, share, list>>
  BY DEF ClearFlag, Merge, Ignore, user, udev, boot, Nth
<1>2. CASE d \notin missed
  <2>1. Detected(d) => Detected(d)'
    <3>1. jobs \subseteq jobs'
      BY DEF ClearFlag, Merge, Ignore
    <3> QED
      BY <1>1, <3>1, DetectGrows
  <2>2. OnItsWay(d) /\ (HasFile(d) => HasFile(d)')
    BY <1>1, <1>2 DEF FInv, Followed, HasFile
  <2> QED
    BY <1>1, <2>1, <2>2, WayFrame
<1>3. CASE d \in missed
  <2>1. Ignore(k) /\ d \in Drives(k)
    BY <1>3 DEF ClearFlag, Merge, Ignore
  <2>2. <<"detect", d, Nth(d), "flag">> \in jobs'
    BY <2>1 DEF Ignore
  <2> QED
    BY <1>1, <2>2 DEF OnItsWay, Detected
<1> QED
  BY <1>2, <1>3

LEMMA StepFollowed == ASSUME FInv, [Next]_vars PROVE Followed'
<1> SUFFICES ASSUME NEW d \in Drive, Here(d)', d \notin missed' PROVE OnItsWay(d)'
  BY DEF Followed
<1>1. CASE Share
  BY <1>1, WayShare DEF Share, List, Ready, Read, Remove, user, Here
<1>2. ASSUME NEW job \in jobs, Work(job) PROVE OnItsWay(d)'
  <2>1. Here(d)
    BY <1>2 DEF Work, Flag, Lock, Look, Mount, Keep, Find, Unmount, user, Here
  <2> QED
    BY <1>2, <2>1, WayWork
<1>3. ASSUME NEW k \in Disk, Plug(k) \/ Unplug(k) PROVE OnItsWay(d)'
  BY <1>3, WayPlug
<1>4. ASSUME NEW k \in Disk, ClearFlag(k) \/ Merge(k) \/ Ignore(k) PROVE OnItsWay(d)'
  BY <1>4, WayAnswer DEF ClearFlag, Merge, Ignore, user, Here
<1>5. ASSUME NEW e \in Drive, Udev(e) PROVE OnItsWay(d)'
  <2>1. Here(d)
    BY <1>5 DEF Udev, Handle, MakeFile, WriteFile, Forget, user, Here
  <2>2. Handle(e) \/ Forget(e) => missed' = missed
    BY DEF Handle, Forget
  <2> QED
    BY <1>5, <2>1, <2>2, WayHandle, WayFile, WayForget DEF Udev
<1>6. CASE UNCHANGED vars
  <2>1. UNCHANGED <<plug, there, uevents, handler, queue, share, list, jobs, mount, missed>>
    BY <1>6 DEF vars, user, udev, boot
  <2>2. OnItsWay(d) /\ Nth(d)' = Nth(d)
    BY <2>1 DEF FInv, Followed, Here, Nth
  <2> QED
    BY <2>1, <2>2, WayFrame DEF HasFile, Detected, Locked
<1> QED
  BY <1>1, <1>2, <1>3, <1>4, <1>5, <1>6 DEF Next, User

(* For any number of disks, drives, plugs and managers: a drive that is    *)
(* there, and that no line named in Followed has passed over, is mounted   *)
(* since it came, or an event, a handler, a file or a detect still has it. *)
THEOREM Following == Spec => []Followed
<1>1. Init => FInv
  BY InitQInv DEF Init, FInv, Followed, Here
<1>2. FInv /\ [Next]_vars => FInv'
  BY QPreserved, StepFollowed DEF FInv
<1>3. FInv => Followed
  BY DEF FInv
<1> QED
  BY <1>1, <1>2, <1>3, PTL DEF Spec
=============================================================================
