------------------------------ MODULE OtaProofs ------------------------------
(* Theorems about the update of a device, for any number of upgrades at    *)
(* once, of releases, of runs and of power cuts; and, in the second half,  *)
(* of a device on which one upgrade runs at a time.                        *)
EXTENDS OtaUpgrade, TLAPS

USE DEF disk, share, ram, procs, hist

(* The actions of Next, grouped by the process that takes them.            *)
BootAction == \/ PowerOn \/ SkipImage \/ PromoteImage \/ DropOverlay
              \/ FillOverlay \/ MountRoot
SaveAction == SaveStart \/ SaveCreate \/ SaveMount \/ SaveRsync \/ SaveRo
FetchAction(u) == \/ Start(u) \/ OpenDownload(u) \/ EndDownload(u)
                  \/ Assemble(u) \/ FetchSum(u) \/ Verify(u) \/ Fail(u)
                  \/ Clean(u)
InstallAction(u) == \/ RemountRw(u) \/ Backup(u) \/ OpenArchive(u)
                    \/ \E m \in Members : BeginMember(u, m)
                    \/ EndMember(u) \/ Extracted(u) \/ ExtractFails(u)
                    \/ Sync(u) \/ Restore(u) \/ RemountRo(u)

LEMMA NextCases ==
  ASSUME Next
  PROVE  \/ BootAction \/ SaveAction \/ Reboot \/ PowerLoss
         \/ \E u \in Upgrader : FetchAction(u) \/ InstallAction(u)
         \/ \E r \in Release : CopyArchive(r)
  BY DEF Next, InitStep, SaveStep, UpgradeStep, BootAction, SaveAction,
     FetchAction, InstallAction

LEMMA InitIInv == Init => IInv
<1> SUFFICES ASSUME Init PROVE IInv
  OBVIOUS
<1> USE DEF Init
<1>1. TypeOK
  <2>1. Whole(Factory) \in File
    BY ReleaseAssumption DEF ReleaseAssumption, Whole, File, Content
  <2>2. NoFile \in Handle /\ NoJob \in Job
    BY ReleaseAssumption DEF ReleaseAssumption, NoFile, Handle, NoJob, Job
  <2>3. 0 \in 0 .. MaxRuns /\ 0 \in 0 .. MaxCuts
    BY BoundAssumption DEF BoundAssumption
  <2> QED
    BY <2>1, <2>2, <2>3 DEF TypeOK, SIMG
<1>2. RunningIffUp /\ Promoted /\ FilesHeld
  BY DEF RunningIffUp, Promoted, FilesHeld, NoFile, SIMG
<1> QED
  BY <1>1, <1>2 DEF IInv

-----------------------------------------------------------------------------
(* Type correctness, step by step.                                         *)

LEMMA TypeBoot == ASSUME IInv, BootAction PROVE TypeOK'
<1> USE DEF IInv, TypeOK
<1>1. CASE PowerOn
  BY <1>1 DEF PowerOn, SIMG
<1>2. CASE SkipImage
  BY <1>2 DEF SkipImage, NextImage, SIMG
<1>3. CASE PromoteImage
  BY <1>3 DEF PromoteImage
<1>4. CASE DropOverlay
  BY <1>4 DEF DropOverlay, NextImage, SIMG
<1>5. CASE FillOverlay
  BY <1>5 DEF FillOverlay
<1>6. CASE MountRoot
  BY <1>6 DEF MountRoot, File
<1> QED
  BY <1>1, <1>2, <1>3, <1>4, <1>5, <1>6 DEF BootAction

LEMMA UncleanTyped ==
  ASSUME NEW o \in [rel : Content, clean : BOOLEAN]
  PROVE  [o EXCEPT !.clean = FALSE] \in [rel : Content, clean : BOOLEAN]
  OBVIOUS

LEMMA TypeSave == ASSUME IInv, SaveAction PROVE TypeOK'
<1> USE DEF IInv, TypeOK
<1>0. boot = "up" => run.images["batocera"].rel \in Content
  BY DEF RunningIffUp, File, SIMG
<1>1. CASE SaveStart
  BY <1>1 DEF SaveStart
<1>2. CASE SaveCreate
  <2>0. [rel |-> run.images["batocera"].rel, clean |-> TRUE]
           \in [rel : Content, clean : BOOLEAN]
    BY <1>0, <1>2 DEF SaveCreate
  <2>1. overlay' \in [rel : Content, clean : BOOLEAN] \cup {None}
    BY <1>2, <2>0 DEF SaveCreate
  <2>2. saver' \in {"mount", "ro"}
    BY <1>2 DEF SaveCreate
  <2> QED
    BY <1>2, <2>1, <2>2 DEF SaveCreate
<1>3. CASE SaveMount
  <2>1. overlay \in [rel : Content, clean : BOOLEAN]
    BY <1>3 DEF SaveMount, FilesHeld
  <2>2. [overlay EXCEPT !.clean = FALSE] \in [rel : Content, clean : BOOLEAN]
    BY <2>1, UncleanTyped
  <2>3. overlay' \in [rel : Content, clean : BOOLEAN] \cup {None}
    BY <1>3, <2>1, <2>2 DEF SaveMount
  <2>4. saver' \in {"rsync", "ro"}
    BY <1>3 DEF SaveMount
  <2> QED
    BY <1>3, <2>3, <2>4 DEF SaveMount
<1>4. CASE SaveRsync
  BY <1>0, <1>4 DEF SaveRsync
<1>5. CASE SaveRo
  BY <1>5 DEF SaveRo
<1> QED
  BY <1>1, <1>2, <1>3, <1>4, <1>5 DEF SaveAction

LEMMA TypeStop == ASSUME IInv, Reboot \/ PowerLoss PROVE TypeOK'
<1> USE DEF IInv, TypeOK
<1>1. NoFile \in Handle /\ NoJob \in Job
  BY ReleaseAssumption DEF ReleaseAssumption, NoFile, Handle, NoJob, Job
<1>2. CASE Reboot
  BY <1>1, <1>2 DEF Reboot, Stop, SIMG
<1>3. CASE PowerLoss
  <2>1. cuts' \in 0 .. MaxCuts /\ cut' \subseteq {"extract", "conf"}
    BY <1>3, BoundAssumption DEF BoundAssumption, PowerLoss, Lost
  <2>2. /\ \A m, l : \A f \in File : Tear(f, m, l) \in File
        /\ \A m, l : \A f \in File \cup {None} : Tear(f, m, l) \in File \cup {None}
    BY DEF Tear, File
  <2>3. kernel' \in File /\ update' \in [SIMG -> File \cup {None}]
    BY <1>3, <2>2 DEF PowerLoss
  <2>4. bootconf' \in {"user", "stock", "torn"}
    BY <1>3 DEF PowerLoss
  <2> QED
    BY <1>1, <1>3, <2>1, <2>3, <2>4 DEF PowerLoss, Stop, SIMG
<1> QED
  BY <1>2, <1>3

LEMMA TypeUnlink ==
  ASSUME TypeOK, NEW u, NEW h \in Handle, NEW fs, fs \subseteq {"parts", "archive"},
         Unlink(u, h, fs)
  PROVE  handle' \in [Upgrader -> Handle]
<1>1. \A w \in Upgrader : handle[w] \in Handle
  BY DEF TypeOK
<1>2. ASSUME NEW w \in Upgrader, handle[w].at \in fs
      PROVE  [handle[w] EXCEPT !.at = "deleted", !.now = file[handle[w].at]] \in Handle
  <2>1. file[handle[w].at] \in File \cup {None}
    BY <1>2 DEF TypeOK
  <2> QED
    BY <1>1, <2>1 DEF Handle
<1> QED
  BY <1>1, <1>2 DEF Unlink

LEMMA TypeFetch ==
  ASSUME IInv, NEW u \in Upgrader, FetchAction(u) PROVE TypeOK'
<1> USE DEF IInv, TypeOK, Go, At
<1>1. NoFile \in Handle /\ NoJob \in Job
  BY ReleaseAssumption DEF ReleaseAssumption, NoFile, Handle, NoJob, Job
<1>2. CASE Start(u)
  BY <1>2, BoundAssumption DEF BoundAssumption, Start
<1>3. CASE OpenDownload(u)
  <2> DEFINE d == IF job[u].mode = "parts" THEN "parts" ELSE "archive"
             h == [NoFile EXCEPT !.at = d]
  <2>1. h \in Handle
    BY DEF NoFile, Handle
  <2>2. job[u].rel \in Release /\ Merge(u, d, job[u].rel) \in Content
    BY DEF Job, Merge, Content
  <2>3. file' \in [{"parts", "archive"} -> File \cup {None}]
    <3>1. Torn(job[u].rel) \in File /\ Torn(Merge(u, d, job[u].rel)) \in File
      BY <2>2 DEF Torn, File, Content
    <3> QED
      BY <1>3, <3>1 DEF OpenDownload
  <2>4. handle' \in [Upgrader -> Handle]
    <3>1. CASE d = "parts"
      <4>1. Unlink(u, h, DOMAIN file)
        BY <1>3, <3>1 DEF OpenDownload
      <4> QED
        BY <4>1, <2>1, TypeUnlink
    <3>2. CASE d # "parts"
      BY <1>3, <3>2, <2>1 DEF OpenDownload
    <3> QED
      BY <3>1, <3>2
  <2>5. /\ phase' = [phase EXCEPT ![u] = "download"]
        /\ UNCHANGED <<disk, md5, ram, bootfs, job, left, open, saver, hist>>
    BY <1>3 DEF OpenDownload
  <2> QED
    BY <2>3, <2>4, <2>5
<1>4. CASE EndDownload(u)
  <2> DEFINE f == handle[u].at
  <2>1. file' \in [{"parts", "archive"} -> File \cup {None}]
    <3>1. CASE f \in DOMAIN file /\ Others(u, f, "download") = {}
      <4>1. file' = [file EXCEPT ![f].whole = TRUE]
        BY <1>4, <3>1 DEF EndDownload
      <4>2. f \in {"parts", "archive"} /\ file[f] \in File
        BY <3>1 DEF FilesHeld
      <4> QED
        BY <4>1, <4>2 DEF File
    <3>2. CASE ~(f \in DOMAIN file /\ Others(u, f, "download") = {})
      BY <1>4, <3>2 DEF EndDownload
    <3> QED
      BY <3>1, <3>2
  <2> QED
    BY <1>1, <1>4, <2>1 DEF EndDownload
<1>5. CASE Assemble(u)
  <2>1. handle' \in [Upgrader -> Handle]
    BY <1>1, <1>5, TypeUnlink DEF Assemble
  <2> QED
    BY <1>5, <2>1 DEF Assemble
<1>6. CASE FetchSum(u)
  BY <1>6 DEF FetchSum, Job
<1>7. CASE Verify(u)
  BY <1>7 DEF Verify
<1>8. CASE Fail(u)
  BY <1>8 DEF Fail
<1>9. CASE Clean(u)
  <2>1. handle' \in [Upgrader -> Handle]
    BY <1>1, <1>9, TypeUnlink DEF Clean
  <2>2. /\ file' = [f \in DOMAIN file |-> None] /\ md5' = None
        /\ phase' = [phase EXCEPT ![u] = "idle"]
        /\ job' = [job EXCEPT ![u] = NoJob]
        /\ UNCHANGED <<disk, ram, bootfs, left, open, saver, hist>>
    BY <1>9 DEF Clean
  <2> QED
    BY <1>1, <2>1, <2>2
<1> QED
  BY <1>2, <1>3, <1>4, <1>5, <1>6, <1>7, <1>8, <1>9 DEF FetchAction

LEMMA TypeWrite ==
  ASSUME TypeOK, NEW m, NEW c \in File, NEW conf \in {"stock", "torn"},
         Write(m, c, conf)
  PROVE  /\ kernel' \in File /\ squash' \in [SIMG -> File]
         /\ update' \in [SIMG -> File \cup {None}]
         /\ overlay' \in [rel : Content, clean : BOOLEAN] \cup {None}
         /\ bootconf' \in {"user", "stock", "torn"}
         /\ backup' \in {"user", "stock", "torn", None}
  BY DEF TypeOK, Write

LEMMA TypeInstall ==
  ASSUME IInv, NEW u \in Upgrader, InstallAction(u) PROVE TypeOK'
<1> USE DEF IInv, TypeOK, Go, At
<1>1. CASE RemountRw(u)
  BY <1>1 DEF RemountRw
<1>2. CASE Backup(u)
  BY <1>2 DEF Backup
<1>3. CASE OpenArchive(u)
  <2>1. CASE file["archive"] = None
    BY <1>3, <2>1 DEF OpenArchive
  <2>2. CASE file["archive"] # None
    <3>1. [at |-> "archive", was |-> file["archive"], now |-> None] \in Handle
      BY DEF Handle
    <3> QED
      BY <1>3, <2>2, <3>1 DEF OpenArchive
  <2> QED
    BY <2>1, <2>2
<1>4. ASSUME NEW m \in Members, BeginMember(u, m) PROVE TypeOK'
  <2>1. Torn(Source(u).rel) \in File
    BY <1>4 DEF BeginMember, Torn, File, Content
  <2> QED
    BY <1>4, <2>1, TypeWrite DEF BeginMember
<1>5. CASE EndMember(u)
  <2>1. handle[u].was.rel \in Content
    BY <1>5 DEF EndMember, FilesHeld, Handle, File
  <2>2. Whole(handle[u].was.rel) \in File
    BY <2>1 DEF Whole, File
  <2>3. open[u] \in Members
    BY <1>5 DEF EndMember
  <2> QED
    BY <1>5, <2>2, <2>3, TypeWrite DEF EndMember
<1>6. CASE Extracted(u)
  BY <1>6 DEF Extracted, Handle
<1>7. CASE ExtractFails(u)
  <2>1. NoFile \in Handle
    BY DEF NoFile, Handle
  <2>2. cuts' \in 0 .. MaxCuts /\ cut' \subseteq {"extract", "conf"}
    BY <1>7, BoundAssumption DEF BoundAssumption, ExtractFails, Lost
  <2> QED
    BY <1>7, <2>1, <2>2 DEF ExtractFails
<1>8. CASE Sync(u)
  BY <1>8 DEF Sync
<1>9. CASE Restore(u)
  <2>1. CASE bootfs = "rw" /\ backup # None
    BY <1>9, <2>1 DEF Restore
  <2>2. CASE ~(bootfs = "rw" /\ backup # None)
    <3>1. cut' \subseteq {"extract", "conf"}
      BY <1>9, <2>2 DEF Restore, Lost
    <3> QED
      BY <1>9, <2>2, <3>1 DEF Restore
  <2> QED
    BY <2>1, <2>2
<1>10. CASE RemountRo(u)
  BY <1>10 DEF RemountRo
<1> QED
  BY <1>1, <1>2, <1>3, <1>4, <1>5, <1>6, <1>7, <1>8, <1>9, <1>10
  DEF InstallAction

LEMMA TypeStep == ASSUME IInv, [Next]_vars PROVE TypeOK'
<1>1. CASE Next
  <2>1. \A r \in Release : CopyArchive(r) => TypeOK'
    <3>1. \A r \in Release : Whole(r) \in File /\ Torn(r) \in File
      BY DEF Whole, Torn, File, Content
    <3> QED
      BY <3>1 DEF IInv, TypeOK, CopyArchive
  <2> QED
    BY <1>1, <2>1, NextCases, TypeBoot, TypeSave, TypeStop, TypeFetch, TypeInstall
<1>2. CASE UNCHANGED vars
  BY <1>2 DEF IInv, TypeOK, vars
<1> QED
  BY <1>1, <1>2

-----------------------------------------------------------------------------
(* What the promotion relies on.                                           *)

LEMMA UpOnly ==
  ASSUME \/ SaveAction \/ \E r \in Release : CopyArchive(r)
         \/ \E u \in Upgrader : FetchAction(u) \/ InstallAction(u)
  PROVE  boot = "up" /\ UNCHANGED <<boot, img, run>>
<1> USE DEF At
<1>1. CASE SaveAction
  BY <1>1 DEF SaveAction, SaveStart, SaveCreate, SaveMount, SaveRsync, SaveRo
<1>2. CASE \E r \in Release : CopyArchive(r)
  BY <1>2 DEF CopyArchive
<1>3. ASSUME NEW u \in Upgrader, FetchAction(u)
      PROVE  boot = "up" /\ UNCHANGED <<boot, img, run>>
  BY <1>3 DEF FetchAction, Start, OpenDownload, EndDownload, Assemble,
              FetchSum, Verify, Fail, Clean
<1>4. ASSUME NEW u \in Upgrader, InstallAction(u)
      PROVE  boot = "up" /\ UNCHANGED <<boot, img, run>>
  BY <1>4 DEF InstallAction, RemountRw, Backup, OpenArchive, BeginMember,
              EndMember, Extracted, ExtractFails, Sync, Restore, RemountRo
<1> QED
  BY <1>1, <1>2, <1>3, <1>4

LEMMA RunningStep == ASSUME IInv, [Next]_vars PROVE RunningIffUp'
<1> USE DEF RunningIffUp
<1>1. CASE BootAction
  <2>1. CASE MountRoot
    <3>1. [images |-> squash, kernel |-> kernel.rel] # None
      BY NoneAssumption DEF NoneAssumption, IInv, TypeOK, File
    <3> QED
      BY <2>1, <3>1 DEF MountRoot, IInv
  <2>2. CASE ~MountRoot
    BY <1>1, <2>2 DEF BootAction, PowerOn, SkipImage, PromoteImage, DropOverlay,
       FillOverlay, NextImage, IInv
  <2> QED
    BY <2>1, <2>2
<1>2. CASE Reboot \/ PowerLoss
  BY <1>2 DEF Reboot, PowerLoss, Stop
<1>3. CASE UNCHANGED vars
  BY <1>3 DEF vars, IInv
<1> QED
  BY <1>1, <1>2, <1>3, NextCases, UpOnly DEF IInv

LEMMA PromotedStep == ASSUME IInv, [Next]_vars PROVE Promoted'
<1> USE DEF Promoted
<1>1. CASE BootAction
  <2> USE DEF IInv, TypeOK, SIMG
  <2>1. CASE PowerOn
    BY <2>1 DEF PowerOn
  <2>2. CASE SkipImage
    BY <2>2 DEF SkipImage, NextImage
  <2>3. CASE PromoteImage
    BY <2>3 DEF PromoteImage
  <2>4. CASE DropOverlay
    BY <2>4 DEF DropOverlay, NextImage
  <2>5. CASE FillOverlay
    BY <2>5 DEF FillOverlay
  <2>6. CASE MountRoot
    BY <2>6 DEF MountRoot
  <2> QED
    BY <1>1, <2>1, <2>2, <2>3, <2>4, <2>5, <2>6 DEF BootAction
<1>2. CASE Reboot \/ PowerLoss
  BY <1>2 DEF Reboot, PowerLoss, Stop
<1>3. CASE UNCHANGED vars
  BY <1>3 DEF vars, IInv
<1> QED
  BY <1>1, <1>2, <1>3, NextCases, UpOnly DEF IInv

-----------------------------------------------------------------------------
(* What is read or written is there.                                       *)

LEMMA HeldUnlink ==
  ASSUME IInv, NEW u, NEW h \in Handle, h.at \notin {"parts", "archive", "deleted"},
         NEW fs, fs \subseteq {"parts", "archive"}, Unlink(u, h, fs),
         \A f \in {"parts", "archive"} \ fs : file[f] # None => file'[f] # None,
         NEW v \in Upgrader, phase'[v] = "extract" => phase[v] = "extract" /\ v # u
  PROVE  /\ handle'[v].at \in {"parts", "archive"} => file'[handle'[v].at] # None
         /\ handle'[v].at = "deleted" => handle'[v].now # None
         /\ phase'[v] = "extract" => /\ handle'[v].at \in {"archive", "deleted"}
                                     /\ handle'[v].was # None
<1>1. /\ handle[v] \in Handle /\ handle'[v].at \in {"none", "parts", "archive", "deleted"}
      /\ handle[v].at \in {"parts", "archive"} => file[handle[v].at] # None
      /\ handle[v].at = "deleted" => handle[v].now # None
      /\ phase[v] = "extract" => handle[v].at \in {"archive", "deleted"} /\ handle[v].was # None
  BY TypeUnlink DEF IInv, TypeOK, FilesHeld, Handle
<1>2. CASE v = u
  BY <1>1, <1>2 DEF Unlink
<1>3. CASE v # u /\ handle[v].at \in fs
  <2>1. handle'[v] = [handle[v] EXCEPT !.at = "deleted", !.now = file[handle[v].at]]
    BY <1>3 DEF Unlink
  <2>2. /\ handle'[v].at = "deleted" /\ handle'[v].now = file[handle[v].at]
        /\ handle'[v].was = handle[v].was
    BY <1>1, <2>1 DEF Handle
  <2> QED
    BY <1>1, <1>3, <2>2
<1>4. CASE v # u /\ handle[v].at \notin fs
  <2>1. handle'[v] = handle[v]
    BY <1>4 DEF Unlink
  <2> QED
    BY <1>1, <1>4, <2>1
<1> QED
  BY <1>2, <1>3, <1>4

LEMMA HeldFetch ==
  ASSUME IInv, NEW u \in Upgrader, FetchAction(u) PROVE FilesHeld'
<1> USE DEF IInv, TypeOK, Go, At
<1>1. NoFile \in Handle /\ NoFile.at = "none"
  BY DEF NoFile, Handle
<1>2. /\ UNCHANGED <<saver, overlay>>
      /\ \A v \in Upgrader :
           phase'[v] = "extract" => phase[v] = "extract" /\ v # u
  BY DEF FetchAction, Start, OpenDownload, EndDownload, Assemble, FetchSum,
         Verify, Fail, Clean
<1>3. CASE Start(u) \/ FetchSum(u) \/ Verify(u) \/ Fail(u)
  BY <1>2, <1>3 DEF Start, FetchSum, Verify, Fail, FilesHeld
<1>4. CASE OpenDownload(u)
  <2> DEFINE d == IF job[u].mode = "parts" THEN "parts" ELSE "archive"
             h == [NoFile EXCEPT !.at = d]
  <2>1. Torn(job[u].rel) # None /\ Torn(Merge(u, d, job[u].rel)) # None
    <3>1. job[u].rel \in Content /\ Merge(u, d, job[u].rel) \in Content
      BY DEF Job, Merge, Content
    <3>2. \A r \in Content : Torn(r) \in [rel : Content, whole : BOOLEAN]
      BY DEF Torn
    <3> QED
      BY <3>1, <3>2, NoneAssumption DEF NoneAssumption
  <2>2. h.at = d /\ d \in {"parts", "archive"}
    BY DEF NoFile
  <2>3. CASE d = "parts"
    <3>1. /\ file' = [f \in DOMAIN file |->
                       IF f = "parts" THEN Torn(job[u].rel) ELSE None]
          /\ Unlink(u, h, DOMAIN file)
      BY <1>4, <2>3 DEF OpenDownload
    <3>2. file'["parts"] # None
      BY <2>1, <3>1
    <3>3. handle'[u] = h
      BY <3>1 DEF Unlink
    <3>4. ASSUME NEW v \in Upgrader, v # u, handle[v].at \in {"parts", "archive"}
          PROVE  /\ handle'[v].at = "deleted" /\ handle'[v].now # None
                 /\ handle'[v].was = handle[v].was
      <4>1. handle'[v] = [handle[v] EXCEPT !.at = "deleted", !.now = file[handle[v].at]]
        BY <3>1, <3>4 DEF Unlink
      <4>2. handle[v] \in Handle /\ file[handle[v].at] # None
        BY <3>4 DEF FilesHeld
      <4> HIDE DEF IInv, TypeOK, Go, At, d, h
      <4> QED
        BY <4>1, <4>2 DEF Handle
    <3>5. ASSUME NEW v \in Upgrader, v # u, handle[v].at \notin {"parts", "archive"}
          PROVE  handle'[v] = handle[v]
      BY <3>1, <3>5 DEF Unlink
    <3> DEFINE Held(v) ==
          /\ handle'[v].at \in {"parts", "archive"} => file'[handle'[v].at] # None
          /\ handle'[v].at = "deleted" => handle'[v].now # None
          /\ phase'[v] = "extract" => /\ handle'[v].at \in {"archive", "deleted"}
                                      /\ handle'[v].was # None
    <3>6. Held(u)
      BY <1>2, <2>2, <2>3, <3>2, <3>3
    <3>7. ASSUME NEW v \in Upgrader, v # u, handle[v].at \in {"parts", "archive"}
          PROVE  Held(v)
      BY <1>2, <3>4, <3>7 DEF FilesHeld
    <3>8. ASSUME NEW v \in Upgrader, v # u, handle[v].at \notin {"parts", "archive"}
          PROVE  Held(v)
      BY <1>2, <3>5, <3>8 DEF FilesHeld
    <3> HIDE DEF Held
    <3>9. \A v \in Upgrader : Held(v)
      BY <3>6, <3>7, <3>8
    <3> QED
      BY <1>2, <3>9 DEF Held, FilesHeld
  <2>4. CASE d # "parts"
    <3>1. /\ file' = [file EXCEPT ![d] = Torn(Merge(u, d, job[u].rel))]
          /\ handle' = [handle EXCEPT ![u] = h]
      BY <1>4, <2>4 DEF OpenDownload
    <3> QED
      BY <1>2, <2>1, <2>2, <2>4, <3>1 DEF FilesHeld, Handle
  <2> QED
    BY <2>3, <2>4
<1>5. CASE EndDownload(u)
  <2>1. \A f \in {"parts", "archive"} : file[f] # None => file'[f] # None
    <3> DEFINE f == handle[u].at
    <3>1. CASE f \in DOMAIN file /\ Others(u, f, "download") = {}
      <4>1. file' = [file EXCEPT ![f].whole = TRUE]
        BY <1>5, <3>1 DEF EndDownload
      <4>2. f \in {"parts", "archive"} /\ file[f] \in File
        BY <3>1 DEF FilesHeld
      <4>3. [file[f] EXCEPT !.whole = TRUE] # None
        BY <4>2, NoneAssumption DEF NoneAssumption, File
      <4> QED
        BY <4>1, <4>2, <4>3
    <3>2. CASE ~(f \in DOMAIN file /\ Others(u, f, "download") = {})
      BY <1>5, <3>2 DEF EndDownload
    <3> QED
      BY <3>1, <3>2
  <2>2. handle' = [handle EXCEPT ![u] = NoFile]
    BY <1>5 DEF EndDownload
  <2> QED
    BY <1>1, <1>2, <2>1, <2>2 DEF FilesHeld, Handle
<1>6. CASE Assemble(u)
  <2>1. CASE file["parts"] = None
    BY <1>2, <1>6, <2>1 DEF Assemble, FilesHeld
  <2>2. CASE file["parts"] # None
    <3>1. /\ file' = [parts |-> None, archive |-> file["parts"]]
          /\ Unlink(u, NoFile, {"parts"})
      BY <1>6, <2>2 DEF Assemble
    <3> QED
      BY <1>1, <1>2, <2>2, <3>1, HeldUnlink DEF FilesHeld
  <2> QED
    BY <2>1, <2>2
<1>7. CASE Clean(u)
  <2>1. Unlink(u, NoFile, {"parts", "archive"})
    BY <1>7 DEF Clean
  <2> QED
    BY <1>1, <1>2, <2>1, HeldUnlink DEF FilesHeld
<1> QED
  BY <1>3, <1>4, <1>5, <1>6, <1>7 DEF FetchAction

LEMMA HeldInstall ==
  ASSUME IInv, NEW u \in Upgrader, InstallAction(u) PROVE FilesHeld'
<1> USE DEF IInv, TypeOK, Go, At
<1>1. UNCHANGED <<file, saver, overlay>>
  BY DEF InstallAction, RemountRw, Backup, OpenArchive, BeginMember, EndMember,
         Extracted, ExtractFails, Sync, Restore, RemountRo, Write
<1>2. CASE OpenArchive(u)
  <2>1. CASE file["archive"] = None
    BY <1>1, <1>2, <2>1 DEF OpenArchive, FilesHeld
  <2>2. CASE file["archive"] # None
    BY <1>1, <1>2, <2>2 DEF OpenArchive, FilesHeld, Handle
  <2> QED
    BY <2>1, <2>2
<1>3. CASE Extracted(u) \/ ExtractFails(u)
  <2>1. /\ \A v \in Upgrader \ {u} : handle'[v] = handle[v] /\ phase'[v] = phase[v]
        /\ handle'[u].at = "none" /\ phase'[u] # "extract"
    BY <1>3 DEF Extracted, ExtractFails, Handle, NoFile
  <2> QED
    BY <1>1, <2>1 DEF FilesHeld
<1>4. CASE \/ RemountRw(u) \/ Backup(u) \/ Sync(u) \/ Restore(u) \/ RemountRo(u)
           \/ EndMember(u) \/ \E m \in Members : BeginMember(u, m)
  <2>1. /\ UNCHANGED handle
        /\ \A v \in Upgrader : phase'[v] = "extract" => phase[v] = "extract"
    BY <1>4 DEF RemountRw, Backup, Sync, Restore, RemountRo, EndMember, BeginMember
  <2> QED
    BY <1>1, <2>1 DEF FilesHeld
<1> QED
  BY <1>2, <1>3, <1>4 DEF InstallAction

LEMMA HeldStep == ASSUME IInv, [Next]_vars PROVE FilesHeld'
<1> USE DEF IInv, TypeOK
<1>1. CASE BootAction
  <2>1. boot # "up" /\ saver = "idle"
    BY <1>1 DEF BootAction, PowerOn, SkipImage, PromoteImage, DropOverlay,
       FillOverlay, MountRoot, RunningIffUp
  <2> QED
    BY <1>1, <2>1 DEF BootAction, PowerOn, SkipImage, PromoteImage, DropOverlay,
       FillOverlay, MountRoot, NextImage, FilesHeld
<1>2. CASE SaveAction
  <2>1. overlay \in [rel : Content, clean : BOOLEAN] =>
          [overlay EXCEPT !.clean = FALSE] # None
    BY NoneAssumption DEF NoneAssumption
  <2>2. boot = "up" => [rel |-> run.images["batocera"].rel, clean |-> TRUE] # None
    <3>1. boot = "up" => run.images["batocera"].rel \in Content
      BY DEF RunningIffUp, File, SIMG
    <3>2. \A r \in Content : [rel |-> r, clean |-> TRUE]
                             \in [rel : Content, clean : BOOLEAN]
      OBVIOUS
    <3> QED
      BY <3>1, <3>2, NoneAssumption DEF NoneAssumption
  <2>3. UNCHANGED <<file, handle, phase>>
    BY <1>2 DEF SaveAction, SaveStart, SaveCreate, SaveMount, SaveRsync, SaveRo
  <2>4. saver' \in {"mount", "rsync"} => overlay' # None
    BY <1>2, <2>1, <2>2
    DEF SaveAction, SaveStart, SaveCreate, SaveMount, SaveRsync, SaveRo, FilesHeld
  <2> QED
    BY <2>3, <2>4 DEF FilesHeld
<1>3. CASE Reboot \/ PowerLoss
  BY <1>3 DEF Reboot, PowerLoss, Stop, FilesHeld, NoFile
<1>4. ASSUME NEW r \in Release, CopyArchive(r) PROVE FilesHeld'
  <2>1. Whole(r) # None /\ Torn(r) # None
    <3>1. {Whole(r), Torn(r)} \subseteq [rel : Content, whole : BOOLEAN]
      BY DEF Whole, Torn, Content
    <3> QED
      BY <3>1, NoneAssumption DEF NoneAssumption
  <2> QED
    BY <1>4, <2>1 DEF CopyArchive, FilesHeld
<1>5. CASE UNCHANGED vars
  BY <1>5 DEF vars, FilesHeld
<1> QED
  BY <1>1, <1>2, <1>3, <1>4, <1>5, NextCases, HeldFetch, HeldInstall

(* The inductive invariant holds in every reachable state.                 *)
THEOREM Invariance == Spec => []IInv
<1>1. IInv /\ [Next]_vars => IInv'
  BY TypeStep, RunningStep, PromotedStep, HeldStep DEF IInv
<1> QED
  BY InitIInv, <1>1, PTL DEF Spec

(* Every variable keeps its type (OtaUpgrade.TypeOK).                      *)
THEOREM TypeCorrect == Spec => []TypeOK
<1>1. IInv => TypeOK
  BY DEF IInv
<1> QED
  BY Invariance, <1>1, PTL

-----------------------------------------------------------------------------
(* The boot is atomic: every step is a step of AtomicBoot or leaves what   *)
(* runs and what the next boot will run as they are.                       *)

Running == IF boot = "up" THEN run.images ELSE None

LEMMA ImagesTyped ==
  ASSUME IInv' PROVE NextImages' \in [SIMG -> File]
  BY DEF IInv, TypeOK, NextImages, Staged

LEMMA RunningTyped == IInv => (boot = "up" <=> Running # None)
<1>1. IInv /\ boot = "up" => run.images \in [SIMG -> File]
  BY DEF IInv, TypeOK, RunningIffUp
<1> QED
  BY <1>1, NoneAssumption DEF NoneAssumption, Running

LEMMA AtomicInit == Init => Atomic!Init
<1>1. Init => NextImages = [s \in SIMG |-> Whole(Factory)]
  BY DEF Init, NextImages, Staged
<1> QED
  BY <1>1 DEF Init, Atomic!Init

LEMMA AtomicBootStep ==
  ASSUME IInv, IInv', BootAction
  PROVE  Atomic!Boot \/ UNCHANGED <<NextImages, Running>>
<1> USE DEF IInv, TypeOK, RunningIffUp
<1>1. CASE PowerOn \/ SkipImage \/ FillOverlay
  BY <1>1 DEF PowerOn, SkipImage, NextImage, FillOverlay, NextImages, Staged, Running
<1>2. CASE DropOverlay
  BY <1>2 DEF DropOverlay, NextImage, NextImages, Staged, Running
<1>3. CASE PromoteImage
  <2>1. \A s \in SIMG : Staged(s)' = Staged(s)
    BY <1>3 DEF PromoteImage, Staged
  <2>2. UNCHANGED NextImages
    BY <2>1 DEF NextImages
  <2> QED
    BY <1>3, <2>2 DEF PromoteImage, Running
<1>4. CASE MountRoot
  <2>1. NextImages = squash /\ UNCHANGED NextImages
    BY <1>4 DEF MountRoot, Promoted, NextImages, Staged
  <2>2. CASE Bootable
    BY <1>4, <2>1, <2>2 DEF MountRoot, Bootable, Atomic!Boot, Running, IsWhole
  <2>3. CASE ~Bootable
    BY <1>4, <2>1, <2>3 DEF MountRoot, Running
  <2> QED
    BY <2>2, <2>3
<1> QED
  BY <1>1, <1>2, <1>3, <1>4 DEF BootAction

LEMMA AtomicDown ==
  ASSUME IInv, IInv', Reboot \/ PowerLoss PROVE Atomic!Down
<1> USE DEF IInv
<1>1. Running' = None
  BY DEF Reboot, PowerLoss, Stop, Running
<1>2. CASE Reboot
  <2>1. UNCHANGED NextImages
    BY <1>2 DEF Reboot, Stop, NextImages, Staged
  <2> QED
    BY <1>1, <2>1 DEF Atomic!Down, Running
<1>3. CASE PowerLoss
  <2>1. CASE boot = "up"
    <3>1. \A s \in SIMG : Staged(s)' \in Damaged(Staged(s))
      <4> SUFFICES ASSUME NEW s \in SIMG
                   PROVE  Staged(s)' \in Damaged(Staged(s))
        OBVIOUS
      <4>1. PICK lost \in SUBSET dirty :
              update' = [t \in SIMG |-> Tear(update[t], t, lost)]
        BY <1>3 DEF PowerLoss
      <4>2. squash' = squash
        BY <1>3 DEF PowerLoss, Stop
      <4>3. CASE update[s] = None
        BY <4>1, <4>2, <4>3 DEF Tear, Staged, Damaged
      <4>4. CASE update[s] # None
        <5>1. update[s] \in File /\ update'[s] \in Damaged(update[s])
          BY <4>1, <4>4 DEF TypeOK, Tear, Damaged
        <5>2. update'[s] # None
          BY <5>1, NoneAssumption DEF NoneAssumption, Damaged, File
        <5> QED
          BY <4>4, <5>1, <5>2 DEF Staged
      <4> QED
        BY <4>3, <4>4
    <3>2. \A s \in SIMG : NextImages'[s] \in Damaged(NextImages[s])
      BY <3>1 DEF NextImages
    <3>3. NextImages' \in [SIMG -> File]
      BY ImagesTyped
    <3>4. Running # None
      BY <2>1, RunningTyped
    <3> QED
      BY <1>1, <3>2, <3>3, <3>4 DEF Atomic!Down, Running
  <2>2. CASE boot # "up"
    <3>1. \A s \in SIMG : update'[s] = update[s]
      BY <1>3, <2>2 DEF PowerLoss, Tear, RunningIffUp
    <3>2. UNCHANGED NextImages
      BY <1>3, <3>1 DEF PowerLoss, Stop, NextImages, Staged
    <3> QED
      BY <1>1, <3>2 DEF Atomic!Down, Running
  <2> QED
    BY <2>1, <2>2
<1> QED
  BY <1>2, <1>3

LEMMA AtomicUp ==
  ASSUME IInv, IInv', boot = "up", UNCHANGED <<boot, run>>
  PROVE  Atomic!Install
<1>1. NextImages' \in [SIMG -> File]
  BY ImagesTyped
<1>2. Running # None
  BY RunningTyped
<1>3. UNCHANGED Running
  BY DEF Running
<1> QED
  BY <1>1, <1>2, <1>3 DEF Atomic!Install, Running

(* The images on /boot promise what AtomicBoot promises, whatever the      *)
(* number of concurrent upgrades and power cuts (OtaUpgrade.BootIsAtomic). *)
THEOREM Refinement == Spec => BootIsAtomic
<1>1. IInv /\ IInv' /\ [Next]_vars => [Atomic!Next]_<<NextImages, Running>>
  <2> SUFFICES ASSUME IInv, IInv', [Next]_vars
               PROVE  [Atomic!Next]_<<NextImages, Running>>
    OBVIOUS
  <2>1. CASE UNCHANGED vars
    BY <2>1 DEF vars, NextImages, Staged, Running
  <2>2. CASE Next
    BY <2>2, NextCases, AtomicBootStep, AtomicDown, AtomicUp, UpOnly
    DEF Atomic!Next
  <2> QED
    BY <2>1, <2>2
<1> QED
  BY AtomicInit, Invariance, <1>1, PTL DEF Spec, BootIsAtomic, Atomic!Spec, Running

-----------------------------------------------------------------------------
(* A whole update stays on the disk until it runs.                         *)

LEMMA KeptByBoot ==
  ASSUME IInv, BootAction, NEW r \in Release, OnDisk(r)
  PROVE  OnDisk(r)' \/ Runs(r)'
<1>1. UNCHANGED kernel
  BY DEF BootAction, PowerOn, SkipImage, PromoteImage, DropOverlay, FillOverlay, MountRoot
<1>2. CASE PowerOn \/ SkipImage \/ DropOverlay \/ FillOverlay
  BY <1>1, <1>2
  DEF PowerOn, SkipImage, DropOverlay, FillOverlay, NextImage, OnDisk, Staged
<1>3. CASE PromoteImage
  <2>1. \A s \in SIMG : Staged(s)' = Staged(s)
    BY <1>3 DEF PromoteImage, Staged, IInv, TypeOK
  <2> QED
    BY <1>1, <1>3, <2>1 DEF PromoteImage, OnDisk
<1>4. CASE MountRoot
  <2>1. \A s \in SIMG : squash[s] = Whole(r)
    BY <1>4 DEF MountRoot, IInv, Promoted, OnDisk, Staged
  <2>2. Bootable
    BY <2>1 DEF Bootable, OnDisk, Whole
  <2> QED
    BY <1>4, <2>1, <2>2 DEF MountRoot, Runs
<1> QED
  BY <1>2, <1>3, <1>4 DEF BootAction

\* While the device is down nothing is left to sync: a power cut tears nothing.
LEMMA KeptByPowerLoss ==
  ASSUME IInv, PowerLoss, NEW r \in Release, OnDisk(r)
  PROVE  OnDisk(r)'
<1>1. dirty = {}
  BY DEF OnDisk, IInv, RunningIffUp
<1>2. kernel' = kernel /\ \A s \in SIMG : update'[s] = update[s]
  BY <1>1 DEF PowerLoss, Tear
<1>3. squash' = squash /\ boot' = "off"
  BY DEF PowerLoss, Stop
<1> QED
  BY <1>2, <1>3 DEF OnDisk, Staged

(* Safety half of StagedRuns, with any number of upgrades: whatever init   *)
(* has promoted and however often the power fails, a whole update stays    *)
(* the one the next boot runs, and init never fails on it (init 64-120).   *)
THEOREM Promoting == Spec => StagedKept
<1>1. ASSUME IInv, Next, NEW r \in Release, OnDisk(r)
      PROVE  OnDisk(r)' \/ Runs(r)'
  <2>1. boot # "up"
    BY <1>1 DEF OnDisk
  <2>2. BootAction \/ PowerLoss
    BY <1>1, <2>1, NextCases, UpOnly DEF Reboot
  <2> QED
    BY <1>1, <2>2, KeptByBoot, KeptByPowerLoss
<1>2. IInv /\ [Next]_vars
      => [\A r \in Release : OnDisk(r) => OnDisk(r)' \/ Runs(r)']_vars
  BY <1>1
<1> QED
  BY <1>2, Invariance, PTL DEF Spec, StagedKept

-----------------------------------------------------------------------------
(* A device on which one upgrade runs at a time, which the code takes for  *)
(* granted and nothing enforces (batocera-upgrade has no lock): it boots,  *)
(* into one release, with the user's configuration and no overlay of       *)
(* another release, for any number of runs and interruptions.              *)

(* The assumption: of the processes that may run, there is one.            *)
One == \A u, v \in Upgrader : u = v

Extracting == \E u \in Upgrader : phase[u] = "extract"

(* Upgrades only run in a system that is up.                               *)
IdleWhenDown == boot # "up" => \A u \in Upgrader : phase[u] = "idle"

(* What an upgrade has unpacked is on /boot, whole and of one release.     *)
Installed(m, c) ==
  /\ m = "Image" => kernel = c
  /\ m \in SIMG => update[m] = c
Unpacked ==
  \A u \in Upgrader :
    /\ phase[u] = "extract" =>
         \A m \in Members \ left[u] : Installed(m, Whole(handle[u].was.rel))
    /\ phase[u] \in {"sync", "restore", "ro", "success"} =>
         \A m \in Members : Installed(m, Whole(handle[u].was.rel))
    /\ phase[u] = "extract" /\ open[u] # None => open[u] \in left[u]

(* Unless an extraction goes on or was interrupted since the last one that *)
(* ended, everything to boot is whole and of one release.                  *)
Sound ==
  /\ "extract" \notin cut /\ ~Extracting =>
       /\ kernel.whole
       /\ \A s \in SIMG : /\ squash[s].whole
                          /\ Staged(s).whole /\ Staged(s).rel = kernel.rel
  /\ boot = "up" => \A s \in SIMG : squash[s].whole
  /\ boot = "oops" => "extract" \in cut

(* Where the user's configuration is.                                      *)
ConfKnown ==
  "conf" \notin cut =>
    /\ \A u \in Upgrader :
         phase[u] \in {"open", "extract", "sync", "restore"} => backup = "user"
    /\ (\A u \in Upgrader : phase[u] \notin {"extract", "sync", "restore"})
         => bootconf = "user"

(* An overlay of another release is dropped before it is used: without an  *)
(* interruption by this image's promotion, after one by the other's.       *)
Stale == overlay # None /\ overlay.rel # squash["batocera"].rel
OverlayKnown ==
  /\ boot = "up" => run.images = squash
  /\ cuts = 0 /\ Stale => boot = "overlay" /\ img = "batocera"
  /\ cuts = 0 /\ boot = "overlay" /\ img = "batocera"
       => update["rufomaculata"] # None
  /\ cuts = 0 /\ ~Extracting /\ (boot = "promote" => img = "batocera")
     /\ boot # "overlay" /\ update["batocera"] # None
       => update["rufomaculata"] # None
  /\ cuts = 1 /\ Stale =>
       \/ boot = "overlay"
       \/ boot \in {"off", "promote"} /\ update["rufomaculata"] # None
  /\ cuts <= 1 /\ boot = "mount" => applied \in {None, squash["batocera"].rel}

OInv == IdleWhenDown /\ Unpacked /\ Sound /\ ConfKnown /\ OverlayKnown

-----------------------------------------------------------------------------
(* Steps of an upgrade that leave the boot files alone.                    *)

Delicate == {"open", "extract", "sync", "restore", "ro", "success"}

LEMMA QuietStep ==
  ASSUME One, OInv, IInv, NEW u \in Upgrader, NEW p, boot = "up",
         p \notin Delicate, phase[u] \notin {"extract", "sync", "restore"},
         phase' = [phase EXCEPT ![u] = p],
         UNCHANGED <<disk, ram, left, open, cuts, cut>>
  PROVE  OInv'
<1>1. \A v \in Upgrader : v = u /\ phase'[v] = p
  BY DEF One, IInv, TypeOK
<1>2. ~Extracting /\ ~Extracting'
  BY <1>1 DEF Extracting, Delicate
<1>3. IdleWhenDown' /\ Unpacked'
  BY <1>1 DEF IdleWhenDown, Unpacked, Delicate
<1>4. Sound'
  BY <1>2 DEF OInv, Sound, Staged
<1>5. ConfKnown'
  BY <1>1 DEF OInv, ConfKnown, Delicate
<1>6. OverlayKnown'
  BY <1>2 DEF OInv, OverlayKnown, Stale
<1> QED
  BY <1>3, <1>4, <1>5, <1>6 DEF OInv

LEMMA FetchQuiet == ASSUME One, OInv, IInv, NEW u \in Upgrader, FetchAction(u) PROVE OInv'
<1>1. /\ boot = "up" /\ phase[u] \notin {"extract", "sync", "restore"}
      /\ UNCHANGED <<disk, ram, left, open, cuts, cut>>
  BY DEF FetchAction, At, Start, OpenDownload, EndDownload, Assemble, FetchSum,
         Verify, Fail, Clean
<1>2. PICK p : p \notin Delicate /\ phase' = [phase EXCEPT ![u] = p]
  BY DEF FetchAction, Go, At, Start, OpenDownload, EndDownload, Assemble, FetchSum,
         Verify, Fail, Clean, Delicate
<1> QED
  BY <1>1, <1>2, QuietStep

LEMMA CopyQuiet == ASSUME OInv, NEW r \in Release, CopyArchive(r) PROVE OInv'
<1> USE DEF CopyArchive, OInv
<1>1. IdleWhenDown' /\ Unpacked'
  BY DEF IdleWhenDown, Unpacked, Installed
<1>2. Sound'
  BY DEF Sound, Extracting, Staged
<1>3. ConfKnown'
  BY DEF ConfKnown
<1>4. OverlayKnown'
  BY DEF OverlayKnown, Extracting, Stale
<1> QED
  BY <1>1, <1>2, <1>3, <1>4

-----------------------------------------------------------------------------
(* The upgrade's work on /boot.                                            *)

LEMMA WholeThere == ASSUME IInv, NEW u \in Upgrader, handle[u].was # None
  PROVE Whole(handle[u].was.rel) # None
<1>1. handle[u].was.rel \in Content
  BY DEF IInv, TypeOK, Handle, File
<1>2. Whole(handle[u].was.rel) \in [rel : Content, whole : BOOLEAN]
  BY <1>1 DEF Whole
<1> QED
  BY <1>2, NoneAssumption DEF NoneAssumption

(* Everything unpacked is sound, whatever was interrupted before.          *)
LEMMA AllWhole ==
  ASSUME OInv, NEW u \in Upgrader, boot = "up", Whole(handle[u].was.rel) # None,
         \A m \in Members : Installed(m, Whole(handle[u].was.rel))
  PROVE  /\ kernel.whole
         /\ \A s \in SIMG : /\ update[s] # None /\ squash[s].whole
                            /\ Staged(s).whole /\ Staged(s).rel = kernel.rel
BY DEF Installed, Members, SIMG, Whole, OInv, Sound, Staged

LEMMA BeginStep ==
  ASSUME One, OInv, IInv, NEW u \in Upgrader, NEW m \in Members, BeginMember(u, m)
  PROVE  OInv'
<1>1. /\ \A v \in Upgrader : v = u /\ phase'[v] = "extract"
      /\ Extracting /\ Extracting' /\ boot = "up"
  BY DEF One, BeginMember, At, Extracting
<1>2. /\ m \in left[u] /\ open' = [open EXCEPT ![u] = m]
      /\ UNCHANGED <<squash, overlay, backup, ram, phase, handle, left, cut, cuts>>
      /\ \A n \in Members \ left[u] : \A c : Installed(n, c) => Installed(n, c)'
  BY DEF BeginMember, Write, Installed, IInv, TypeOK
<1>3. IdleWhenDown' /\ Unpacked'
  BY <1>1, <1>2 DEF OInv, IdleWhenDown, Unpacked, IInv, TypeOK
<1>4. Sound' /\ ConfKnown' /\ OverlayKnown'
  BY <1>1, <1>2 DEF OInv, Sound, ConfKnown, OverlayKnown, Stale
<1> QED
  BY <1>3, <1>4 DEF OInv

LEMMA EndStep ==
  ASSUME One, OInv, IInv, NEW u \in Upgrader, EndMember(u) PROVE OInv'
<1> DEFINE new == Whole(handle[u].was.rel)
<1>1. /\ \A v \in Upgrader : v = u /\ phase'[v] = "extract"
      /\ Extracting /\ Extracting' /\ boot = "up"
  BY DEF One, EndMember, At, Extracting
<1>2. /\ left' = [left EXCEPT ![u] = @ \ {open[u]}] /\ open' = [open EXCEPT ![u] = None]
      /\ UNCHANGED <<squash, overlay, backup, ram, phase, handle, cut, cuts>>
      /\ Write(open[u], new, "stock") /\ open[u] \in Members
  BY DEF EndMember, Write, IInv, TypeOK
<1>3. \A n \in Members \ left'[u] : Installed(n, new)'
  <2> SUFFICES ASSUME NEW n \in Members \ left'[u] PROVE Installed(n, new)'
    OBVIOUS
  <2>1. CASE n = open[u]
    BY <1>2, <2>1 DEF Write, Installed, IInv, TypeOK
  <2>2. CASE n # open[u]
    <3>1. n \notin left[u]
      BY <1>2, <2>2 DEF IInv, TypeOK
    <3>2. Installed(n, new)
      BY <1>1, <1>2, <3>1 DEF OInv, Unpacked
    <3> QED
      BY <1>2, <2>2, <3>2 DEF Write, Installed, IInv, TypeOK
  <2> QED
    BY <2>1, <2>2
<1>4. IdleWhenDown' /\ Unpacked'
  BY <1>1, <1>2, <1>3 DEF OInv, IdleWhenDown, Unpacked, IInv, TypeOK
<1>5. Sound' /\ ConfKnown' /\ OverlayKnown'
  BY <1>1, <1>2 DEF OInv, Sound, ConfKnown, OverlayKnown, Stale
<1> QED
  BY <1>4, <1>5 DEF OInv

LEMMA ExtractedStep ==
  ASSUME One, OInv, IInv, NEW u \in Upgrader, Extracted(u) PROVE OInv'
<1>1. /\ \A v \in Upgrader : v = u /\ phase'[v] = "sync"
      /\ phase[u] = "extract" /\ ~Extracting' /\ boot = "up"
  BY DEF One, Extracted, At, Go, Extracting, IInv, TypeOK
<1>2. /\ UNCHANGED <<disk, ram, cut, cuts>> /\ left[u] = {} /\ handle[u].was # None
      /\ handle'[u].was = handle[u].was
  BY DEF Extracted, At, IInv, TypeOK, Handle, FilesHeld
<1>3. \A m \in Members : Installed(m, Whole(handle[u].was.rel))
  BY <1>1, <1>2 DEF OInv, Unpacked
<1>4. IdleWhenDown' /\ Unpacked'
  BY <1>1, <1>2, <1>3 DEF OInv, IdleWhenDown, Unpacked, Installed
<1>5. /\ kernel.whole
      /\ \A s \in SIMG : /\ update[s] # None /\ squash[s].whole
                         /\ Staged(s).whole /\ Staged(s).rel = kernel.rel
  BY <1>1, <1>2, <1>3, WholeThere, AllWhole
<1>6. Sound'
  BY <1>1, <1>2, <1>5 DEF Sound, Staged
<1>7. ConfKnown'
  BY <1>1, <1>2 DEF OInv, ConfKnown
<1>8. OverlayKnown'
  BY <1>1, <1>2, <1>5 DEF OInv, OverlayKnown, Stale, SIMG
<1> QED
  BY <1>4, <1>6, <1>7, <1>8 DEF OInv

LEMMA ExtractFailsStep ==
  ASSUME One, OInv, IInv, NEW u \in Upgrader, ExtractFails(u) PROVE OInv'
<1>1. /\ \A v \in Upgrader : v = u /\ phase'[v] = "failed"
      /\ phase[u] = "extract" /\ boot = "up"
      /\ UNCHANGED <<disk, ram>>
      /\ cut' = cut \cup Lost /\ cuts' = cuts + 1 /\ cuts \in Nat
  BY BoundAssumption DEF One, ExtractFails, At, Go, IInv, TypeOK
<1>2. "extract" \in cut' /\ (bootconf # "user" => "conf" \in cut')
  BY <1>1 DEF Lost
<1>3. IdleWhenDown' /\ Unpacked'
  BY <1>1 DEF IdleWhenDown, Unpacked
<1>4. Sound' /\ ConfKnown'
  BY <1>1, <1>2 DEF OInv, Sound, ConfKnown
<1>5. OverlayKnown'
  BY <1>1 DEF OInv, OverlayKnown, Stale
<1> QED
  BY <1>3, <1>4, <1>5 DEF OInv

LEMMA SyncStep ==
  ASSUME One, OInv, IInv, NEW u \in Upgrader, Sync(u) PROVE OInv'
<1>1. /\ \A v \in Upgrader : v = u /\ phase'[v] = "restore"
      /\ phase[u] = "sync" /\ boot = "up" /\ ~Extracting
      /\ UNCHANGED <<kernel, squash, update, overlay, bootconf, backup, ram, cuts,
                     handle, left, open>>
      /\ cut' = cut \ {"extract"}
  BY DEF One, Sync, At, Go, IInv, TypeOK, Extracting
<1>2. \A m \in Members : Installed(m, Whole(handle[u].was.rel))
  BY <1>1 DEF OInv, Unpacked
<1>3. IdleWhenDown' /\ Unpacked' /\ ~Extracting'
  BY <1>1, <1>2 DEF OInv, IdleWhenDown, Unpacked, Installed, Extracting
<1>4. Sound'
  <2>1. /\ kernel = Whole(handle[u].was.rel)
        /\ \A s \in SIMG : update[s] = Whole(handle[u].was.rel) /\ squash[s].whole
    BY <1>1, <1>2 DEF Installed, Members, SIMG, OInv, Sound
  <2>2. kernel.whole /\ kernel # None
    BY <2>1, NoneAssumption DEF NoneAssumption, IInv, TypeOK, File, Whole
  <2>3. \A s \in SIMG : Staged(s) = kernel /\ squash[s].whole
    BY <2>1, <2>2 DEF Staged
  <2> QED
    BY <1>1, <2>2, <2>3 DEF Sound, Staged
<1>5. ConfKnown'
  BY <1>1 DEF OInv, ConfKnown
<1>6. OverlayKnown'
  BY <1>1, <1>3 DEF OInv, OverlayKnown, Stale
<1> QED
  BY <1>3, <1>4, <1>5, <1>6 DEF OInv

LEMMA RestoreStep ==
  ASSUME One, OInv, IInv, NEW u \in Upgrader, Restore(u) PROVE OInv'
<1>1. /\ \A v \in Upgrader : v = u /\ phase'[v] = "ro"
      /\ phase[u] = "restore" /\ boot = "up" /\ ~Extracting
      /\ UNCHANGED <<kernel, squash, update, overlay, ram, cuts, handle, left, open>>
      /\ cut \subseteq cut'
      /\ \/ bootconf' = backup
         \/ bootconf' = bootconf /\ (bootconf # "user" => "conf" \in cut')
  BY DEF One, Restore, Lost, At, Go, IInv, TypeOK, Extracting
<1>2. IdleWhenDown' /\ Unpacked' /\ ~Extracting'
  BY <1>1 DEF OInv, IdleWhenDown, Unpacked, Installed, Extracting
<1>3. Sound'
  BY <1>1, <1>2 DEF OInv, Sound, Staged
<1>4. ConfKnown'
  BY <1>1 DEF OInv, ConfKnown
<1>5. OverlayKnown'
  BY <1>1, <1>2 DEF OInv, OverlayKnown, Stale
<1> QED
  BY <1>2, <1>3, <1>4, <1>5 DEF OInv

LEMMA InstallStep ==
  ASSUME One, OInv, IInv, NEW u \in Upgrader, InstallAction(u)
  PROVE  OInv'
<1> USE DEF At, Go
<1>0. \A v \in Upgrader : v = u
  BY DEF One
<1>1. CASE RemountRw(u)
  BY <1>1, QuietStep DEF RemountRw, Delicate
<1>2. CASE Backup(u)
  <2>1. /\ \A v \in Upgrader : v = u /\ phase'[v] \in {"open", "failed"}
        /\ phase[u] = "backup" /\ ~Extracting /\ ~Extracting' /\ boot = "up"
        /\ UNCHANGED <<kernel, squash, update, overlay, bootconf, ram, cut, cuts,
                       handle, left, open>>
        /\ phase'[u] = "open" => backup' = bootconf
    BY <1>0, <1>2 DEF Backup, Extracting, IInv, TypeOK
  <2>2. IdleWhenDown' /\ Unpacked' /\ Sound'
    BY <2>1 DEF OInv, IdleWhenDown, Unpacked, Sound, Staged
  <2>3. ConfKnown' /\ OverlayKnown'
    BY <2>1 DEF OInv, ConfKnown, OverlayKnown, Stale
  <2> QED
    BY <2>2, <2>3 DEF OInv
<1>3. CASE OpenArchive(u)
  <2>1. CASE file["archive"] = None
    BY <1>3, <2>1, QuietStep DEF OpenArchive, Delicate
  <2>2. CASE file["archive"] # None
    <3>1. /\ \A v \in Upgrader : v = u /\ phase'[v] = "extract"
          /\ phase[u] = "open" /\ Extracting' /\ ~Extracting /\ boot = "up"
          /\ left'[u] = Members /\ open[u] \in Members \cup {None}
          /\ UNCHANGED <<disk, ram, cut, cuts, open>>
      BY <1>0, <1>3, <2>2 DEF OpenArchive, Extracting, IInv, TypeOK
    <3>2. IdleWhenDown' /\ Unpacked' /\ Sound'
      BY <3>1 DEF OInv, IdleWhenDown, Unpacked, Sound
    <3>3. ConfKnown' /\ OverlayKnown'
      BY <3>1 DEF OInv, ConfKnown, OverlayKnown, Stale
    <3> QED
      BY <3>2, <3>3 DEF OInv
  <2> QED
    BY <2>1, <2>2
<1>4. CASE \E m \in Members : BeginMember(u, m)
  BY <1>4, BeginStep
<1>5. CASE EndMember(u) \/ Extracted(u) \/ ExtractFails(u) \/ Sync(u) \/ Restore(u)
  BY <1>5, EndStep, ExtractedStep, ExtractFailsStep, SyncStep, RestoreStep
<1>6. CASE RemountRo(u)
  <2>1. /\ \A v \in Upgrader : v = u /\ phase'[v] \in {"failed", "success"}
        /\ phase[u] = "ro" /\ ~Extracting /\ ~Extracting' /\ boot = "up"
        /\ UNCHANGED <<kernel, squash, update, overlay, bootconf, backup, ram, cut,
                       cuts, handle, left, open>>
    BY <1>0, <1>6 DEF RemountRo, Extracting, IInv, TypeOK
  <2>2. IdleWhenDown' /\ Unpacked' /\ Sound'
    BY <2>1 DEF OInv, IdleWhenDown, Unpacked, Installed, Sound, Staged
  <2>3. ConfKnown' /\ OverlayKnown'
    BY <2>1 DEF OInv, ConfKnown, OverlayKnown, Stale
  <2> QED
    BY <2>2, <2>3 DEF OInv
<1> QED
  BY <1>1, <1>2, <1>3, <1>4, <1>5, <1>6 DEF InstallAction

-----------------------------------------------------------------------------
(* The saving of the overlay.                                              *)

LEMMA SaveStepOne == ASSUME OInv, IInv, SaveAction PROVE OInv'
<1>1. /\ boot = "up"
      /\ UNCHANGED <<kernel, squash, update, bootconf, backup, ram, procs, hist>>
  BY DEF SaveAction, SaveStart, SaveCreate, SaveMount, SaveRsync, SaveRo
<1>2. IdleWhenDown' /\ Unpacked' /\ Sound' /\ ConfKnown'
  BY <1>1 DEF OInv, IdleWhenDown, Unpacked, Installed, Sound, Extracting, Staged,
              ConfKnown
<1>3. overlay' # None =>
        \/ overlay # None /\ overlay'.rel = overlay.rel
        \/ overlay'.rel = squash["batocera"].rel
  BY DEF SaveAction, SaveStart, SaveCreate, SaveMount, SaveRsync, SaveRo, OInv,
         OverlayKnown, IInv, TypeOK, FilesHeld
<1>4. OverlayKnown'
  BY <1>1, <1>3 DEF OInv, OverlayKnown, Extracting, Stale
<1> QED
  BY <1>2, <1>4 DEF OInv

-----------------------------------------------------------------------------
(* The promotion, and the ends of the system.                              *)

LEMMA BootStepOne == ASSUME OInv, IInv, BootAction PROVE OInv'
<1>0. /\ boot # "up" /\ ~Extracting /\ ~Extracting'
      /\ UNCHANGED <<kernel, bootconf, backup, phase, handle, left, open, cut, cuts>>
      /\ \A u \in Upgrader : phase[u] = "idle"
  BY DEF OInv, IdleWhenDown, Extracting, BootAction, PowerOn, SkipImage, PromoteImage,
         DropOverlay, FillOverlay, MountRoot
<1>1. IdleWhenDown' /\ Unpacked' /\ ConfKnown'
  BY <1>0 DEF OInv, IdleWhenDown, Unpacked, ConfKnown
<1>2. Sound'
  <2>1. CASE PromoteImage
    BY <1>0, <2>1 DEF PromoteImage, OInv, Sound, Staged, IInv, TypeOK
  <2>2. CASE MountRoot
    BY <1>0, <2>2 DEF MountRoot, Bootable, OInv, Sound, Staged, IInv, Promoted
  <2>3. CASE ~PromoteImage /\ ~MountRoot
    BY <1>0, <2>3 DEF BootAction, PowerOn, SkipImage, DropOverlay, FillOverlay,
       NextImage, OInv, Sound, Staged
  <2> QED
    BY <2>1, <2>2, <2>3
<1>3. OverlayKnown'
  <2> USE DEF OInv, OverlayKnown, Stale, IInv, TypeOK, SIMG
  <2>1. CASE PowerOn
    BY <1>0, <2>1 DEF PowerOn
  <2>2. CASE SkipImage
    BY <1>0, <2>2 DEF SkipImage, NextImage, Promoted
  <2>3. CASE PromoteImage
    BY <1>0, <2>3 DEF PromoteImage
  <2>4. CASE DropOverlay
    BY <1>0, <2>4 DEF DropOverlay, NextImage, Promoted
  <2>5. CASE FillOverlay
    BY <1>0, <2>5 DEF FillOverlay
  <2>6. CASE MountRoot
    BY <1>0, <2>6 DEF MountRoot, Promoted
  <2> QED
    BY <2>1, <2>2, <2>3, <2>4, <2>5, <2>6 DEF BootAction
<1> QED
  BY <1>1, <1>2, <1>3 DEF OInv

LEMMA DownStepOne == ASSUME OInv, IInv, Reboot \/ PowerLoss PROVE OInv'
<1>0. /\ boot' = "off" /\ UNCHANGED <<squash, overlay, backup>>
      /\ \A u \in Upgrader : phase'[u] = "idle"
      /\ cuts \in Nat
  BY BoundAssumption DEF Reboot, PowerLoss, Stop, IInv, TypeOK
<1>1. IdleWhenDown' /\ Unpacked' /\ ~Extracting'
  BY <1>0 DEF IdleWhenDown, Unpacked, Extracting
<1>2. CASE Reboot
  <2>1. /\ UNCHANGED <<kernel, update, bootconf, cuts, cut>> /\ boot = "up" /\ ~Extracting
    BY <1>2 DEF Reboot, Stop, Extracting
  <2>2. Sound' /\ ConfKnown'
    BY <1>0, <1>1, <1>2, <2>1 DEF Reboot, OInv, Sound, Staged, ConfKnown
  <2>3. OverlayKnown'
    BY <1>0, <1>1, <2>1 DEF OInv, OverlayKnown, Stale
  <2> QED
    BY <1>1, <2>2, <2>3 DEF OInv
<1>3. CASE PowerLoss
  <2>1. /\ cuts' = cuts + 1 /\ cut' = cut \cup Lost /\ boot \notin {"off", "oops"}
        /\ bootconf' = bootconf \/ bootconf = "stock"
    BY <1>3 DEF PowerLoss
  <2>2. Extracting \/ dirty # {} => "extract" \in cut'
    BY <2>1 DEF Lost, Extracting
  <2>3. \A s \in SIMG : update[s] # None <=> update'[s] # None
    <3>1. PICK lost \in SUBSET dirty :
            update' = [t \in SIMG |-> Tear(update[t], t, lost)]
      BY <1>3 DEF PowerLoss
    <3>2. \A f \in File : [f EXCEPT !.whole = FALSE] # None
      BY NoneAssumption DEF NoneAssumption, File
    <3> QED
      BY <3>1, <3>2 DEF Tear, IInv, TypeOK
  <2>4. dirty = {} => kernel' = kernel /\ \A s \in SIMG : update'[s] = update[s]
    BY <1>3 DEF PowerLoss, Tear
  <2>5. Sound'
    BY <1>0, <1>1, <2>1, <2>2, <2>4 DEF OInv, Sound, Staged
  <2>6. ConfKnown'
    <3>1. "conf" \notin cut' => bootconf' = "user"
      BY <2>1 DEF Lost
    <3> QED
      BY <1>0, <3>1 DEF ConfKnown
  <2>7. OverlayKnown'
    BY <1>0, <2>1, <2>3 DEF OInv, OverlayKnown, Stale, SIMG
  <2> QED
    BY <1>1, <2>5, <2>6, <2>7 DEF OInv
<1> QED
  BY <1>2, <1>3

-----------------------------------------------------------------------------
(* Every step.                                                             *)

LEMMA OneInit == Init => OInv
<1> SUFFICES ASSUME Init PROVE OInv
  OBVIOUS
<1>1. IdleWhenDown /\ Unpacked /\ ConfKnown
  BY DEF Init, IdleWhenDown, Unpacked, ConfKnown
<1>2. Sound
  BY DEF Init, Sound, Staged, Whole
<1>3. OverlayKnown
  BY DEF Init, OverlayKnown, Stale, SIMG
<1> QED
  BY <1>1, <1>2, <1>3 DEF OInv

LEMMA OneStep == ASSUME One, OInv, IInv, [Next]_vars PROVE OInv'
<1>1. CASE UNCHANGED vars
  <2> USE <1>1 DEF vars, OInv
  <2>1. IdleWhenDown' /\ Unpacked' /\ ConfKnown'
    BY DEF IdleWhenDown, Unpacked, Installed, ConfKnown
  <2>2. Sound' /\ OverlayKnown'
    BY DEF Sound, Extracting, Staged, OverlayKnown, Stale
  <2> QED
    BY <2>1, <2>2
<1>2. CASE Next
  BY <1>2, NextCases, FetchQuiet, CopyQuiet, InstallStep, SaveStepOne, BootStepOne,
     DownStepOne
<1> QED
  BY <1>1, <1>2

LEMMA OneInvariance == ASSUME One PROVE Spec => [](OInv /\ IInv)
<1>1. Init => OInv /\ IInv
  BY OneInit, InitIInv
<1>2. OInv /\ IInv /\ [Next]_vars => OInv' /\ IInv'
  BY OneStep, TypeStep, RunningStep, PromotedStep, HeldStep DEF IInv
<1> QED
  BY <1>1, <1>2, PTL DEF Spec

-----------------------------------------------------------------------------
(* With one upgrade at a time the device never ends in the rescue shell of *)
(* init unless an extraction was interrupted since the last one that       *)
(* completed (batocera-upgrade 262-288, init 64-96).                       *)
THEOREM Booting == ASSUME One PROVE Spec => []BootsUnlessTorn
<1>1. OInv => BootsUnlessTorn
  BY DEF OInv, Sound, BootsUnlessTorn
<1> QED
  BY <1>1, OneInvariance, PTL

(* With one upgrade at a time the user's boot configuration is on /boot or *)
(* in its backup, unless an interruption found the stock one in place      *)
(* (batocera-upgrade 246-260, 290-301).                                    *)
THEOREM Keeping == ASSUME One PROVE Spec => []UserConfKept
<1>1. OInv => UserConfKept
  BY DEF OInv, ConfKnown, UserConfKept
<1> QED
  BY <1>1, OneInvariance, PTL

(* With one upgrade at a time the one that reports success has left both   *)
(* images whole and of its release for the next boot, whatever was left on *)
(* /boot before (batocera-upgrade 262-324).                                *)
THEOREM Succeeding == ASSUME One PROVE Spec => []SuccessMeansStaged
<1>1. ASSUME OInv, IInv PROVE SuccessMeansStaged
  <2> SUFFICES ASSUME NEW u \in Upgrader, phase[u] = "success", NEW s \in SIMG
               PROVE  Staged(s) = Whole(handle[u].was.rel)
    BY DEF SuccessMeansStaged
  <2>1. update[s] = Whole(handle[u].was.rel) /\ kernel = Whole(handle[u].was.rel)
    BY <1>1 DEF OInv, Unpacked, Installed, Members, SIMG
  <2>2. kernel # None
    BY <1>1, NoneAssumption DEF NoneAssumption, IInv, TypeOK, File
  <2> QED
    BY <2>1, <2>2 DEF Staged
<1> QED
  BY <1>1, OneInvariance, PTL

LEMMA OnlyMountComesUp ==
  ASSUME IInv, Next, ComesUp
  PROVE  MountRoot /\ run' = [images |-> squash, kernel |-> kernel.rel]
<1>1. boot # "up" /\ boot' = "up"
  BY DEF ComesUp
<1>2. BootAction
  BY <1>1, NextCases, UpOnly DEF Reboot, PowerLoss, Stop
<1>3. MountRoot
  BY <1>1, <1>2 DEF BootAction, PowerOn, SkipImage, PromoteImage, DropOverlay,
                    FillOverlay, NextImage
<1> QED
  BY <1>1, <1>3 DEF MountRoot

(* With one upgrade at a time kernel and root images of a system that      *)
(* comes up are of one release (init 64-78).                               *)
THEOREM Agreeing == ASSUME One PROVE Spec => LayersAgree
<1>1. ASSUME OInv, IInv, Next, ComesUp, "extract" \notin cut, NEW s \in SIMG
      PROVE  run'.images[s].rel = run'.kernel
  <2>1. /\ run' = [images |-> squash, kernel |-> kernel.rel]
        /\ boot = "mount"
    BY <1>1, OnlyMountComesUp DEF MountRoot
  <2>2. update[s] = None /\ ~Extracting
    BY <1>1, <2>1 DEF IInv, Promoted, OInv, IdleWhenDown, Extracting
  <2>3. squash[s].rel = kernel.rel
    BY <1>1, <2>2 DEF OInv, Sound, Staged
  <2> QED
    BY <2>1, <2>3
<1>2. OInv /\ IInv /\ [Next]_vars
      => [ComesUp /\ "extract" \notin cut
          => \A s \in SIMG : run'.images[s].rel = run'.kernel]_vars
  BY <1>1
<1> QED
  BY <1>2, OneInvariance, PTL DEF Spec, LayersAgree

(* With one upgrade at a time the overlay that is copied over a root was   *)
(* saved on its release, one interruption allowed (init 71-75).            *)
THEOREM Refreshing == ASSUME One PROVE Spec => OverlayFresh
<1>1. ASSUME OInv, IInv, Next, ComesUp, cuts <= 1
      PROVE  applied \in {None, run'.images["batocera"].rel}
  <2>1. /\ run' = [images |-> squash, kernel |-> kernel.rel]
        /\ boot = "mount"
    BY <1>1, OnlyMountComesUp DEF MountRoot
  <2> QED
    BY <1>1, <2>1 DEF OInv, OverlayKnown
<1>2. OInv /\ IInv /\ [Next]_vars
      => [ComesUp /\ cuts <= 1
          => applied \in {None, run'.images["batocera"].rel}]_vars
  BY <1>1
<1> QED
  BY <1>2, OneInvariance, PTL DEF Spec, OverlayFresh

=============================================================================
