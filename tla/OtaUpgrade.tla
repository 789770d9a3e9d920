----------------------------- MODULE OtaUpgrade -----------------------------
(***************************************************************************)
(* The over-the-air update of a batocera.pocket device: batocera-upgrade   *)
(* downloads an archive and unpacks it over /boot, batocera-save-overlay   *)
(* stores the root overlay on the same partition, and the init of the      *)
(* initramfs promotes the unpacked images at the next boot.  Power may be  *)
(* lost before any step.                                                   *)
(***************************************************************************)
EXTENDS Naturals, FiniteSets

CONSTANTS Release,    \* the releases an archive can hold
          Factory,    \* the release the device was flashed with
          Upgrader,   \* the batocera-upgrade processes that may run at once
          None,       \* no such file
          Mixed,      \* the content of a file two releases were written into
          MaxRuns,    \* bound: runs of batocera-upgrade
          MaxCuts     \* bound: power cuts and failed extractions

(* The two squashfs images of the root, in the order init promotes them.   *)
SIMG == {"batocera", "rufomaculata"}

Content == Release \cup {Mixed}
File == [rel : Content, whole : BOOLEAN]

(* What boot.tar.xz unpacks, tar's first member first: the stock           *)
(* batocera-boot.conf, then the directory boot/ in any order.              *)
Conf == "batocera-boot.conf"
Members == {Conf, "Image", "batocera", "rufomaculata"}

ASSUME ReleaseAssumption == Factory \in Release /\ Mixed \notin Release
ASSUME NoneAssumption ==
  /\ None \notin Content \cup Members \cup {"user", "stock", "torn"}
  /\ None \notin [rel : Content, whole : BOOLEAN]
  /\ None \notin [rel : Content, clean : BOOLEAN]
  /\ None \notin [SIMG -> File]
  /\ None \notin [images : [SIMG -> File], kernel : Content]
ASSUME BoundAssumption == MaxRuns \in Nat /\ MaxCuts \in Nat

Whole(r) == [rel |-> r, whole |-> TRUE]
Torn(r)  == [rel |-> r, whole |-> FALSE]

VARIABLES
  kernel,     \* /boot/boot/Image
  squash,     \* /boot/boot/{batocera,rufomaculata}
  update,     \* /boot/boot/{batocera,rufomaculata}.update
  overlay,    \* /boot/boot/overlay, with the release it was saved on
  bootconf,   \* /boot/batocera-boot.conf: "user", "stock" or "torn"
  backup,     \* /boot/batocera-boot.conf.upgrade
  dirty,      \* members written and not yet synced
  file,       \* boot.tar.xz and the set of its parts, under /userdata
  md5,        \* boot.tar.xz.md5: the release whose archive it sums
  boot,       \* where the device is between power-off and a running system
  img,        \* the image init is promoting
  run,        \* the releases of the running kernel and root images
  applied,    \* the overlay copied into the running root
  bootfs,     \* how /boot is mounted
  phase,      \* the next step of each upgrade
  job,        \* what each upgrade installs, and how it gets the archive
  handle,     \* the archive file each upgrade has open
  left,       \* the members each upgrade has still to unpack
  open,       \* the member each upgrade is writing
  saver,      \* the next step of batocera-save-overlay
  runs,       \* history: runs of batocera-upgrade
  cuts,       \* history: power cuts and failed extractions
  cut         \* history: what an interruption has left half done

disk  == <<kernel, squash, update, overlay, bootconf, backup, dirty>>
share == <<file, md5>>
ram   == <<boot, img, run, applied>>
procs == <<phase, job, handle, left, open>>
hist  == <<runs, cuts, cut>>
vars  == <<disk, share, ram, bootfs, procs, saver, hist>>

-----------------------------------------------------------------------------
(* An open file: which one, what it held when opened, and what it holds    *)
(* once it is removed.                                                     *)
Handle == [at : {"none", "parts", "archive", "deleted"},
           was : File \cup {None}, now : File \cup {None}]
NoFile == [at |-> "none", was |-> None, now |-> None]
Job == [rel : Release, mode : {"single", "parts", "manual"}]
NoJob == [rel |-> Factory, mode |-> "manual"]

(* Types; what is on /boot is a whole or a torn file of some content.      *)
TypeOK ==
  /\ kernel \in File
  /\ squash \in [SIMG -> File]
  /\ update \in [SIMG -> File \cup {None}]
  /\ overlay \in [rel : Content, clean : BOOLEAN] \cup {None}
  /\ bootconf \in {"user", "stock", "torn"}
  /\ backup \in {"user", "stock", "torn", None}
  /\ dirty \subseteq Members
  /\ file \in [{"parts", "archive"} -> File \cup {None}]
  /\ md5 \in Release \cup {None}
  /\ boot \in {"off", "promote", "overlay", "fill", "mount", "up", "oops"}
  /\ img \in SIMG
  /\ run \in [images : [SIMG -> File], kernel : Content] \cup {None}
  /\ applied \in Content \cup {None}
  /\ bootfs \in {"ro", "rw"}
  /\ phase \in [Upgrader -> {"idle", "start", "download", "assemble", "sum",
       "verify", "remount", "backup", "open", "extract", "sync", "restore",
       "ro", "success", "failed"}]
  /\ job \in [Upgrader -> Job]
  /\ handle \in [Upgrader -> Handle]
  /\ left \in [Upgrader -> SUBSET Members]
  /\ open \in [Upgrader -> Members \cup {None}]
  /\ saver \in {"idle", "create", "mount", "rsync", "ro"}
  /\ runs \in 0 .. MaxRuns
  /\ cuts \in 0 .. MaxCuts
  /\ cut \subseteq {"extract", "conf"}

Init ==
  /\ kernel = Whole(Factory)
  /\ squash = [s \in SIMG |-> Whole(Factory)]
  /\ update = [s \in SIMG |-> None]
  /\ overlay = None
  /\ bootconf = "user" /\ backup = None
  /\ dirty = {}
  /\ file = [f \in {"parts", "archive"} |-> None] /\ md5 = None
  /\ boot = "off" /\ img = "batocera" /\ run = None /\ applied = None
  /\ bootfs = "ro"
  /\ phase = [u \in Upgrader |-> "idle"]
  /\ job = [u \in Upgrader |-> NoJob]
  /\ handle = [u \in Upgrader |-> NoFile]
  /\ left = [u \in Upgrader |-> {}]
  /\ open = [u \in Upgrader |-> None]
  /\ saver = "idle"
  /\ runs = 0 /\ cuts = 0 /\ cut = {}

-----------------------------------------------------------------------------
(* The initramfs.                                                          *)

PowerOn ==
  /\ boot = "off"
  /\ boot' = "promote" /\ img' = "batocera"
  /\ UNCHANGED <<disk, share, run, applied, bootfs, procs, saver, hist>>

(* Mutant: the loop ends after the first image.                            *)
FirstImageOnly == boot' = "fill" /\ UNCHANGED img

(* The loop goes on with the second image, then init fills the overlay.    *)
NextImage ==
  IF img = "batocera" THEN boot' = "promote" /\ img' = "rufomaculata"
                      ELSE boot' = "fill" /\ UNCHANGED img

SkipImage ==
  /\ boot = "promote" /\ update[img] = None
  /\ NextImage
  /\ UNCHANGED <<disk, share, run, applied, bootfs, procs, saver, hist>>

(* Mutant: every image is renamed to the first one.                        *)
PromoteToFirst ==
  /\ boot = "promote" /\ update[img] # None
  /\ squash' = [squash EXCEPT !["batocera"] = update[img]]
  /\ update' = [update EXCEPT ![img] = None]
  /\ boot' = "overlay"
  /\ UNCHANGED <<kernel, overlay, bootconf, backup, dirty, share, img, run,
                 applied, bootfs, procs, saver, hist>>

(* Mutant: cp in place of mv.                                              *)
PromoteCopied ==
  /\ boot = "promote" /\ update[img] # None
  /\ squash' = [squash EXCEPT ![img] = update[img]]
  /\ boot' = "overlay"
  /\ UNCHANGED <<kernel, update, overlay, bootconf, backup, dirty, share, img,
                 run, applied, bootfs, procs, saver, hist>>

PromoteImage ==
  /\ boot = "promote" /\ update[img] # None
  /\ squash' = [squash EXCEPT ![img] = update[img]]
  /\ update' = [update EXCEPT ![img] = None]
  /\ boot' = "overlay"
  /\ UNCHANGED <<kernel, overlay, bootconf, backup, dirty, share, img, run,
                 applied, bootfs, procs, saver, hist>>

(* Mutant: the overlay is dropped with the first image only.               *)
DropOverlayFirst ==
  /\ boot = "overlay"
  /\ overlay' = IF img = "batocera" THEN None ELSE overlay
  /\ NextImage
  /\ UNCHANGED <<kernel, squash, update, bootconf, backup, dirty, share, run,
                 applied, bootfs, procs, saver, hist>>

(* Mutant: mv without a test that there is an overlay.                     *)
DropOverlayUntested ==
  /\ boot = "overlay"
  /\ overlay' = None
  /\ IF overlay = None THEN boot' = "oops" /\ UNCHANGED img ELSE NextImage
  /\ UNCHANGED <<kernel, squash, update, bootconf, backup, dirty, share, run,
                 applied, bootfs, procs, saver, hist>>

(* The overlay moves to overlay.old, which nothing reads.                  *)
DropOverlay ==
  /\ boot = "overlay"
  /\ overlay' = None
  /\ NextImage
  /\ UNCHANGED <<kernel, squash, update, bootconf, backup, dirty, share, run,
                 applied, bootfs, procs, saver, hist>>

(* A stored overlay that was not closed cleanly may not mount; init then   *)
(* goes on without it.                                                     *)
FillOverlay ==
  /\ boot = "fill"
  /\ boot' = "mount"
  /\ \/ overlay # None /\ applied' = overlay.rel
     \/ overlay # None /\ ~overlay.clean /\ applied' = None
     \/ overlay = None /\ applied' = None
  /\ UNCHANGED <<disk, share, img, run, bootfs, procs, saver, hist>>

Bootable == kernel.whole /\ \A s \in SIMG : squash[s].whole

(* A torn image does not mount and leaves a shell; otherwise switch_root.  *)
MountRoot ==
  /\ boot = "mount"
  /\ \/ /\ Bootable
        /\ boot' = "up"
        /\ run' = [images |-> squash, kernel |-> kernel.rel]
     \/ ~Bootable /\ boot' = "oops" /\ UNCHANGED run
  /\ UNCHANGED <<disk, share, img, applied, bootfs, procs, saver, hist>>

InitStep == SkipImage \/ PromoteImage \/ DropOverlay \/ FillOverlay \/ MountRoot

-----------------------------------------------------------------------------
(* batocera-upgrade.                                                       *)

Go(u, p) == phase' = [phase EXCEPT ![u] = p]
At(u, p) == boot = "up" /\ phase[u] = p

(* Opening f for writing truncates the file the other handles read;        *)
(* removing it leaves them the content they had.                           *)
Unlink(u, h, fs) ==
  handle' = [w \in Upgrader |->
    IF w = u THEN h
    ELSE IF handle[w].at \in fs
    THEN [handle[w] EXCEPT !.at = "deleted", !.now = file[handle[w].at]]
    ELSE handle[w]]

Others(u, f, p) == {w \in Upgrader \ {u} : handle[w].at = f /\ phase[w] = p}

Merge(u, f, r) ==
  IF \A w \in Others(u, f, "download") : file[f] # None => file[f].rel = r
  THEN r ELSE Mixed

(* The archive comes from a release's url, whole or in parts, or is the    *)
(* file the user left there.  Any check before the download may exit.      *)
Start(u) ==
  /\ At(u, "idle") /\ runs < MaxRuns
  /\ runs' = runs + 1
  /\ \E j \in Job :
       /\ j.mode = "manual" => j.rel = Factory
       /\ job' = [job EXCEPT ![u] = j]
       /\ \/ j.mode # "manual" /\ Go(u, "start")
          \/ j.mode = "manual" /\ file["archive"] # None /\ Go(u, "verify")
          \/ Go(u, "failed")
  /\ UNCHANGED <<disk, share, ram, bootfs, handle, left, open, saver, cuts, cut>>

(* Parts are fetched after the old parts and the old archive are removed;  *)
(* a single archive is written over the old one.                           *)
OpenDownload(u) ==
  /\ At(u, "start")
  /\ LET d == IF job[u].mode = "parts" THEN "parts" ELSE "archive"
         h == [NoFile EXCEPT !.at = d]
     IN /\ IF d = "parts"
           THEN /\ file' = [f \in DOMAIN file |->
                              IF f = "parts" THEN Torn(job[u].rel) ELSE None]
                /\ Unlink(u, h, DOMAIN file)
           ELSE /\ file' = [file EXCEPT ![d] = Torn(Merge(u, d, job[u].rel))]
                /\ handle' = [handle EXCEPT ![u] = h]
  /\ Go(u, "download")
  /\ UNCHANGED <<disk, md5, ram, bootfs, job, left, open, saver, hist>>

(* The last writer of a file that is still in place completes it.          *)
EndDownload(u) ==
  /\ At(u, "download")
  /\ LET f == handle[u].at
     IN IF f \in DOMAIN file /\ Others(u, f, "download") = {}
        THEN file' = [file EXCEPT ![f].whole = TRUE]
        ELSE UNCHANGED file
  /\ handle' = [handle EXCEPT ![u] = NoFile]
  /\ Go(u, IF job[u].mode = "parts" THEN "assemble" ELSE "sum")
  /\ UNCHANGED <<disk, md5, ram, bootfs, job, left, open, saver, hist>>

(* cat the parts into the archive, then remove them; no part, no archive.  *)
Assemble(u) ==
  /\ At(u, "assemble")
  /\ IF file["parts"] = None
     THEN Go(u, "failed") /\ UNCHANGED <<file, handle>>
     ELSE /\ file' = [parts |-> None, archive |-> file["parts"]]
          /\ Unlink(u, NoFile, {"parts"})
          /\ Go(u, "sum")
  /\ UNCHANGED <<disk, md5, ram, bootfs, job, left, open, saver, hist>>

(* A checksum that cannot be fetched leaves the old file in place.         *)
FetchSum(u) ==
  /\ At(u, "sum")
  /\ md5' \in {md5, job[u].rel}
  /\ Go(u, "verify")
  /\ UNCHANGED <<disk, file, ram, bootfs, job, handle, left, open, saver, hist>>

(* Without a checksum file the upgrade proceeds.                           *)
Verify(u) ==
  /\ At(u, "verify")
  /\ Go(u, IF md5 = None \/ file["archive"] = Whole(md5)
           THEN "remount" ELSE "failed")
  /\ UNCHANGED <<disk, share, ram, bootfs, job, handle, left, open, saver, hist>>

RemountRw(u) ==
  /\ At(u, "remount")
  /\ \/ bootfs' = "rw" /\ Go(u, "backup")
     \/ UNCHANGED bootfs /\ Go(u, "failed")
  /\ UNCHANGED <<disk, share, ram, job, handle, left, open, saver, hist>>

(* Mutant: no copy of the boot files.                                      *)
NoBackup(u) ==
  /\ At(u, "backup") /\ Go(u, "open")
  /\ UNCHANGED <<disk, share, ram, bootfs, job, handle, left, open, saver, hist>>

Backup(u) ==
  /\ At(u, "backup")
  /\ IF bootfs = "rw" THEN backup' = bootconf /\ Go(u, "open")
               ELSE UNCHANGED backup /\ Go(u, "failed")
  /\ UNCHANGED <<kernel, squash, update, overlay, bootconf, dirty, share, ram,
                 bootfs, job, handle, left, open, saver, hist>>

OpenArchive(u) ==
  /\ At(u, "open")
  /\ IF file["archive"] = None
     THEN Go(u, "failed") /\ UNCHANGED <<handle, left>>
     ELSE /\ handle' = [handle EXCEPT ![u] =
                          [at |-> "archive", was |-> file["archive"], now |-> None]]
          /\ left' = [left EXCEPT ![u] = Members]
          /\ Go(u, "extract")
  /\ UNCHANGED <<disk, share, ram, bootfs, job, open, saver, hist>>

(* What xz reads: the file in place, or the one removed under it.          *)
Source(u) == IF handle[u].at = "archive" THEN file["archive"] ELSE handle[u].now

Write(m, c, conf) ==
  /\ kernel' = IF m = "Image" THEN c ELSE kernel
  /\ update' = IF m \in SIMG THEN [update EXCEPT ![m] = c] ELSE update
  /\ bootconf' = IF m = Conf THEN conf ELSE bootconf
  /\ UNCHANGED <<squash, overlay, backup>>

(* tar creates the member: from here until it is complete it is torn.      *)
BeginMember(u, m) ==
  /\ At(u, "extract") /\ open[u] = None /\ bootfs = "rw"
  /\ m \in left[u] /\ (m # Conf => Conf \notin left[u])
  /\ Source(u).rel \in Release
  /\ Write(m, Torn(Source(u).rel), "torn")
  /\ open' = [open EXCEPT ![u] = m]
  /\ UNCHANGED <<dirty, share, ram, bootfs, phase, job, handle, left, saver, hist>>

EndMember(u) ==
  /\ At(u, "extract") /\ open[u] # None
  /\ Source(u) = handle[u].was
  /\ Write(open[u], Whole(handle[u].was.rel), "stock")
  /\ dirty' = dirty \cup {open[u]}
  /\ left' = [left EXCEPT ![u] = @ \ {open[u]}]
  /\ open' = [open EXCEPT ![u] = None]
  /\ UNCHANGED <<share, ram, bootfs, phase, job, handle, saver, hist>>

(* Mutant: the status of tar is not checked.                               *)
ExtractedUnchecked(u) ==
  /\ At(u, "extract") /\ (left[u] = {} \/ ~handle[u].was.whole)
  /\ left' = [left EXCEPT ![u] = {}] /\ open' = [open EXCEPT ![u] = None]
  /\ Go(u, "sync")
  /\ UNCHANGED <<disk, share, ram, bootfs, job, handle, saver, hist>>

Extracted(u) ==
  /\ At(u, "extract") /\ left[u] = {} /\ handle[u].was.whole
  /\ handle' = [handle EXCEPT ![u].at = "none"]
  /\ Go(u, "sync")
  /\ UNCHANGED <<disk, share, ram, bootfs, job, left, open, saver, hist>>

Lost == (IF dirty # {} \/ \E u \in Upgrader : phase[u] = "extract"
         THEN {"extract"} ELSE {})
        \cup (IF bootconf # "user" THEN {"conf"} ELSE {})

(* Mutant: a failed extraction does not end the script.                    *)
ExtractFailsOn(u) ==
  /\ At(u, "extract") /\ cuts < MaxCuts
  /\ cuts' = cuts + 1 /\ cut' = cut \cup Lost
  /\ left' = [left EXCEPT ![u] = {}] /\ open' = [open EXCEPT ![u] = None]
  /\ Go(u, "sync")
  /\ UNCHANGED <<disk, share, ram, bootfs, job, handle, saver, runs>>

(* No space, a read-only /boot, a truncated archive: tar fails, and the    *)
(* script exits with /boot as it is.                                       *)
ExtractFails(u) ==
  /\ At(u, "extract") /\ cuts < MaxCuts
  /\ cuts' = cuts + 1 /\ cut' = cut \cup Lost
  /\ handle' = [handle EXCEPT ![u] = NoFile]
  /\ left' = [left EXCEPT ![u] = {}] /\ open' = [open EXCEPT ![u] = None]
  /\ Go(u, "failed")
  /\ UNCHANGED <<disk, share, ram, bootfs, job, saver, runs>>

Sync(u) ==
  /\ At(u, "sync")
  /\ dirty' = {}
  /\ cut' = cut \ {"extract"}
  /\ Go(u, "restore")
  /\ UNCHANGED <<kernel, squash, update, overlay, bootconf, backup, share, ram,
                 bootfs, job, handle, left, open, saver, runs, cuts>>

(* A failed mv is only reported ("Outch").                                 *)
Restore(u) ==
  /\ At(u, "restore")
  /\ IF bootfs = "rw" /\ backup # None
     THEN bootconf' = backup /\ backup' = None /\ UNCHANGED cut
     ELSE cut' = cut \cup Lost /\ UNCHANGED <<bootconf, backup>>
  /\ Go(u, "ro")
  /\ UNCHANGED <<kernel, squash, update, overlay, dirty, share, ram, bootfs,
                 job, handle, left, open, saver, runs, cuts>>

(* A file open for writing keeps /boot read-write.                         *)
Busy == saver = "rsync" \/ \E u \in Upgrader : open[u] # None

RemountRo(u) ==
  /\ At(u, "ro")
  /\ IF Busy THEN UNCHANGED <<bootfs, dirty>> /\ Go(u, "failed")
             ELSE bootfs' = "ro" /\ dirty' = {} /\ Go(u, "success")
  /\ UNCHANGED <<kernel, squash, update, overlay, bootconf, backup, share, ram,
                 job, handle, left, open, saver, hist>>

(* do_clean, by the trap on every exit.                                    *)
Clean(u) ==
  /\ boot = "up" /\ phase[u] \in {"success", "failed"}
  /\ file' = [f \in DOMAIN file |-> None] /\ md5' = None
  /\ Unlink(u, NoFile, DOMAIN file)
  /\ Go(u, "idle") /\ job' = [job EXCEPT ![u] = NoJob]
  /\ UNCHANGED <<disk, ram, bootfs, left, open, saver, hist>>

(* A command that fails before the extraction ends the script.             *)
Fail(u) ==
  /\ boot = "up" /\ phase[u] \in {"start", "download"}
  /\ Go(u, "failed")
  /\ UNCHANGED <<disk, share, ram, bootfs, job, handle, left, open, saver, hist>>

UpgradeStep(u) ==
  \/ OpenDownload(u) \/ EndDownload(u) \/ Assemble(u) \/ FetchSum(u)
  \/ Verify(u) \/ RemountRw(u) \/ Backup(u) \/ OpenArchive(u)
  \/ \E m \in Members : BeginMember(u, m)
  \/ EndMember(u) \/ Extracted(u) \/ ExtractFails(u) \/ Sync(u) \/ Restore(u)
  \/ RemountRo(u) \/ Clean(u) \/ Fail(u)

(* The user leaves an archive, with or without its checksum, for           *)
(* "batocera-upgrade manual".                                              *)
CopyArchive(r) ==
  /\ boot = "up" /\ \A u \in Upgrader : phase[u] = "idle"
  /\ file["archive"] = None /\ runs < MaxRuns
  /\ \E c \in {Whole(r), Torn(r)} : file' = [file EXCEPT !["archive"] = c]
  /\ md5' \in {None, r}
  /\ UNCHANGED <<disk, ram, bootfs, procs, saver, hist>>

-----------------------------------------------------------------------------
(* batocera-save-overlay.                                                  *)

(* With a size as argument the stored overlay is removed first.            *)
SaveStart ==
  /\ boot = "up" /\ saver = "idle"
  /\ bootfs' = "rw"
  /\ overlay' \in {overlay, None}
  /\ saver' = "create"
  /\ UNCHANGED <<kernel, squash, update, bootconf, backup, dirty, share, ram,
                 procs, hist>>

SaveCreate ==
  /\ boot = "up" /\ saver = "create"
  /\ IF overlay # None \/ bootfs = "rw"
     THEN /\ overlay' = IF overlay # None THEN overlay
                        ELSE [rel |-> run.images["batocera"].rel, clean |-> TRUE]
          /\ saver' = "mount"
     ELSE UNCHANGED overlay /\ saver' = "ro"
  /\ UNCHANGED <<kernel, squash, update, bootconf, backup, dirty, share, ram,
                 bootfs, procs, hist>>

SaveMount ==
  /\ boot = "up" /\ saver = "mount"
  /\ IF bootfs = "rw" THEN overlay' = [overlay EXCEPT !.clean = FALSE] /\ saver' = "rsync"
               ELSE UNCHANGED overlay /\ saver' = "ro"
  /\ UNCHANGED <<kernel, squash, update, bootconf, backup, dirty, share, ram,
                 bootfs, procs, hist>>

(* rsync --delete makes the file a copy of the running overlay; umount     *)
(* closes it.                                                              *)
SaveRsync ==
  /\ boot = "up" /\ saver = "rsync"
  /\ overlay' = [rel |-> run.images["batocera"].rel, clean |-> TRUE]
  /\ saver' = "ro"
  /\ UNCHANGED <<kernel, squash, update, bootconf, backup, dirty, share, ram,
                 bootfs, procs, hist>>

SaveRo ==
  /\ boot = "up" /\ saver = "ro"
  /\ IF Busy THEN UNCHANGED <<bootfs, dirty>>
             ELSE bootfs' = "ro" /\ dirty' = {}
  /\ saver' = "idle"
  /\ UNCHANGED <<kernel, squash, update, overlay, bootconf, backup, share, ram,
                 procs, hist>>

SaveStep == SaveStart \/ SaveCreate \/ SaveMount \/ SaveRsync \/ SaveRo

-----------------------------------------------------------------------------
(* Every process ends; what is on the disks stays, but for the members     *)
(* that were not synced.                                                   *)
Stop ==
  /\ boot' = "off" /\ img' = "batocera" /\ run' = None /\ applied' = None
  /\ bootfs' = "ro"
  /\ phase' = [u \in Upgrader |-> "idle"]
  /\ job' = [u \in Upgrader |-> NoJob]
  /\ handle' = [u \in Upgrader |-> NoFile]
  /\ left' = [u \in Upgrader |-> {}]
  /\ open' = [u \in Upgrader |-> None]
  /\ saver' = "idle"
  /\ dirty' = {}
  /\ UNCHANGED <<squash, overlay, backup, share, runs>>

Reboot ==
  /\ boot = "up" /\ saver = "idle" /\ \A u \in Upgrader : phase[u] = "idle"
  /\ Stop
  /\ UNCHANGED <<kernel, update, bootconf, cuts, cut>>

Tear(f, m, lost) ==
  IF m \in lost /\ f # None THEN [f EXCEPT !.whole = FALSE] ELSE f

PowerLoss ==
  /\ boot \notin {"off", "oops"} /\ cuts < MaxCuts
  /\ cuts' = cuts + 1 /\ cut' = cut \cup Lost
  /\ Stop
  /\ \E lost \in SUBSET dirty :
       /\ kernel' = Tear(kernel, "Image", lost)
       /\ update' = [s \in SIMG |-> Tear(update[s], s, lost)]
       /\ bootconf' = IF Conf \in lost /\ bootconf = "stock" THEN "torn"
                      ELSE bootconf

Next ==
  \/ PowerOn \/ InitStep
  \/ \E u \in Upgrader : Start(u) \/ UpgradeStep(u)
  \/ \E r \in Release : CopyArchive(r)
  \/ SaveStep
  \/ Reboot \/ PowerLoss

Spec == Init /\ [][Next]_vars

(* init runs alone and does not wait; the user powers a dead device on.    *)
FairSpec == Spec /\ WF_vars(PowerOn) /\ WF_vars(InitStep)

-----------------------------------------------------------------------------
(* What the next boot will run, as far as the disk tells.                  *)
Staged(s) == IF update[s] = None THEN squash[s] ELSE update[s]
NextImages == [s \in SIMG |-> Staged(s)]

IsWhole(c) == c.whole
Damaged(c) == {c, [c EXCEPT !.whole = FALSE]}

(* A boot is atomic, power cuts included: whatever init has promoted when  *)
(* the power fails, the next boot runs the images the last one would have  *)
(* (init 64-96).  A boot whose kernel is torn does not begin.              *)
Atomic == INSTANCE AtomicBoot WITH
  Image   <- SIMG,
  Content <- File,
  Whole   <- IsWhole,
  Damage  <- Damaged,
  Initial <- [s \in SIMG |-> Whole(Factory)],
  next    <- NextImages,
  running <- IF boot = "up" THEN run.images ELSE None
BootIsAtomic == Atomic!Spec

(* What the boot relies on: a root runs iff the device is up; when it is   *)
(* down what was written is on the disk or lost, and nothing is mounted.   *)
RunningIffUp == /\ boot = "up" <=> run # None
                /\ boot # "up" => dirty = {} /\ saver = "idle"

(* init leaves no .update behind: it has promoted every image before the   *)
(* one it is at, and all of them before it mounts the root (init 64-96).   *)
Promoted ==
  /\ boot \in {"promote", "overlay"} /\ img = "rufomaculata"
       => update["batocera"] = None
  /\ boot = "overlay" => update[img] = None
  /\ boot \in {"fill", "mount"} => \A s \in SIMG : update[s] = None

(* A process that reads or writes a file has it: the archive an upgrade    *)
(* unpacks is in place or kept by its handle, the overlay that is mounted  *)
(* is there.                                                               *)
FilesHeld ==
  /\ saver \in {"mount", "rsync"} => overlay # None
  /\ \A u \in Upgrader :
       /\ handle[u].at \in {"parts", "archive"} => file[handle[u].at] # None
       /\ handle[u].at = "deleted" => handle[u].now # None
       /\ phase[u] = "extract" => handle[u].at \in {"archive", "deleted"}
                                  /\ handle[u].was # None

(* The inductive invariant: what the promotion and the refinement rest on. *)
IInv == TypeOK /\ RunningIffUp /\ Promoted /\ FilesHeld

(* The device never ends in the rescue shell of init unless an extraction  *)
(* was interrupted after the last one that completed: power cuts in the    *)
(* promotion, the download, the save of the overlay or the restore of the  *)
(* boot files are survived (init 64-96, batocera-upgrade 262-288).         *)
BootsUnlessTorn == boot = "oops" => "extract" \in cut

(* Kernel and both root images are of one release in every system that     *)
(* comes up, through any number of power cuts during the promotion of the  *)
(* two images, which init does one after the other (init 64-78).           *)
ComesUp == boot # "up" /\ boot' = "up"
LayersAgree ==
  [][ComesUp /\ "extract" \notin cut
     => \A s \in SIMG : run'.images[s].rel = run'.kernel]_vars

(* The overlay copied over the root was saved on the release of that root  *)
(* ("remove the overlay when updating", init 71-75), one interruption      *)
(* allowed: after a power cut between the two renames of the first image   *)
(* the second image drops the overlay again.                               *)
OverlayFresh ==
  [][ComesUp /\ cuts <= 1 => applied \in {None, run'.images["batocera"].rel}]_vars

(* The same, whatever was interrupted.                                     *)
OverlayAlwaysFresh == boot = "up" => applied \in {None, run.images["batocera"].rel}

(* Unless the power, the extraction or the restore failed while the stock  *)
(* configuration was in place, the user's one is on /boot or in its backup *)
(* (batocera-upgrade 246-260, 290-301).                                    *)
UserConfKept ==
  "conf" \notin cut => "user" \in {bootconf, backup}

(* The same, whatever was interrupted.                                     *)
UserConfAlwaysKept == "user" \in {bootconf, backup}

(* An upgrade that reports success has left both images whole and of one   *)
(* release for the next boot (batocera-upgrade 324).                       *)
SuccessMeansStaged ==
  \A u \in Upgrader : phase[u] = "success" =>
    \A s \in SIMG : Staged(s) = Whole(handle[u].was.rel)

(* A whole update that init finds is running in the end, however often the *)
(* power fails on the way (init 64-120).                                   *)
StagedRuns ==
  \A r \in Release :
    (boot = "promote" /\ kernel = Whole(r) /\ \A s \in SIMG : Staged(s) = Whole(r))
      ~> (boot = "up" /\ \A s \in SIMG : run.images[s] = Whole(r))

(* Its safety half: until it runs, no step of init and no power cut loses  *)
(* it, and init does not fail on it (init 64-120).                         *)
OnDisk(r) ==
  /\ boot \notin {"up", "oops"} /\ kernel = Whole(r)
  /\ \A s \in SIMG : Staged(s) = Whole(r)

Runs(r) == boot = "up" /\ \A s \in SIMG : run.images[s] = Whole(r)

StagedKept == [][\A r \in Release : OnDisk(r) => OnDisk(r)' \/ Runs(r)']_vars

=============================================================================
