# batocera.pocket: a verification development

batocera.pocket is a Linux distribution for handheld consoles, built with
Buildroot. Most of the repository is recipes, patches and configuration of
other people's programs. Its own logic is a few dozen shell and Python programs
that keep state on flash cards, in configuration files and in flag files, that
udev, init, EmulationStation (ES) and the user start whenever they like, and
whose power is cut without notice. This directory models that logic in TLA+,
checks it with TLC and proves part of it with TLAPS.

Paths below are relative to the root of the repository; `scripts/` is
`package/batocera/core/batocera-scripts/scripts/`, `init.d/` is
`board/batocera/fsoverlay/etc/init.d/`, and `configgen/` is
`package/batocera/core/batocera-configgen/configgen/configgen/`. `PROJECT.json`
maps every definition to its lines.

## 1. Inventory

| Component | State it keeps | Operations | Who touches the same state |
|---|---|---|---|
| Update and boot: `scripts/batocera-upgrade`, `scripts/batocera-save-overlay`, `package/batocera/boot/batocera-initramfs/init` | `/boot`: kernel, two squashfs images, their `.update`, the overlay, `batocera-boot.conf` and its backup; `/userdata/system/upgrade`: archive, parts, md5 | download, check, extract, sync, restore, clean up; save the overlay; promote the images at boot, drop or fill the overlay, mount the root | several upgrades (ES and a shell), batocera-save-overlay; the mount mode of `/boot` is shared by all |
| Settings: `package/batocera/core/batocera-settings/0001-lock-and-atomically-replace-config-writes.patch` | `batocera.conf`, a lock file, temporary files | `batocera-settings-set` of several keys, `-get` | every program of the system |
| Services: `scripts/batocera-services`, `init.d/S99userservices` | the key `system.services`, `custom.sh` | enable, disable, migration of `custom.sh`, start at boot | user and ES through the settings file |
| Storage pool: `scripts/batocera-storage-manager` | `/userdata/roms`, `/userdata/.roms_base`, the drives, the mergerfs mount, `mergerfs.roms` in `batocera-boot.conf`, a lock | detect, refresh, merge, eject, remove | a process per event; ES; `init.d/S12populateshare`; whoever adds games |
| Hotplug during boot: `scripts/batocera-storage-udev`, end of `init.d/S11share`, `detect` and `remove` of the storage manager | a queue directory, the flag `batocera.share.mounted`, a lock per drive, a file per disk while the user is asked about it | queue, forget, work off, mark ready; detect, mount, ask, unmount | udev workers, init, background managers, ES |
| Launcher: `configgen/emulatorlauncher.py` and the modules it sets a game up with (`utils/squashfs.py`, `utils/evmapy.py`, `utils/hotkeygen.py`, `utils/gpu_profile.py`, wheels, video mode) | what it changed for the game: screen mode, mouse, hotkey context, GPU, squashfs mounts, calibrators; evmapy | set up, run, put back in `finally`; a thread that follows the controllers | a second launcher after a kill, udev, `batocera-es-swissknife` with `--emukill` or `--kodi` |
| Hotkey daemon: `package/batocera/utils/hotkeygen/hotkeygen.py` | a pid file, a context file, a table of open devices, the keys it holds down | start, listing, udev events, SIGHUP, buttons and chords | the launcher, the user's hands, udev, S90hotkeygen |
| LEDs: `package/batocera/utils/batocera-led-handheld/` | the lights, `BLOCK_FILE`, the daemon's memory of what it painted | one pass a second; flashes; ES's colour picker; the service | short-lived processes of the same program |
| Configuration files of the emulators: the generators under `configgen/generators/` | one or more files per emulator, kept from launch to launch | read, apply rules, apply the user's own settings, write | the emulator's menus, the user, other units that share a file, power cuts |
| Power button and dock: `scripts/batocera-shutdown` | flag files in `/var/run` | press, delayed press, release, fake suspend, resume, undock monitor | a process per button event, two monitors |
| Resize: `init.d/S02resize` | partition table, trigger in `batocera-boot.conf` | seven steps in one boot or over several | power cuts |
| `/userdata`: `init.d/S11share`, `scripts/batocera-mount` | the mount | try devices, repair, fall back to RAM | udev |
| Data init: `init.d/S12populateshare`, `init.d/batocera-datainit-sync-managed` | default files, a stamp | copy, compare, stamp | power cuts |
| CPU limit, fans, night mode: `scripts/batocera-cpu-limit`, `scripts/qcom-fan`, `scripts/batocera-nightmode` | pid files, caps, curves | daemon life cycle and control loop | command lines, settings watchers |
| Network, audio, battery checker, content tools, formatters, build and release scripts | little or none of their own | - | - |

How they interact: `batocera-boot.conf` and the mount mode of `/boot` join the
update, the overlay and the pool; `batocera.conf` joins everything else; udev
events reach the storage manager directly or through the queue, depending on
how far the boot is, and reach the launcher's monitor thread, evmapy and the
hotkey daemon at once; the pool stands on what S12populateshare makes of
`/userdata/roms` before a drive is there; the launcher writes the hotkey
daemon's context and runs the generators, which read and write the emulators'
files.

What is hard in this code, and hard to test: power lost between two renames, a
`mv` and what records it, a write and its sync, the emptying of a file and its
text; commands that run at once with a lock around one of them or none (pool,
services, upgrade); state read by one process and written back by another
(services, `mergerfs.roms`, the lights a flash restores); a queue listed once
while it is filled (hotplug), or a listing that races the events of what it
lists (hotkeys); exceptions in the middle of setting something up (launcher);
`rsync`, `tar` and `mv` that fail half way; time-outs that give up a lock
(refresh) or a block (LEDs); a file that one launch writes for one game and the
next reads for another (generators). `PROJECT.json` lists 40 such hazards with
the line where each bites and the properties that would catch it.

What makes each modelled component correct:

- **Update**: a boot runs one release, whole, in all layers; however often the
  power fails it is the one the last boot would have run or a completely staged
  one; the user's boot configuration survives; success is only reported when the
  next boot will have it; an overlay is never put over another release's root.
- **Settings**: a write is one atomic step on the current file; a cut leaves a
  state the file was in, no older than the last sync; nobody waits for ever.
- **Services**: the list stays well formed; a command does what it says.
- **Pool**: no file of the user is deleted, none is taken off a drive, there is
  one mount and it follows the configuration.
- **Hotplug**: what is plugged in gets mounted, or it is known which line passes it
  over; no mount outlives its drive.
- **Launcher**: what a launch changed is put back whatever raises and wherever;
  the rom asked for runs; evmapy follows the pads and ends with the game, unless
  the launcher is killed.
- **Hotkeys**: the last context signalled is the one in use; a device is read
  once; an unplugged one does not end the daemon; no key stays down.
- **LEDs**: once the settings rest, the lights show what the daemon's policy says.
- **Configuration files**: no game plays with a value chosen for another one
  where the generator settles it; the user's own settings win; what he set in the
  emulator stays; a torn file does not end every later launch.

## 2. Modules and plan

| Order | Module | Models | Uses |
|---|---|---|---|
| 1 | `AtomicBoot` | what the images promise (abstract) | |
| 2 | `OtaUpgrade` | update, overlay, initramfs | `Atomic == INSTANCE AtomicBoot` |
| 3 | `OtaProofs` | theorems on 2: any number of upgrades; one at a time | |
| 4 | `AtomicStore` | what a settings file promises (abstract) | |
| 5 | `SettingsStore` | `batocera-settings-set` | `Store == INSTANCE AtomicStore` |
| 6 | `Services` | services, composed with 5 | EXTENDS `SettingsStore` |
| 7 | `SettingsProofs` | theorems on 5 and 6 | |
| 8 | `StoragePool` | pool | |
| 9 | `PoolProofs` | theorems on 8 | |
| 10 | `HotplugQueue` | queue, udev helper, manager's mount step | |
| 11 | `HotplugProofs` | theorems on 10 | |
| 12 | `Launcher` | a launch, its exceptions, the monitor thread, kills | |
| 13 | `LauncherProofs` | theorems on 12 | |
| 14 | `HotkeyDaemon` | hotkeygen with the launcher as its client | |
| 15 | `HotkeyProofs` | theorems on 14 | |
| 16 | `Leds` | daemon, flashes, service over five kinds of driver | |
| 17 | `LedsProofs` | theorems on 16 | |
| 18 | `ConfigRules` | the vocabulary of rules, and how a set of them treats a key | |
| 19 | `LibretroCores`, `RetroarchRules`, `SwitchRules`, `NintendoRules`, `SonyRules`, `ArcadeRules`, `ConsoleRules`, `EngineRules` | for each file of each generator, what a launch does to every key | EXTEND 18 |
| 20 | `ConfGen` | the life of such a file over launches, edits, cuts | EXTENDS 18, takes the tables as a constant |
| 21 | `ConfGenProofs` | theorems on 20, for any tables | |

`MCOta`, `MCSettings`, `MCServices`, `MCPool`, `MCHotplug`, `MCLauncher`,
`MCHotkeys`, `MCLeds` and `MCConfGen` give the constants values for TLC.

What the plan has left, the most valuable first:

1. `FakeSuspend`: `batocera-shutdown`. Button processes, the delayed press, the
   undock monitor and their flag files. Abstract specification: a device that is
   on, asleep or off. Properties: every press is answered, resume puts back what
   suspend took, a monitor left behind does not act on a later suspend.
2. `ResizeShare`: the steps of `S02resize` under power cuts; the partition ends
   formatted and the trigger is gone.
3. `ShareMount`: devices, repair and fallback; composed with `HotplugQueue`.
4. `DatainitSync`: copies and their stamp, with the sync model of `OtaUpgrade`.
5. `NightMode`: composed with `SettingsStore`; a watcher of `close_write`
   against a file that is replaced by rename.
6. `CpuLimit`, `FanDaemons`: pid files and two starters; tiers of caps.

The hazards of these, at their lines:

- `scripts/batocera-shutdown:765`: the flag of fake suspend is set after the whole
  suspend sequence; a press in between starts it again. `:926`: `read -t 60` ends the
  monitor's loop when no udev event comes for a minute, so the longer countdown runs
  only while events come. `:961`: the monitor "escalates" by calling
  `batocera-shutdown 1` while the screen-off flag exists. `:1094`: the delayed press
  and the release race for one file; the `rm` decides.
- `init.d/S02resize:188`: power fails after the partition was grown and before mkfs.
- `init.d/S12populateshare:55`: a `cp -r` of a directory that is cut is never
  completed, since the directory is there.
- `init.d/batocera-datainit-sync-managed:286`: the stamp is renamed into place with
  nothing synced before it.
- `scripts/batocera-mount:93`: the repair mounts a second time after an unmount that
  may fail.
- `scripts/batocera-cpu-limit:396`, `:660`: the check for a running daemon and its
  start are two steps; the cap is lifted when the mode turns off.
- `scripts/qcom-fan:330`: daemons are found by pid files and killed by pid.
- `scripts/batocera-nightmode:458`: `inotifywait -e close_write` on a file that is
  replaced by rename sees no event; the interval is what ends the wait.
- `scripts/batocera-es-swissknife:267`: `sed -i` edits `batocera.conf` with no lock
  while ES sets options.

## 3. The models

### OtaUpgrade

State: the files of `/boot` as `[rel, whole]` records (`kernel`, `squash`,
`update`), `overlay` with the release it was saved on and whether it was closed
cleanly, `bootconf` and its `backup`, `dirty` (members written, not synced), the
download (`file`, `md5`), the boot stage (`boot`, `img`), the running system
(`run`, `applied`), the mount mode of `/boot` (`bootfs`) and per process
`phase`, `job`, `handle`, `left`, `open`. An action is a command of the script:
`Start` .. `Clean` follow `batocera-upgrade` from its arguments to its exit
trap; `SaveStart` .. `SaveRo` follow `batocera-save-overlay`; `PromoteImage`,
`DropOverlay`, `FillOverlay`, `MountRoot` follow `init`. `tar` opens a member
(torn from then on) and completes it in two actions, so that cuts and other
processes come in between; open files follow Unix rules (`Unlink`, `Source`: a
removed archive is still read through its handle, a truncated one is not). An
upgrade whose source changes while it reads can only fail, as `xz` checks its
blocks. `PowerLoss` may damage any member that is not synced.

Abstracted: the contents of a release, progress output, free-space arithmetic
(a check before the download may end the script: `Start`), the proxies and
mirrors the url is made from. `rename` on the FAT `/boot` is atomic and what
`mv` has renamed in `init` survives a cut; what `tar` has written survives only
once synced.

Abstract specification: `AtomicBoot` has two variables, the images the next boot
will run and those that run. The refinement maps `next` to "the `.update` if
there is one, the image otherwise", which no step of the promotion changes.

### SettingsStore, Services

`SettingsStore` has an action per system call of the patched writer: lock, read,
make the temporary file, write it, rename, sync the directory, unlock. `Fail` is
any call that fails, `Kill` the end of the process at any point, `PowerLoss`
picks one of the states in `durable`. `Garbage` is a file that is not text. The
reading and writing of one key in the text is the library's (external).
`AtomicStore` is the promise; `conf` and `durable` are mapped to themselves.

`Services` adds processes that read the list *outside* the lock (`Command`)
and then run the whole writer on it, and S99userservices with its migration.

### StoragePool

Files are `<<directory, name>>` pairs on three places: `raw`
(`/userdata/roms` under any mount), `base` (`.roms_base`) and `card` (each
drive). `pool` is the stack of mounts; `Visible` is what a user sees. A command
runs through the steps of `pc`; `move` is one action per directory and `wipe`
one per entry, since power may fail between them. `Begin` records in `overlap`
that two commands run that no lock keeps apart; refresh is the only command with
a lock, and `Forced` is its time-out. `GiveUp` is the unmount that does not
succeed (`stuck`). `Reboot` is a power cut at any moment followed by a boot;
`Populate` is S12populateshare on whatever is visible by then.

### HotplugQueue

A *disk* is what is plugged in; a *drive* is what is mounted, a partition or a disk
that has none (`Parent`). Each drive has its udev events and one handler at a time
(udev runs the events of a device in order), `echo > file` is two steps
(`MakeFile`, `WriteFile`), S11share goes over a listing taken once (`List`, `Read`,
`Remove`, `Ready`), and managers run in the foreground of S11share or in the
background. `detect` is `Flag` (the file `storage.pending` of the parent disk,
storage-manager:551-556), `Lock` (a second detect of the drive gives up), `Look`
(`/proc/mounts`), then `Mount`, which may fail (232-236), or `Keep`; either may
touch the flag for the whole disk, as a drive with roms that is not configured is
put to the user (`Ask`). `remove` is `Find` and `Unmount`, and `ClearFlag` for the
removal of the disk itself. The user answers `Merge` or `Ignore`; the second detects
all drives of the disk again.

`missed` is history: the drives that are there and that a line of the code has
passed over since they came. Each action that does so says so at its place (`Miss`):
`Flag` (the disk's flag is there, whichever partition it is for), `Keep` (a mount of
an earlier plug, which its own removal then ends), `Mount` (it failed), `Unmount` (a
late removal of an earlier plug), `MakeFile` (S11share has taken its listing), `Read`
(the file is there and not yet written). `Followed` says that there are no others.

### Launcher

`main` is the next step of `main()` and `start_rom`: `SetUp` goes down through
`mount` .. `play`, `PutBack` up through the `finally` blocks and `__exit__`s from
the innermost. A step that may raise has a disjunct that goes to the handler of
the block it is in (`Raise`), with what it has changed by then. `own` are the
launcher's local variables, which a kill loses; `spoiled` records what a kill or
a failed command left changed, and the properties are stated up to it. The
monitor thread is `Scan` (a udev event, the list of controllers read anew),
`StopEvmapy`, `Prepare`, `StartEvmapy`, interleaved with everything; the objects
it shares with the list are `revived`. `Kill` is the end of the process at any step:
`emu_kill` (`--kodi`, `--emukill`), hotkeygen's SIGTERM, a crash. evmapy is a process of
its own and survives it, as it does in the code; only `--emukill` goes on to stop it
(batocera-es-swissknife:135-136), which is `KillOrphans`, at any moment after or
without a kill. What survives is in `spoiled` until a launch that starts evmapy,
which ends by stopping it.

Left out: what the HUD and the evmapy files contain, guns, the mover of outputs on
dual screens, the values of the GPU governors, the numbering of pads by wheels. The
list of online controllers is keyed by GUID in the code (emulatorlauncher.py:892), so
that two pads of one model share an entry; in the model no two pads have one GUID, and
nothing is said of such a pair.

### HotkeyDaemon

The daemon is `pc`: the context is read, the pid file is written (emptied, then
written), the monitor starts, devices are listed and opened, and from then on there
is a handler for SIGHUP. `StartDaemon` writes the pid as `start-stop-daemon -m`
does, before the program has run a line. A device has a node (`there`), events udev
has sent and the daemon has not read (`udev`), and descriptors (`fds`, `byPath`,
`queue`, `pressed`, `chords`), so that one device may be open twice. `ReadEvent`
is a press or release with the single key and the chords it completes or ends.
`SaveContext` empties and then writes the file; `Signal` finds no pid, a pid
without a handler (the daemon ends), or a handler. Of several free descriptors any
one is taken.

The properties exclude the races the model shows and name each: a signal that
found an empty pid file (`missed`), a device listed while its `add` was unread
(`raced`), keys that were down when their device, context or panel changed
(`orphans`).

Left out: `--send` and `--list`, the focus of sway windows, the reset of the mouse,
mapping files that change under the daemon, `batocera-hotkeys` but for `--reload`.

### Leds

A light is a hue and the number of times the brightness was applied to it, since
`get_color` reads back what `set_color` has already scaled. `device` is one of five
layouts: a split status LED, a ring that shows both, pwm, `rgbledaddr`, the Legion.
The daemon's pass is `PassDisabled`, `Initialise`, `Refresh`, `StatusLed`, `Gate`,
`Clear`, `Show`, `Wake`; a flash is `Notice`, `ClearBlock`, `Block`, `Flashing`,
`Frame`, `RestoreLight`, `Unblock`. `BLOCK_FILE` is none, zero, fresh or old,
and is read and cleared in two steps (`Gate`, `Clear`; `Notice`, `ClearBlock`): a zero
is written over a zero as well (color_changes_allowed, 490-491), so that either may
erase a block that was written in between. `StartDaemon` is S51led-handheld, which
starts nothing while `system.led-handheld` is 0 (lines 10-11): a daemon that is
down need not come back then, so that `DisabledGoesDark` asks that it runs. It may come
back all the same: the script reads that setting before it starts the program, and the
other setting that disables the lights does not keep it from starting.

The daemon remembers the colour it last showed for the battery (`prevblock`) and, but
on a light of the battery's own, paints again only when it is another. `touched` is
history: whether the light is what it remembers ("no"), or was painted by a flash, the
colour picker or the service ("others"), or by the daemon itself when it was enabled:
that painting (`Initialise`, batocera-led-handheld.py:366-386) is not remembered
("enabling"), so that a battery that comes back to the remembered colour is not
painted again (:458).

Left out: the arithmetic of an effect's colours, the probing of sysfs, the printing
commands, `blink_effect`.

### ConfigRules, the tables, ConfGen

A generator is a long list of assignments to keys of files. What can go wrong is
not one assignment but what happens to a key the next launch does not mention, so
each assignment is abstracted to *whether, when and in which order* it is made:
`Always`, `When` (an option, the game, the players, the machine), `Either` (written
or removed), `Gone`, `RemovedWhen`, `Over`, `Seed`, `Made`. A `Unit` is a file as one
generator treats it: made anew or read first, by a reader that raises on a torn file
(`Strict`) or takes it as empty (`Tolerant`), with the user's own settings after the
rules (`Custom`; `Masked` where another option keeps them out) and rules that come
even after those (`Late`, of guns). Values are abstracted to whose they are: of this
launch, of an earlier one, of the user's settings, of the emulator's menus.

`ConfGen` follows one key of one file, any of them, through launches of every unit
that shares the file: `Launch`, `Open` or `Refuse`, `Apply`, `Empty`, `Write` (two
steps, nothing synced), `Edit` in the emulator, `Quit`, `Delete`, `Cut` anywhere.
Keys that every unit treats alike are one key (`KeysOf`), which is a reduction and
no loss: a key's behaviour depends on nothing but how the units treat it.

The tables are read from the generators line by line:

| Module | Files of |
|---|---|
| `LibretroCores`, `RetroarchRules` | the core options and `retroarchcustom.cfg` of RetroArch (`libretroOptions.py`, `libretroConfig.py`, `libretroControllers.py`, overlays) |
| `SwitchRules` | yuzu, eden and ryujinx, with their pads and motion |
| `NintendoRules` | dolphin, cemu, azahar, mupen64plus, gopher64, melonDS, drastic, skyemu |
| `SonyRules` | duckstation, pcsx2 and its ports, play, ppsspp, rpcs3, shadps4, vita3k |
| `ArcadeRules` | flycast, lindbergh, model2emu, supermodel, vpinball |
| `ConsoleRules` | bigpemu, xemu, xenia, yabasanshiro, ymir |
| `EngineRules` | home computers, engines and source ports: amiberry, vice, hatari, openmsx, mame's pads, gzdoom, ecwolf, dhewm3, theforceengine and some twenty more |

What reading them showed, beyond what the properties say, is in section 6.

## 4. What the runs check

| Run | Bounds | Question | Result |
|---|---|---|---|
| `ota_one` | 1 upgrade process, 2 runs, 1 interruption, 2 releases | Is the boot an atomic switch (`BootIsAtomic`, `IInv`), does only an interrupted extraction keep it from booting (`BootsUnlessTorn`), are the layers of one release (`LayersAgree`), is the overlay of that release (`OverlayFresh`), is the configuration kept (`UserConfKept`), is a success report true (`SuccessMeansStaged`)? | holds |
| `ota_live` | 1 run, 3 interruptions, fair | Does a staged update run in the end, however often the promotion is cut (`StagedRuns`)? | holds |
| `settings` | 2 writers, 2 keys | Are writes serialised (`StoreIsAtomic`, `IInv`), durable (`SettingsSurvive`), never partial (`NeverPartial`), and does no writer wait for ever (`WriterEnds`)? | holds |
| `services` | boot and a user, 2 valid names and one invalid, lists of up to 2 | Well-formed lists (`ListsAreGood`), serial commands do what they say (`SerialCommands`), `custom.sh` started (`CustomStarted`) | holds |
| `pool` | 2 drives, 2 commands, 2 directories, 2 games | Unless commands overlap: no game lost (`NothingLost`), drives untouched (`DrivesUntouched`), one pool (`OnePool`); `RefreshExcludes`, `IInv` | holds |
| `pool_lost` | the same, overlaps followed | Is a game ever deleted (`NothingEverLost`)? | **violated**: merge between the `rsync` and the `rm -rf` of eject |
| `hotplug` | a disk with 2 partitions, plugged in once, or one without, twice | No stale mount (`NoStaleMount`); what is there is mounted or on its way (`Followed`) and then mounted (`StaysMounted`), but for the drives that a named line passes over | holds |
| `launcher` | 2 launches, 2 roms of one name, 2 wheels, 1 pad, 2 paths, 2 changes of pads | Is everything put back (`Restored`), the right rom run (`RightRom`), evmapy stopped by a launch that started it and was not killed (`EvmapyStopped`), no pad read that is gone (`UnpluggedUnmapped`)? | holds |
| `hotkeys` | 1 device, 2 descriptors, 2 buttons, a chord, 2 plugs, 2 presses, 1 game, 1 reload, 1 panel | `ContextFresh`, `ReadOnce`, `SurvivesUnplug`, `NoStuckKey`, each but for the race it names | holds |
| `hotkeys_chord` | the same, a command on the chord, no plugs | Does a completed chord run its command (`ChordsRunCommands`)? | **violated**: it is handed on as a release |
| `leds` | 5 layouts, 2 colours, 2 flashes, 3 events | `DisabledGoesDark`, `EsColourReturns`, `BatteryColourHolds`; does the daemon's memory tell what is shown (`IInv`)? | holds |
| `confgen` | every key of every file of the tables, 1 cut | `NoLeftover`, `CustomWins`, `UserKept`, `LaunchEnds` | holds |

Why the bounds are enough. *Update*: two images are promoted one after the
other, so one interruption reaches every half-done state of one boot and one run
after it every repair; the loop of `init` has no memory between boots but the
disk, so three interruptions revisit the same disks. `Release` needs an old and a
new one; `Mixed` stands for more. *Settings*: a lost update needs two writers, a
key that is written and one that is not. *Pool*: a race needs two commands; a
file at stake needs a directory that both places have (`snes`, stock) and one only
the drive has. The games are two so that one can be added while another is
moved. `FollowOverlap` FALSE stops a behaviour at an overlap until the next
reboot: what the properties say afterwards is true by their hypothesis, and the
violation run follows it. *Hotplug*: two partitions of one disk share the flag and
are two files of the queue; a stale mount, a late removal and a flag that stays need a
disk that comes back. What both would show together, `MaxDisks` leaves to the proof:
the theorems are for any number of disks, drives and plugs.
*Launcher*: what a launch leaves behind shows in the next one, so two; a stale
squashfs directory needs a second rom of the same name; a calibrator is left
behind when the second wheel fails; a pad that goes and comes back under another
path is two changes. *Hotkeys*: a device that is opened twice needs a second
descriptor, an `add` and a `remove`; a chord needs two buttons; the context is
written, signalled and taken back within one game. *LEDs*: a lost block needs two
flashes, and three events reach any two changes in a row with one undone. That what
was painted on enabling is not remembered shows with five events; single
layouts were also checked with up to six
(`MaxDim` caps how often the brightness counts: a light scaled twice differs from
one scaled once, more often adds nothing). *Configuration files*: the state of a
key after a launch is its value and the file's, so that all sequences of launches
are reached without a bound; one cut can tear a file, and a second one tears it
from states the first has reached.

Bounds named in the models: `MaxRuns`, `MaxCuts` (OtaUpgrade, ConfGen), `MaxList`
(MCServices), `FollowOverlap` (StoragePool), `MaxPlugs` (HotplugQueue,
HotkeyDaemon), `MaxDisks` (HotplugQueue), `MaxLaunches`, `MaxChanges` (Launcher), `Fd`,
`MaxPresses`, `MaxGames`, `MaxReloads`, `MaxPanels` (HotkeyDaemon), `MaxEvents`, `MaxDim` (Leds).
None is used in a proof but as an arbitrary natural number, set or truth value.

Deadlock is checked where the system cannot stop: settings, services, pool and the
configuration files. It is off for the update (a device in the rescue shell of
`init` stays there, and the bounded counters end), the hotplug queue (the boot ends
and the drives have been plugged in as often as the bound allows), the launcher,
the hotkey daemon (it may end, and its bounds are used up) and the LEDs (a flash is
over, the events are used up).

Symmetry is used over the commands of `MCPool` and over the roms and paths of
`MCLauncher` (the two roms have one name either way, and no path is distinguished);
neither configuration checks liveness.

### Fairness

- `OtaUpgrade`: weak fairness of `PowerOn` and `InitStep`. init is the only
  process then and waits for nobody; the user powers the device on. Nothing is
  assumed of upgrades, and interruptions are bounded by `MaxCuts`.
- `SettingsStore`: weak fairness of each writer's progress past the lock (the
  kernel schedules it) and strong fairness of taking the lock (`flock` wakes its
  waiters). That a call fails or a process is killed is never relied on, though
  both may happen.
- `HotplugQueue`: weak fairness of S11share, of the handler of each drive and of
  each stage of the managers of a drive (the kernel schedules every process); none for
  the user.
- `Leds`: weak fairness of the daemon (it passes once a second; one that was stopped is
  started again only while LEDs are enabled, S51led-handheld:10-11), of time (`Age`)
  and of each flash once it has noticed its event; none for the user, the battery or ES.
- `ConfGen`: weak fairness of each step of a generator once it is started: opening
  (or refusing) the file, applying the rules, emptying it, writing it. None for
  launches, edits and cuts.

### Disagreements with what the repository says

Two runs expect a violation and `PROJECT.json` lists their findings. Further
properties are in the repository's words too and do not hold; each has a
configuration to be run by hand, and the passing runs state the same under the
weakest condition found that excludes it.

| Configuration | Property | What TLC shows |
|---|---|---|
| `MCOta_overlay.cfg` | `OverlayAlwaysFresh` ("remove the overlay when updating") | after an interrupted extraction a single `.update` is left; a cut between its rename and the `mv` of the overlay keeps the overlay |
| `MCOta_conf.cfg` | `UserConfAlwaysKept` ("backup boot files") | a run after an interrupted one backs up the stock file over the user's |
| `MCServices_sticks.cfg` | `EnableSticks` | two commands at once: the list is read outside the lock |
| `MCPool_masked.cfg` | `NothingMasked` ("instead of being masked") | boot without the drive, add a game, plug the drive in: `mv` refuses a directory that exists and the game is masked |
| `MCHotplug_boot.cfg` | `EveryDriveMounted` ("If booting, queue detect events") | not every drive is mounted: it is queued between the listing of the queue and the ready flag, or its file is read before it is written; the user is being asked about another partition of its disk, or the flag of an earlier plug was left behind (storage-manager:551-556); it comes back before its removal is handled; its mount fails |
| `MCLauncher_replug.cfg` | `PathsFollowed` ("intelligently revives the original controller object") | the monitor writes the new path into the object it compares with (emulatorlauncher.py:843, 908): a pad's second change of path is not noticed |
| `MCLeds_battery.cfg` | `BatteryAlwaysShown` ("default is: 10=CC3333"; "applied at boot and after re-enabling", line 363) | disabled and enabled while the battery asks for one colour, a handheld whose battery then returns to the colour before is not repainted (batocera-led-handheld.py:366-386, 458); with `Device = {"ring"}`, line 430 paints the user's colour over the battery's in each pass |
| `MCConfGen_custom.cfg` | `CustomAlwaysWins` | the options of guns come after the user's own (libretroConfig.py:1161), and mupen reads his only where the frame rate is not shown (mupenConfig.py:204) |
| `MCConfGen_torn.cfg` | `EveryLaunchEnds` | a file torn by a cut ends every later launch of a generator whose reader raises on it: UnixSettings catches only OSError, libretroConfig.py:393 only UnicodeError, which latin-1 never raises |

They need a power cut in a window of milliseconds (`MCOta_overlay`,
`MCConfGen_torn`), an interrupted extraction (`MCOta_conf`), two commands at once
(`MCServices_sticks`, `pool_lost`), or nothing but an ordinary sequence of use (the
others).

## 5. What is proved

All theorems hold for every value of the constants, under the named assumptions
of the modules (the distinguished values differ from the others; bounds are
natural numbers; what drives hold is typed; a handheld has a known layout; buttons of
a mapping are finitely many; rules are of the known kinds). Those on the services are under
the hypothesis `ServicesAssumption`, which `MCServices` assumes of its instance: the
values hold what the commands make of a good list. No proof has a gap.

- `OtaProofs`: `Invariance` (`IInv`), `TypeCorrect`, and `Refinement`: `OtaUpgrade`
  implements `AtomicBoot`, for any number of upgrade processes at once, runs and
  cuts. The invariant adds to the types that a root runs iff the device is up and
  nothing is unsynced when it is down, that `init` has promoted every image before
  the one it is at, and that a process has the files it reads. The second part is
  why `MountRoot` runs exactly `next`; the third types `Unlink` and the extraction.
  `Promoting` (`StagedKept`) is the safety half of `StagedRuns`: a completely staged
  release stays on the disk, each image in its `.update` or in place, through every step of
  `init` and every cut, and `init` does not fail on it, until it runs.
  The second half, `Booting`, `Keeping`, `Succeeding`, `Agreeing`, `Refreshing`, is for
  one upgrade at a time (`One`: any two upgraders are the same), and any number of
  its runs, interruptions and releases. The code takes this for granted: there is no
  lock, and with two upgraders `SuccessMeansStaged` fails (section 6). The invariant
  `OInv` says what an extraction has unpacked so far (`Unpacked`), that without an
  interrupted one everything to boot is whole and of one release (`Sound`), where
  the user's configuration is at each phase (`ConfKnown`), and who will drop an
  overlay of another release before it is used (`OverlayKnown`: the promotion at
  hand, or after one interruption the second image's, which is still to come).
- `SettingsProofs`: `Invariance`, `Refinement` (implements `AtomicStore`),
  `Partial` (`NeverPartial`), `Survival` (`SettingsSurvive`), for any number of
  writers, keys and values. The invariant is mutual exclusion (`LockExcludes`:
  being between lock and unlock is the same as holding the lock) and, resting on
  it, `ReadIsFresh`: what a writer has read is still what the file holds, so that
  its rename is the abstract `Write`. `Partial` strengthens `NeverPartial` by
  "no state a cut may leave is garbage".
  The second part, `ServicesInvariance`, `GoodLists` (`ListsAreGood`), `Serial`
  (`SerialCommands`), `CustomStarts` (`CustomStarted`), `ServicesOnStore` (the composed
  module implements `AtomicStore` too), is for any services, users and values.
  `ServicesInv` adds to `IInv` of the store and to the three properties that, until two
  commands have run at once, at most one process is busy and what it will write is the
  list with its command done (`OneAtATime`), and where the user's script is at each step
  of the boot (`CustomKnown`). What the loop of `do_disable` returns (`Without`: the list without the
  name) is proved for every list by induction: `Least` and `Induction` derive it for
  sets of numbers from the well-foundedness of `<`.
- `PoolProofs`: `Invariance`, `Single` (`OnePool`), `Exclusion`
  (`RefreshExcludes`), `Preservation` (`NothingLost`) and `Untouched`
  (`DrivesUntouched`), for any number of drives, commands, directories and games.
  The properties are not inductive: that the pool is down when files are moved
  (`PoolDown`) rests on no other command mounting it (`Alone`, and for refreshes
  `LockHeld`), what is mounted on the configuration not having changed
  (`SnapFresh`), and that the base may be deleted on its copy being complete
  (`Copied`). The proof reduces a step to the command that takes it (`OwnStep`)
  because all others are idle or at the lock (`OthersWait`).
- `HotplugProofs`: `Invariance`, `NoStale` (`NoStaleMount`) and `Following`
  (`Followed`), for any number of disks, drives, plugs and managers. `NoStaleMount` is
  inductive with the types and `Counted` (what is there was plugged in): whatever makes
  a mount stale leaves a removal behind it, in udev's queue, in the handler or in a
  manager. The proof follows the removal through these three, with lemmas on what
  `Append` and `Tail` do to a queue. `Following` is the safety half of `StaysMounted`: a
  drive that is there is, but for the lines that `missed` names, mounted since it came
  or still with one of the processes, so that only fairness is left to model-check.
  Nothing of an earlier plug may take it away, for which `QInv` says that what is known
  of a drive is of this plug or an earlier one (`Past`), that udev handles all of the
  earlier ones before it queues a file of this plug (`InOrder`, `Unqueued`), and that
  S11share takes a file from its list before it handles it (`ListKnown`); `FInv` is
  `QInv` with `Followed`. A detect that finds the lock taken leaves the drive to the
  one that has it (`Detected`).
- `LauncherProofs`: `Invariance`, `Restoring` (`Restored`), `Asked` (`RightRom`),
  `Leaving` (`EvmapyStopped`), `Following` (`UnpluggedUnmapped`), for any games, pads
  and launches. For each resource the invariant says who knows that it is changed:
  the launcher's own variables until the block that puts it back, `spoiled` from
  then on; `EvmapyKnown` says the same of evmapy, which a kill leaves running and the
  next launch that starts it takes over; `PadsKnown` says that a pad that is gone is in
  the monitor's list only with an event still to be read.
- `HotkeyProofs`: `Invariance`, `Fresh` (`ContextFresh`), `Once` (`ReadOnce`),
  `Surviving` (`SurvivesUnplug`), `Unstuck` (`NoStuckKey`), for any devices, mappings,
  contexts and bounds; a mapping has finitely many buttons.
  `InSync` says that a daemon that has read its context differs from the file only
  while the launcher is between its write and its signal. `OnceKnown` and `EventsKnown` are
  about udev's queue: between two `add`s of a device there is a `remove`, and the next
  event of a device that is read is that it leaves.
  `NoStuckKey` needs `KInv`: a key that is down was pressed for buttons that some
  descriptor still has pressed (`KeysKnown`), and each of those is held or its release is
  still to be read (`PressedKnown`).
- `LedsProofs`: `Invariance` (`IInv`), `DarkIsKept` (`DarkStays`), `ShownIsKept`
  (`ShownStays`), for any layouts, colours, flashes and number of events. The invariant
  adds to the types that a pass goes on only once the lights are enabled (`PassKnown`) and
  that, but for what others or its enabling painted, a single light shows the red, the
  green or the black the daemon remembers (`Remembered`): this is why it may skip painting
  it. `DarkStays` is the safety half of `DisabledGoesDark`: lights that are off and dark
  while no flash is under way stay so until they are enabled, a colour is picked or the
  service restarts. `ShownStays` is that of the other two: once the sliders have
  been read, no step of the daemon, wherever its pass was, changes a light that shows what
  the policy says.
- `ConfGenProofs`: `Invariance`, `Settling` (`NoLeftover`), `Customs`
  (`CustomWins`), `Keeping` (`UserKept`), for any table of rules (`TableAssumption`: each
  of the kinds of section 3), any units that share a file, and any number of cuts. The
  invariant says what each phase of a launch hands to the next (`Loaded`, `Applied`, `Opened`): a settled key in memory is never of an
  earlier launch, and the file in place is whole when the emulator plays. `Failing`
  (`RefusedByCut`): only a cut makes a launch fail, since a file is torn only while it is
  written or after a cut (`TornByCut`).
  `TableSettles` carries this to the tables: whatever weaker rules say of a key, one rule
  that always decides it is enough (the order of strengths in `Hows`). `Followed` is the
  reduction: every unit and every key of its file are treated as some key followed is.

TLC has checked each of these inductive invariants before its proof. Those of the
update, the settings, the pool and the LEDs are invariants of a run; the others
(`ServicesInv` on the instance of `MCServices_pass.cfg`, `KInv` on that of
`MCHotkeys.cfg`, `FInv` on that of `MCHotplug.cfg`, `TornByCut` on that of
`MCConfGen.cfg`) are conjunctions of the properties of a run and of facts about phases.
The action properties that no run lists (`StagedKept`, `DarkStays`,
`ShownStays`) and `RefusedByCut` were checked on the instances of `MCOta_live.cfg`,
`MCLeds.cfg` and `MCConfGen.cfg`.

Every safety property that a passing run checks is also proved. Only model-checked are
the liveness properties: `StagedRuns`, `WriterEnds`, `StaysMounted`, `DisabledGoesDark`,
`EsColourReturns`, `BatteryColourHolds` and `LaunchEnds`. Liveness
under fairness and `ENABLED` are beyond the prover; for all of them but `WriterEnds` and
`LaunchEnds` a theorem above says that what is on its way, or reached, is not lost again,
so that what is left to TLC is that it arrives. No module declares a recursive operator;
where a theorem needs induction over data it is over a set of numbers, as the library's
theorems that take an operator cannot be used.

## 6. Not modelled, and why

Beyond the plan of section 2: partitioning and formatting tools
(`batocera-format`, `batocera-install`: one command after the other, what can go
wrong is inside the tools), network and audio (the state is in connman and
pipewire), the battery checker (a loop that shows a message), content tools
(sequential), the build system and vendored patches. Of the storage manager,
`format` and the init scan are left out, and of its `detect` the partitions it passes
over for their type or label and the question about a disk that is blank (both leave the
drive alone for good), what `lsblk` may answer while a disk is going, and kernel names
that pass from one disk to another. Left out, too, is the start, stop and
status of a running service. Of the generators, those that only build a command
line, steam, flatpak, wine and the dosbox variants, cdogs, tr1x, applewin, xash3d,
raze, dxx-rebirth, yquake2, ioquake3, `libretroMAMEConfig.py` and the bezels.

Known and outside the runs:

- Two upgrades at once: `OtaUpgrade` models them and the theorems of `OtaProofs`
  cover them, but the runs have one process. With two (`Upgrader = {u1, u2}`)
  `SuccessMeansStaged` does not hold: one reports success while the other rewrites
  what it unpacked.
- `scripts/batocera-es-swissknife` edits `batocera.conf` with `sed -i` and without
  the lock (line 267). `SettingsStore` is about the writers that take it.
- Two merges at once may also move files off a drive through a pool mounted in
  between: `DrivesUntouched` has the hypothesis that commands do not overlap.
- A cut between the `mv` of `custom.sh` and its enabling leaves the service
  disabled: `CustomStarted` excludes it by `cut`.

Seen in the generators while their tables were written. The keys are in the
tables as rules that settle nothing (`When`, `RemovedWhen`), so that `NoLeftover`
does not speak of them; the rest is below what a table says:

- Keys of `retroarchcustom.cfg` that some launches write and others leave as they
  find them: `input_libretro_device_p3` and `_p4`, `video_shader_enable` (a shader
  that is "none"), `video_windowed_fullscreen`, `input_overlay_show_mouse_cursor`
  (guns the core does not know), `input_enable_hotkey_btn`, the `netplay_*` keys,
  `video_rotation`. Of the core options, `bluemsx_msxtype`. The bezels are retried
  on a dictionary that a first try has half modified.
- mupen64plus: the loop over absent players (`range(len + 1, 4)`) never unplugs
  the fourth. azahar marks `use_hw_shader_jit\default`, a key it does not set. The DSU client and motion keys of the yuzu family stay, as does the achievements'
  account once it was set. drastic's and ryujinx's trees are copied only where they
  are missing. duckstation puts the pad's prefix in front of the `true` of
  `RelativeMouseMode`.
- lindbergh compares with `==` where it means to assign (535-537) and a string with
  a tuple (823). flycast leaves the mapping of absent pads; vpinball's reader catches
  only duplicate options; xenia leaves options of the game before. The mame
  controllers share one dictionary by reference (`mameControllers.py:215`).
- openmohaa nests quotes; catacombgl cuts a value at its second "="; iortcw adds a
  line at every launch; openjazz flips its scaling at every launch; a torn `.plr` of
  openjkdf2 stays empty.
