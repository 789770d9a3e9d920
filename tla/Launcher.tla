------------------------------ MODULE Launcher ------------------------------
(***************************************************************************)
(* emulatorlauncher.py starts one game for EmulationStation: it mounts a   *)
(* squashfs rom, sets up wheels, the screen, the mouse, evmapy, the        *)
(* hotkeys and the GPU, runs the emulator, and puts everything back, also  *)
(* when a step raises.  Meanwhile a thread follows the controllers and     *)
(* starts evmapy anew for them.  A killed launcher puts nothing back.      *)
(***************************************************************************)
EXTENDS Naturals

CONSTANTS Game,
          Stem,        \* the name of each game's rom without its directory
          Player,      \* each starts with one pad
          Wheels,      \* how many wheels need a calibrator
          Path,        \* event devices; there is always a free one
          MaxLaunches, \* bound: games started
          MaxChanges   \* bound: how often pads are plugged or unplugged

ASSUME LauncherAssumption ==
  /\ Wheels \in Nat /\ MaxLaunches \in Nat /\ MaxChanges \in Nat

NoPath == "none"
NoGame == "no game"

ASSUME NoneAssumption == NoPath \notin Path /\ {NoGame, "none", "empty"} \cap Game = {}

VARIABLES
  main,       \* the next step of the launcher; "es" while none runs
  game,       \* the game asked for
  rom,        \* the game whose files are run
  error,      \* an exception is on its way up
  own,        \* the launcher's own variables
  launches,
  screen, mouse, context, gpu,   \* what a launcher changes
  mounts,     \* the directory under /var/run/squashfs of each stem
  wheels,     \* wheel calibrators run
  spoiled,    \* what a launcher failed to put back
  dev,        \* the path each player's pad has, if it is there
  changes,    \* how often pads were plugged or unplugged
  events,     \* the pads with udev events the monitor has not read
  unseen,     \* the pads with events before there was a monitor
  active,     \* _active_player_controllers: a path for each player
  revived,    \* the monitor has put its own object in the list
  monitor,    \* the next step of _controller_monitor_thread
  evmapy,     \* Stopped, or the path it reads for each player
  late        \* the monitor started evmapy when nobody would stop it

system == <<screen, mouse, context, gpu, mounts, wheels, spoiled>>
pads == <<dev, changes>>
thread == <<events, unseen, active, revived, monitor>>
vars == <<main, game, rom, error, own, launches, system, pads, thread, evmapy, late>>

Stopped == <<>>
Running == [Player -> Path \cup {NoPath}]

Setup == {"mount", "load", "wheels", "mode", "setmode", "mouse", "evmapy",
          "context", "generate", "boost", "run", "play"}
Teardown == {"unboost", "default", "stop", "hooks", "restore", "hide", "reset",
             "umount", "exit"}
Resource == {"screen", "mouse", "context", "gpu", "mount", "wheels", "evmapy"}

(* The variables main() and start_rom begin with.                          *)
Fresh == [mounted |-> FALSE, mode |-> "es", changed |-> FALSE, shown |-> FALSE,
          started |-> FALSE, saved |-> "unsaved", calibrates |-> FALSE]

Own == [mounted : BOOLEAN, mode : {"es", "other"}, changed : BOOLEAN, shown : BOOLEAN,
        started : BOOLEAN, saved : {"unsaved", "normal", "boost"}, calibrates : BOOLEAN]
Mounts == [{Stem[g] : g \in Game} -> {"none", "empty"} \cup Game]

StepTyped == main \in Setup \cup Teardown \cup {"es"} /\ error \in BOOLEAN

LauncherTyped ==
  /\ game \in Game \cup {NoGame} /\ rom \in Game \cup {NoGame}
  /\ launches \in 0 .. MaxLaunches /\ own \in Own
  /\ screen \in {"es", "other"} /\ mouse \in BOOLEAN
  /\ context \in {"default"} \cup Game /\ gpu \in {"normal", "boost"}
  /\ mounts \in Mounts /\ wheels \in BOOLEAN /\ spoiled \subseteq Resource

PadsTyped ==
  /\ dev \in [Player -> Path \cup {NoPath}] /\ changes \in 0 .. MaxChanges
  /\ events \subseteq Player /\ unseen \subseteq Player
  /\ active \in [Player -> Path \cup {NoPath}] /\ revived \subseteq Player
  /\ monitor \in {"none", "watch", "noticed", "stopped", "prepared", "dead"}
  /\ evmapy \in {Stopped} \cup Running
  /\ late \in BOOLEAN

TypeOK == StepTyped /\ LauncherTyped /\ PadsTyped

Init ==
  /\ main = "es" /\ game = NoGame /\ rom = NoGame /\ error = FALSE
  /\ own = Fresh /\ launches = 0
  /\ screen = "es" /\ mouse = FALSE /\ context = "default" /\ gpu = "normal"
  /\ mounts = [s \in {Stem[g] : g \in Game} |-> "none"] /\ wheels = FALSE
  /\ spoiled = {} /\ changes = 0 /\ dev \in [Player -> Path \cup {NoPath}]
  /\ \A p, q \in Player : p # q /\ dev[p] # NoPath => dev[p] # dev[q]
  /\ events = {} /\ unseen = {} /\ revived = {} /\ monitor = "none"
  /\ active = [p \in Player |-> NoPath] /\ evmapy = Stopped /\ late = FALSE

Go(step) == main' = step /\ UNCHANGED error
Raise(handler) == main' = handler /\ error' = TRUE

-----------------------------------------------------------------------------
(* Setting up.                                                             *)

Launch(g) ==
  /\ main = "es" /\ launches < MaxLaunches /\ launches' = launches + 1
  /\ game' = g /\ rom' = g /\ main' \in {"mount", "load"}
  /\ UNCHANGED <<error, own, system, pads, thread, evmapy, late>>

Squash(content) == mounts' = [mounts EXCEPT ![Stem[game]] = content]

(* An empty directory is taken, any other is run in place of the rom.      *)
Mount ==
  /\ main = "mount"
  /\ LET there == mounts[Stem[game]]
     IN \/ /\ there \in Game /\ rom' = there /\ Go("load")
           /\ UNCHANGED <<mounts, own>>
        \/ /\ there \notin Game /\ Squash(game) /\ Go("load")
           /\ own' = [own EXCEPT !.mounted = TRUE] /\ UNCHANGED rom
        \/ /\ there \notin Game /\ Squash("none") /\ Raise("exit")
           /\ UNCHANGED <<own, rom>>
  /\ UNCHANGED <<game, launches, screen, mouse, context, gpu, wheels, spoiled,
                 pads, thread, evmapy, late>>

(* The paths come from the command line EmulationStation has made.         *)
Load ==
  /\ main = "load"
  /\ \/ Go("wheels") /\ active' = dev
     \/ Raise("umount") /\ UNCHANGED active
  /\ UNCHANGED <<game, rom, own, launches, system, pads, events, unseen, revived,
                 monitor, evmapy, late>>

(* A wheel that cannot be set up leaves the calibrator of another running. *)
ConfigureWheels ==
  /\ main = "wheels"
  /\ \/ Go("mode") /\ UNCHANGED <<own, wheels, spoiled>>
     \/ /\ Wheels > 0 /\ Go("mode") /\ wheels' = TRUE
        /\ own' = [own EXCEPT !.calibrates = TRUE] /\ UNCHANGED spoiled
     \/ /\ Wheels > 1 /\ Raise("umount") /\ wheels' = TRUE
        /\ spoiled' = spoiled \cup {"wheels"} /\ UNCHANGED own
     \/ Raise("umount") /\ UNCHANGED <<own, wheels, spoiled>>
  /\ UNCHANGED <<game, rom, launches, screen, mouse, context, gpu, mounts,
                 pads, thread, evmapy, late>>

(* get_generator may know no such emulator; the mode of ES is read, and    *)
(* lowered where no mode is configured.                                    *)
LowerMode ==
  /\ main = "mode"
  /\ \/ Raise("reset") /\ UNCHANGED <<own, screen>>
     \/ /\ Go("setmode") /\ screen' \in {screen, "other"}
        /\ own' = [own EXCEPT !.mode = screen, !.changed = screen' # screen]
  /\ UNCHANGED <<game, rom, launches, mouse, context, gpu, mounts, wheels, spoiled,
                 pads, thread, evmapy, late>>

(* Mutant: the flag is set only where the mode differs from the one of ES  *)
(* after the game's mode was read.                                         *)
SetModeUnnoted ==
  /\ main = "setmode"
  /\ \/ Raise("restore") /\ UNCHANGED <<own, screen>>
     \/ Go("mouse") /\ screen' \in {screen, "other"} /\ UNCHANGED own
  /\ UNCHANGED <<game, rom, launches, mouse, context, gpu, mounts, wheels, spoiled,
                 pads, thread, evmapy, late>>

(* changeMode raises when its second try fails.  A mode that does not      *)
(* exist is left out, and noted as changed.                                *)
SetMode ==
  /\ main = "setmode"
  /\ \/ Raise("restore") /\ UNCHANGED <<own, screen>>
     \/ Go("mouse") /\ UNCHANGED <<own, screen>>
     \/ /\ Go("mouse") /\ screen' \in {screen, "other"}
        /\ own' = [own EXCEPT !.changed = TRUE]
  /\ UNCHANGED <<game, rom, launches, mouse, context, gpu, mounts, wheels, spoiled,
                 pads, thread, evmapy, late>>

(* The mouse, where the generator wants it, and the hooks of gameStart.    *)
ShowMouse ==
  /\ main = "mouse"
  /\ \/ Raise("restore") /\ UNCHANGED <<own, mouse>>
     \/ Go("evmapy") /\ UNCHANGED <<own, mouse>>
     \/ /\ mouse' = TRUE /\ own' = [own EXCEPT !.shown = TRUE]
        /\ (Go("evmapy") \/ Raise("restore"))
  /\ UNCHANGED <<game, rom, launches, screen, context, gpu, mounts, wheels, spoiled,
                 pads, thread, evmapy, late>>

-----------------------------------------------------------------------------
(* evmapy reads the pads it has a file for; prepare opens each for its     *)
(* axes.  (That wheels get the first numbers is left out.)                 *)

There(path) == \E p \in Player : dev[p] = path

Openable == \A p \in Player : active[p] # NoPath => There(active[p])

EnterEvmapy ==
  /\ main = "evmapy"
  /\ \/ (Raise("restore") \/ Go("context")) /\ UNCHANGED <<own, spoiled, evmapy, late>>
     \/ /\ Openable /\ Go("context") /\ evmapy' = active
        /\ own' = [own EXCEPT !.started = TRUE]
        /\ late' = FALSE /\ spoiled' = spoiled \ {"evmapy"}
  /\ UNCHANGED <<game, rom, launches, screen, mouse, context, gpu, mounts, wheels,
                 pads, thread>>

EnterContext ==
  /\ main = "context"
  /\ \/ Raise("stop") /\ UNCHANGED context
     \/ Go("generate") /\ context' = game
  /\ UNCHANGED <<game, rom, own, launches, screen, mouse, gpu, mounts, wheels,
                 spoiled, pads, thread, evmapy, late>>

(* The generator, the hud, and the start of the monitor thread.            *)
Generate ==
  /\ main = "generate"
  /\ \/ Raise("default") /\ UNCHANGED monitor
     \/ Go("boost") /\ monitor' = "watch"
  /\ UNCHANGED <<game, rom, own, launches, system, pads, events, unseen, active,
                 revived, evmapy, late>>

Boost ==
  /\ main = "boost" /\ Go("run")
  /\ \/ UNCHANGED <<own, gpu>>
     \/ own' = [own EXCEPT !.saved = gpu] /\ gpu' = "boost"
  /\ UNCHANGED <<game, rom, launches, screen, mouse, context, mounts, wheels, spoiled,
                 pads, thread, evmapy, late>>

(* Popen starts the emulator, or there is no such program.                 *)
RunCommand ==
  /\ main = "run" /\ (Go("play") \/ Raise("unboost"))
  /\ UNCHANGED <<game, rom, own, launches, system, pads, thread, evmapy, late>>

(* The emulator ends, by itself or killed by signal_handler, or reading    *)
(* from it fails.                                                          *)
GameEnds ==
  /\ main = "play" /\ (Go("unboost") \/ Raise("unboost"))
  /\ UNCHANGED <<game, rom, own, launches, system, pads, thread, evmapy, late>>

-----------------------------------------------------------------------------
(* Putting back: the finally blocks, innermost first.                      *)

Unboost ==
  /\ main = "unboost" /\ Go("default")
  /\ gpu' = IF own.saved = "unsaved" THEN gpu ELSE own.saved
  /\ own' = [own EXCEPT !.saved = "unsaved"]
  /\ UNCHANGED <<game, rom, launches, screen, mouse, context, mounts, wheels,
                 spoiled, pads, thread, evmapy, late>>

DefaultContext ==
  /\ main = "default" /\ Go("stop") /\ context' = "default"
  /\ UNCHANGED <<game, rom, own, launches, screen, mouse, gpu, mounts, wheels,
                 spoiled, pads, thread, evmapy, late>>

(* Mutant: evmapy is left to the next one that starts it.                  *)
ExitUnstopped ==
  /\ main = "stop" /\ main' = IF error THEN "restore" ELSE "hooks"
  /\ own' = [own EXCEPT !.started = FALSE]
  /\ UNCHANGED <<game, rom, error, launches, system, pads, thread, evmapy, late>>

(* Only the instance that was entered is asked whether it had started.     *)
ExitEvmapy ==
  /\ main = "stop" /\ main' = IF error THEN "restore" ELSE "hooks"
  /\ evmapy' = IF own.started THEN Stopped ELSE evmapy
  /\ own' = [own EXCEPT !.started = FALSE]
  /\ UNCHANGED <<game, rom, error, launches, system, pads, thread, late>>

StopHooks ==
  /\ main = "hooks" /\ (Go("restore") \/ Raise("restore"))
  /\ UNCHANGED <<game, rom, own, launches, system, pads, thread, evmapy, late>>

(* A mode that cannot be set again is passed over.                         *)
RestoreMode ==
  /\ main = "restore" /\ Go("hide")
  /\ own' = [own EXCEPT !.mode = "es", !.changed = FALSE]
  /\ \/ screen' = (IF own.changed THEN own.mode ELSE screen) /\ UNCHANGED spoiled
     \/ /\ own.changed /\ screen # own.mode
        /\ spoiled' = spoiled \cup {"screen"} /\ UNCHANGED screen
  /\ UNCHANGED <<game, rom, launches, mouse, context, gpu, mounts, wheels,
                 pads, thread, evmapy, late>>

HideMouse ==
  /\ main = "hide" /\ Go("reset") /\ mouse' = (mouse /\ ~own.shown)
  /\ own' = [own EXCEPT !.shown = FALSE]
  /\ UNCHANGED <<game, rom, launches, screen, context, gpu, mounts, wheels,
                 spoiled, pads, thread, evmapy, late>>

ResetWheels ==
  /\ main = "reset" /\ Go("umount")
  /\ wheels' = (wheels /\ ~own.calibrates)
  /\ own' = [own EXCEPT !.calibrates = FALSE]
  /\ UNCHANGED <<game, rom, launches, screen, mouse, context, gpu, mounts,
                 spoiled, pads, thread, evmapy, late>>

(* Mutant: no finally around the game, an exception leaves the mount.      *)
UnmountIfFine ==
  /\ main = "umount" /\ Go("exit") /\ UNCHANGED spoiled
  /\ IF error THEN UNCHANGED mounts ELSE Squash("none")
  /\ UNCHANGED <<game, rom, own, launches, screen, mouse, context, gpu, wheels,
                 pads, thread, evmapy, late>>

(* A launcher cleans the directory it has mounted; umount may find it busy.*)
Unmount ==
  /\ main = "umount"
  /\ \/ ~own.mounted /\ Go("exit") /\ UNCHANGED <<mounts, spoiled>>
     \/ own.mounted /\ Go("exit") /\ Squash("none") /\ UNCHANGED spoiled
     \/ /\ own.mounted /\ Raise("exit") /\ UNCHANGED mounts
        /\ spoiled' = spoiled \cup {"mount"}
  /\ UNCHANGED <<game, rom, own, launches, screen, mouse, context, gpu, wheels,
                 pads, thread, evmapy, late>>

(* The memory of the process, and its daemon thread, wherever that is.     *)
Ends ==
  /\ main' = "es" /\ error' = FALSE /\ game' = NoGame /\ rom' = NoGame
  /\ own' = Fresh /\ monitor' = "none" /\ events' = {} /\ unseen' = {}
  /\ active' = [p \in Player |-> NoPath] /\ revived' = {}

Exit == main = "exit" /\ Ends /\ UNCHANGED <<launches, system, pads, evmapy, late>>

(* What the launcher has changed and not put back yet.                     *)
InUse ==
  {r \in Resource :
     \/ /\ r = "screen" /\ screen # own.mode
        /\ main \in (Setup \ {"mount", "load", "wheels", "mode"})
             \cup {"unboost", "default", "stop", "hooks", "restore"}
     \/ r = "mouse" /\ mouse
     \/ r = "context" /\ context # "default"
     \/ r = "gpu" /\ gpu # "normal"
     \/ r = "mount" /\ own.mounted /\ mounts[Stem[game]] = game
     \/ r = "evmapy" /\ own.started}

(* emu_kill of batocera-es-swissknife, for a kill, a shutdown or kodi:     *)
(* SIGTERM for the tree of the launcher, the calibrators with it.  evmapy  *)
(* is no child of the launcher and runs on.  mkdir and mount, umount and   *)
(* rmdir are two calls.                                                    *)
Kill ==
  /\ main # "es" /\ Ends
  /\ wheels' = (wheels /\ ~own.calibrates)
  /\ \/ UNCHANGED mounts /\ spoiled' = spoiled \cup InUse
     \/ /\ \/ main = "mount" /\ mounts[Stem[game]] \notin Game
           \/ main = "umount" /\ own.mounted
        /\ Squash("empty") /\ spoiled' = spoiled \cup InUse \cup {"mount"}
  /\ UNCHANGED <<launches, screen, mouse, context, gpu, pads, evmapy, late>>

(* What --emukill alone does then, when the launcher has gone: by itself or*)
(* killed, or none ran.  The next one may run already.                     *)
KillOrphans ==
  /\ evmapy' = Stopped
  /\ UNCHANGED <<main, game, rom, error, own, launches, system, pads, thread, late>>

-----------------------------------------------------------------------------
(* The pads, and the thread that follows them.                             *)

(* An event nobody listens to yet is lost.  Nobody looks at the pads       *)
(* between Load and EnterEvmapy: changes then are taken to come after.     *)
Change(p) ==
  /\ main \in Teardown \cup {"evmapy", "context", "generate", "boost", "run", "play"}
  /\ changes < MaxChanges /\ changes' = changes + 1
  /\ IF monitor = "none" THEN unseen' = unseen \cup {p} /\ UNCHANGED events
                         ELSE events' = events \cup {p} /\ UNCHANGED unseen
  /\ UNCHANGED <<main, game, rom, error, own, launches, system,
                 active, revived, monitor, evmapy, late>>

Unplug(p) ==
  /\ dev[p] # NoPath /\ dev' = [dev EXCEPT ![p] = NoPath] /\ Change(p)

Plug(p) ==
  /\ dev[p] = NoPath /\ Change(p)
  /\ \E path \in Path : ~There(path) /\ dev' = [dev EXCEPT ![p] = path]

(* The objects of the first list are copies; those the thread puts in the  *)
(* list are its own, and it writes the new path into them before it looks  *)
(* for a difference.                                                       *)
Current == [p \in Player |-> IF p \in revived /\ dev[p] # NoPath
                              THEN dev[p] ELSE active[p]]

(* Mutant: a pad that is gone stays in the list.                           *)
ScanForgetful ==
  /\ monitor = "watch" /\ events # {} /\ \E p \in events : events' = events \ {p}
  /\ LET online == {p \in Player : dev[p] # NoPath}
         paths == [p \in Player |-> IF p \in online THEN dev[p] ELSE active[p]]
     IN IF Current # paths
        THEN active' = paths /\ revived' = online /\ monitor' = "noticed"
        ELSE active' = Current /\ UNCHANGED <<revived, monitor>>
  /\ UNCHANGED <<main, game, rom, error, own, launches, system, pads, unseen,
                 evmapy, late>>

Scan ==
  /\ monitor = "watch" /\ events # {} /\ \E p \in events : events' = events \ {p}
  /\ IF Current # dev
     THEN /\ active' = dev /\ monitor' = "noticed"
          /\ revived' = {p \in Player : dev[p] # NoPath}
     ELSE active' = Current /\ UNCHANGED <<revived, monitor>>
  /\ UNCHANGED <<main, game, rom, error, own, launches, system, pads, unseen,
                 evmapy, late>>

(* _reconfigure_evmapy_on_the_fly, a second later.                         *)
StopEvmapy ==
  /\ monitor = "noticed" /\ monitor' = "stopped" /\ evmapy' = Stopped
  /\ UNCHANGED <<main, game, rom, error, own, launches, system, pads, events,
                 unseen, active, revived, late>>

(* A pad that went in the meantime raises, and ends the thread.            *)
Prepare ==
  /\ monitor = "stopped" /\ monitor' = IF Openable THEN "prepared" ELSE "dead"
  /\ UNCHANGED <<main, game, rom, error, own, launches, system, pads, events,
                 unseen, active, revived, evmapy, late>>

StartEvmapy ==
  /\ monitor = "prepared" /\ monitor' = "watch"
  /\ evmapy' = active /\ late' = (late \/ ~own.started)
  /\ UNCHANGED <<main, game, rom, error, own, launches, system, pads, events,
                 unseen, active, revived>>

SetUp ==
  \/ Mount \/ Load \/ ConfigureWheels \/ LowerMode \/ SetMode \/ ShowMouse
  \/ EnterEvmapy \/ EnterContext \/ Generate \/ Boost \/ RunCommand \/ GameEnds
PutBack ==
  \/ Unboost \/ DefaultContext \/ ExitEvmapy \/ StopHooks \/ RestoreMode
  \/ HideMouse \/ ResetWheels \/ Unmount \/ Exit
Monitor == Scan \/ StopEvmapy \/ Prepare \/ StartEvmapy

Next ==
  \/ SetUp \/ PutBack \/ Kill \/ KillOrphans \/ Monitor
  \/ \E g \in Game : Launch(g)
  \/ \E p \in Player : Unplug(p) \/ Plug(p)

Spec == Init /\ [][Next]_vars

-----------------------------------------------------------------------------
(* Whatever raised and wherever, EmulationStation gets back what it had    *)
(* (the finally blocks of start_rom), but for what a kill or a command     *)
(* that failed has spoiled.                                                *)
Restored ==
  main = "es" =>
    /\ screen = "es" \/ "screen" \in spoiled
    /\ mouse => "mouse" \in spoiled
    /\ context = "default" \/ "context" \in spoiled
    /\ gpu = "normal" \/ "gpu" \in spoiled
    /\ wheels => "wheels" \in spoiled
    /\ (\A s \in DOMAIN mounts : mounts[s] = "none") \/ "mount" \in spoiled

(* The game that runs is the one asked for, also where two roms share a    *)
(* name, as long as no mount was left behind (squashfs.py:33-42).          *)
RightRom == main = "play" => rom = game \/ "mount" \in spoiled

(* The last launch that started evmapy leaves none running, however it     *)
(* ended and whatever an earlier one left (evmapy.py:114-117), unless that *)
(* launch was killed, or the monitor thread starts evmapy when the instance*)
(* that was entered is left, or never started it.                          *)
EvmapyStopped == main = "es" /\ evmapy # Stopped => late \/ "evmapy" \in spoiled

Quiet ==
  /\ monitor = "watch" /\ events = {} /\ main = "play"
  /\ own.started /\ evmapy # Stopped

(* Once the monitor has read the events there are, evmapy reads no pad     *)
(* that is gone.                                                           *)
UnpluggedUnmapped ==
  Quiet => \A p \in Player \ unseen : evmapy[p] # NoPath => dev[p] # NoPath

(* Why: what a launcher has changed and not put back, it knows of.         *)

ScreenKnown ==
  IF main \in {"setmode", "mouse", "evmapy", "context", "generate", "boost", "run",
               "play", "unboost", "default", "stop", "hooks", "restore"}
    THEN /\ screen = own.mode \/ own.changed
         /\ own.mode = "es" \/ "screen" \in spoiled
    ELSE screen = "es" \/ "screen" \in spoiled

MouseKnown ==
  /\ mouse => own.shown \/ "mouse" \in spoiled
  /\ own.shown => main \in (Setup \cup Teardown)
       \ {"mount", "load", "wheels", "mode", "setmode", "mouse", "reset", "umount", "exit"}

ContextKnown ==
  \/ context = "default" \/ "context" \in spoiled
  \/ main \in {"generate", "boost", "run", "play", "unboost", "default"}

GpuKnown ==
  /\ gpu = "normal" \/ own.saved # "unsaved" \/ "gpu" \in spoiled
  /\ own.saved = "boost" => "gpu" \in spoiled
  /\ own.saved # "unsaved" => main \in {"run", "play", "unboost"}

WheelsKnown ==
  /\ wheels => own.calibrates \/ "wheels" \in spoiled
  /\ own.calibrates => main \in (Setup \cup Teardown)
       \ {"mount", "load", "wheels", "umount", "exit"}

MountsKnown ==
  /\ \A s \in DOMAIN mounts :
       \/ mounts[s] = "none" \/ "mount" \in spoiled
       \/ own.mounted /\ main # "exit" /\ s = Stem[game] /\ mounts[s] = game
  /\ own.mounted => main \notin {"es", "mount"}
  /\ main # "es" => game \in Game /\ (rom = game \/ "mount" \in spoiled)

EvmapyKnown ==
  /\ evmapy # Stopped => own.started \/ late \/ "evmapy" \in spoiled
  /\ own.started => main \in {"context", "generate", "boost", "run", "play", "unboost",
                              "default", "stop"}

(* The monitor's list has no pad that is gone but those it has yet to see, *)
(* and evmapy none that is not in the list, unless it is to be stopped.    *)
PadsKnown ==
  /\ main \in {"es", "mount", "load", "wheels", "mode", "setmode", "mouse", "evmapy",
              "context", "generate"} => monitor = "none"
  /\ \A p \in Player \ (unseen \cup events) : active[p] # NoPath => dev[p] # NoPath
  /\ monitor \in {"none", "watch"} /\ own.started /\ evmapy # Stopped
       => \A p \in Player : evmapy[p] # NoPath => active[p] # NoPath

IInv ==
  /\ TypeOK /\ ScreenKnown /\ MouseKnown /\ ContextKnown /\ GpuKnown
  /\ WheelsKnown /\ MountsKnown /\ EvmapyKnown /\ PadsKnown

(* "Uses pysdl2 to reliably get controller GUIDs and paths, then           *)
(* intelligently revives the original controller object": evmapy reads     *)
(* each pad at the path it has.                                            *)
PathsFollowed ==
  Quiet => \A p \in Player \ unseen : evmapy[p] = dev[p]
=============================================================================
