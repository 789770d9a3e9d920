---------------------------- MODULE HotkeyDaemon ----------------------------
(***************************************************************************)
(* hotkeygen --permanent reads the buttons of every input device and sends *)
(* keys, or runs commands, for those its mapping gives an action and its   *)
(* context gives that action a meaning.  The launcher changes the context  *)
(* for a game: it writes a file and signals the pid in another file.       *)
(* Devices come and go: udev says so, and a listing finds them too.        *)
(***************************************************************************)
EXTENDS Integers, Sequences, FiniteSets

CONSTANTS Device, Button, Key,
          Mapping,     \* what a device's buttons do: [buttons, action]
          Meaning,     \* of each context: of each action, keys or Command
          Exit,        \* the action that leaves an emulator
          Fd,          \* descriptors; bound: how many are open at once
          MaxPlugs,    \* bound: how often devices are plugged or unplugged
          MaxPresses,  \* bound: how often buttons are pressed
          MaxGames,    \* bound: games started
          MaxReloads,  \* bound: hotkeygen --reload
          MaxPanels    \* bound: how often the lower panel gets a widget

Default == "es"
Game == "game"
NoContext == "none"
Command == {"command"}
NoDevice == "none"
NoFd == 0

ASSUME HotkeyAssumption ==
  /\ NoFd \notin Fd /\ NoDevice \notin Device
  /\ \A m \in Mapping :
       m.buttons \in (SUBSET Button) \ {{}} /\ IsFiniteSet(m.buttons)
  /\ DOMAIN Meaning = {Default, Game}
  /\ \A c \in DOMAIN Meaning :
       \A a \in DOMAIN Meaning[c] : Meaning[c][a] \in {Command} \cup SUBSET Key

VARIABLES
  pc,        \* the next step of Daemon.run
  context,   \* what the daemon last read
  file,      \* the context file; Default when there is none
  pid,       \* the pid file: "none", "empty", or the pid of the daemon
  hup,       \* a SIGHUP has not been handled
  reconfig,  \* require_reconfig
  todo,      \* what list_devices still yields
  there,     \* devices with a node under /dev/input
  udev,      \* events the monitor has not received
  fds,       \* input_devices_by_fd: the device of each descriptor
  dead,      \* descriptors whose device is gone: reading them fails
  byPath,    \* input_devices
  queue,     \* unread presses and releases of each descriptor
  held,      \* the buttons of each device that are down
  pressed, chords,  \* pressed_by_fd and active_chords_by_fd
  down,      \* the keys of the virtual keyboard that are down
  panel,     \* the lower panel shows a widget
  client,    \* the next step of the launcher
  used,      \* counts what the bounds limit
  missed,    \* a signal found an empty pid file
  cause,     \* why the daemon ended
  raced,     \* devices listed while udev's add for them was unread
  orphans,   \* keys down when what they were pressed for was taken away
  completed, ran  \* chords for a command: pressed, and carried out

files == <<file, pid>>
inputs == <<there, udev, held>>
table == <<fds, dead, byPath, queue, pressed, chords>>
past == <<missed, cause, raced, orphans, completed, ran>>
vars == <<pc, context, files, hup, reconfig, todo, inputs, table, down, panel,
          client, used, past>>

Running == {"boot", "truncate", "write", "monitor", "list", "adding", "loop", "reload"}
Limits == {"plugs", "presses", "games", "reloads", "panels"}

DaemonTyped ==
  /\ pc \in Running \cup {"off", "dead"} /\ hup \in BOOLEAN /\ reconfig \in BOOLEAN
  /\ context \in {Default, Game, NoContext} /\ file \in {Default, Game, "torn"}
  /\ pid \in {"none", "empty", "pid"} /\ used \in [Limits -> Nat] /\ panel \in BOOLEAN
  /\ client \in {"idle", "new", "write", "signal", "playing", "unsignalled"}

InputsTyped ==
  /\ todo \subseteq Device /\ there \subseteq Device
  /\ udev \in Seq({"add", "remove"} \X Device) /\ held \in [Device -> SUBSET Button]

TableTyped ==
  /\ fds \in [Fd -> Device \cup {NoDevice}] /\ dead \subseteq Fd
  /\ byPath \in [Device -> Fd \cup {NoFd}]
  /\ queue \in [Fd -> Seq(Button \X BOOLEAN)]
  /\ pressed \in [Fd -> SUBSET Button] /\ chords \in [Fd -> SUBSET Mapping]

KeysTyped ==
  /\ down \subseteq Key /\ orphans \subseteq Key /\ raced \subseteq Device
  /\ missed \in BOOLEAN /\ cause \in {"none", "signal", "vanished", "key error"}
  /\ completed \subseteq Mapping /\ ran \subseteq Mapping

TypeOK == DaemonTyped /\ InputsTyped /\ TableTyped /\ KeysTyped

Empty ==
  /\ fds' = [f \in Fd |-> NoDevice] /\ dead' = {}
  /\ byPath' = [d \in Device |-> NoFd] /\ queue' = [f \in Fd |-> <<>>]
  /\ pressed' = [f \in Fd |-> {}] /\ chords' = [f \in Fd |-> {}]

Init ==
  /\ pc = "off" /\ context = NoContext /\ file = Default /\ pid = "none"
  /\ hup = FALSE /\ reconfig = FALSE /\ todo = {} /\ there \in SUBSET Device
  /\ udev = <<>> /\ held = [d \in Device |-> {}]
  /\ fds = [f \in Fd |-> NoDevice] /\ dead = {}
  /\ byPath = [d \in Device |-> NoFd] /\ queue = [f \in Fd |-> <<>>]
  /\ pressed = [f \in Fd |-> {}] /\ chords = [f \in Fd |-> {}]
  /\ down = {} /\ panel = FALSE /\ client = "idle" /\ used = [l \in Limits |-> 0]
  /\ missed = FALSE /\ cause = "none" /\ raced = {} /\ orphans = {}
  /\ completed = {} /\ ran = {}

Count(limit, max) ==
  used[limit] < max /\ used' = [used EXCEPT ![limit] = @ + 1]

-----------------------------------------------------------------------------
(* Starting.                                                               *)

(* A file that is not whole gives no context, and so no hotkeys.           *)
GetContext == IF file = "torn" THEN NoContext ELSE file

(* S90hotkeygen ends the daemon there is; start-stop-daemon -m writes the  *)
(* pid of the new one before that has run a line.                          *)
StartDaemon ==
  /\ pc' = "boot" /\ pid' = "pid" /\ hup' = FALSE /\ reconfig' = FALSE
  /\ todo' = {} /\ udev' = <<>> /\ Empty /\ down' = {} /\ missed' = FALSE
  /\ cause' = "none" /\ raced' = {} /\ orphans' = {}
  /\ UNCHANGED <<file, there, held, completed, ran>>

ReadContext ==
  /\ pc = "boot" /\ pc' = "truncate" /\ context' = GetContext
  /\ UNCHANGED <<files, hup, reconfig, todo, inputs, table, down, panel, client,
                 used, past>>

WritePid ==
  /\ \/ pc = "truncate" /\ pc' = "write" /\ pid' = "empty"
     \/ pc = "write" /\ pc' = "monitor" /\ pid' = "pid"
  /\ UNCHANGED <<context, file, hup, reconfig, todo, inputs, table, down, panel,
                 client, used, past>>

StartMonitor ==
  /\ pc = "monitor" /\ pc' = "list"
  /\ UNCHANGED <<context, files, hup, reconfig, todo, inputs, table, down, panel,
                 client, used, past>>

Announced == {d \in Device : \E i \in 1 .. Len(udev) : udev[i] = <<"add", d>>}

List ==
  /\ pc = "list" /\ pc' = "adding" /\ todo' = there
  /\ raced' = raced \cup (there \cap Announced)
  /\ UNCHANGED <<context, files, hup, reconfig, inputs, table, down, panel, client,
                 used, missed, cause, orphans, completed, ran>>

-----------------------------------------------------------------------------
(* Devices.                                                                *)

Free == {f \in Fd : fds[f] = NoDevice}

(* __handle_actions, "add": what was known of the path is forgotten, the   *)
(* descriptor it had is not.  Which free descriptor it gets is no matter.  *)
AddDevice(d) ==
  LET f == CHOOSE g \in Free : TRUE
  IN /\ Free # {}
     /\ fds' = [fds EXCEPT ![f] = d] /\ byPath' = [byPath EXCEPT ![d] = f]
     /\ queue' = [queue EXCEPT ![f] = <<>>] /\ dead' = dead \ {f}
     /\ pressed' = [pressed EXCEPT ![f] = {}]
     /\ chords' = [chords EXCEPT ![f] = {}]

Die(why) ==
  /\ pc' = "dead" /\ cause' = why /\ down' = {} /\ Empty /\ hup' = FALSE
  /\ UNCHANGED <<reconfig, todo, udev>>

(* A device that went since it was listed cannot be opened, and here no    *)
(* exception is caught.                                                    *)
AddListed(d) ==
  /\ pc \in {"adding", "reload"} /\ d \in todo
  /\ \/ /\ d \in there /\ AddDevice(d) /\ todo' = todo \ {d}
        /\ UNCHANGED <<pc, hup, reconfig, udev, down, cause>>
     \/ d \notin there /\ Die("vanished")
  /\ UNCHANGED <<context, files, there, held, panel, client, used,
                 missed, raced, orphans, completed, ran>>

(* From here on there is a handler for SIGHUP.                             *)
EndListing ==
  /\ pc \in {"adding", "reload"} /\ todo = {} /\ pc' = "loop"
  /\ UNCHANGED <<context, files, hup, reconfig, todo, inputs, table, down, panel,
                 client, used, past>>

(* Mutant: the signal only has the devices' files read again.              *)
HandleSighupDevices ==
  /\ hup /\ pc \in {"loop", "reload"} /\ hup' = FALSE /\ reconfig' = TRUE
  /\ UNCHANGED <<pc, context, files, todo, inputs, table, down, panel, client, used,
                 past>>

HandleSighup ==
  /\ hup /\ pc \in {"loop", "reload"} /\ hup' = FALSE
  /\ context' = GetContext /\ reconfig' = TRUE /\ missed' = FALSE
  /\ orphans' = IF context' = context THEN orphans ELSE orphans \cup down
  /\ UNCHANGED <<pc, files, todo, inputs, table, down, panel, client, used,
                 cause, raced, completed, ran>>

(* Mutant: devices that are read already are added too.                    *)
ReloadAll ==
  /\ pc = "loop" /\ reconfig /\ reconfig' = FALSE /\ pc' = "reload"
  /\ todo' = there /\ raced' = raced \cup (there \cap Announced)
  /\ UNCHANGED <<context, files, hup, inputs, table, down, panel, client, used,
                 missed, cause, orphans, completed, ran>>

(* __reload_devices_configs lists devices that had no mapping before.      *)
Reload ==
  /\ pc = "loop" /\ reconfig /\ reconfig' = FALSE /\ pc' = "reload"
  /\ todo' = {d \in there : byPath[d] = NoFd}
  /\ raced' = raced \cup (todo' \cap Announced)
  /\ UNCHANGED <<context, files, hup, inputs, table, down, panel, client, used,
                 missed, cause, orphans, completed, ran>>

(* Mutant: the descriptor of a path that is forgotten stays in the poll.   *)
CloseUnpolled(f, d) ==
  /\ byPath' = [byPath EXCEPT ![d] = NoFd]
  /\ UNCHANGED <<fds, dead, queue, pressed, chords, orphans>>

(* The maps of one descriptor are deleted, and the path with them.         *)
Close(f, d) ==
  /\ fds' = [fds EXCEPT ![f] = NoDevice] /\ byPath' = [byPath EXCEPT ![d] = NoFd]
  /\ queue' = [queue EXCEPT ![f] = <<>>] /\ dead' = dead \ {f}
  /\ pressed' = [pressed EXCEPT ![f] = {}] /\ chords' = [chords EXCEPT ![f] = {}]
  /\ orphans' = IF pressed[f] = {} THEN orphans ELSE orphans \cup down

(* A device that cannot be opened any more is passed over here.            *)
ReceiveDevice ==
  /\ pc = "loop" /\ udev # <<>> /\ udev' = Tail(udev)
  /\ LET d == Head(udev)[2]
     IN \/ /\ Head(udev)[1] = "add" /\ d \in there
           /\ AddDevice(d) /\ UNCHANGED orphans
        \/ /\ Head(udev)[1] = "remove" /\ byPath[d] # NoFd
           /\ Close(byPath[d], d)
        \/ /\ IF Head(udev)[1] = "add" THEN d \notin there ELSE byPath[d] = NoFd
           /\ UNCHANGED <<table, orphans>>
  /\ UNCHANGED <<pc, context, files, hup, reconfig, todo, there, held, down, panel,
                 client, used, missed, cause, raced, completed, ran>>

(* ENODEV: `del self.input_devices[path]` is in the handler itself, where  *)
(* a path that is gone already raises what nobody catches.                 *)
ReadError(f) ==
  /\ pc = "loop" /\ f \in dead
  /\ LET d == fds[f]
     IN \/ /\ byPath[d] # NoFd /\ Close(f, d)
           /\ UNCHANGED <<pc, hup, reconfig, todo, udev, down, cause>>
        \/ byPath[d] = NoFd /\ Die("key error") /\ UNCHANGED orphans
  /\ UNCHANGED <<context, files, there, held, panel, client, used, missed, raced,
                 completed, ran>>

-----------------------------------------------------------------------------
(* Buttons.                                                                *)

Means(a) ==
  IF context # NoContext /\ a \in DOMAIN Meaning[context]
    THEN Meaning[context][a] ELSE {}

(* What __handle_event sends for an action; an exit while the panel has a  *)
(* widget ends the emulator by its pid instead.                            *)
KeysOf(ms) ==
  UNION {Means(m.action) : m \in
           {n \in ms : Means(n.action) # Command /\ ~(panel /\ n.action = Exit)}}

Commands(ms) == {m \in ms : Means(m.action) = Command}
Single(b) == {m \in Mapping : m.buttons = {b}}
IsChord(m) == Cardinality(m.buttons) > 1

Event(f) == Head(queue[f])
NowPressed(f) ==
  IF Event(f)[2] THEN pressed[f] \cup {Event(f)[1]} ELSE pressed[f] \ {Event(f)[1]}
NowChords(f) == {m \in Mapping : IsChord(m) /\ m.buttons \subseteq NowPressed(f)}

(* Mutant: the keys of a chord are not released with it.                   *)
ReadEventKeepsChord(f) ==
  /\ pc = "loop" /\ fds[f] # NoDevice /\ f \notin dead /\ queue[f] # <<>>
  /\ queue' = [queue EXCEPT ![f] = Tail(@)]
  /\ pressed' = [pressed EXCEPT ![f] = NowPressed(f)]
  /\ chords' = [chords EXCEPT ![f] = NowChords(f)]
  /\ LET single == Single(Event(f)[1])
         begun == NowChords(f) \ chords[f]
     IN /\ down' = IF Event(f)[2] THEN down \cup KeysOf(single \cup begun)
                                  ELSE down \ KeysOf(single)
        /\ ran' = IF Event(f)[2] THEN ran \cup Commands(single) ELSE ran
        /\ completed' = completed \cup Commands(begun)
  /\ UNCHANGED <<pc, context, files, hup, reconfig, todo, inputs, fds, dead, byPath,
                 panel, client, used, missed, cause, raced, orphans>>

(* A command runs when its button is pressed; a chord that stands for a    *)
(* command is handled as a release, which runs nothing.                    *)
ReadEvent(f) ==
  /\ pc = "loop" /\ fds[f] # NoDevice /\ f \notin dead /\ queue[f] # <<>>
  /\ queue' = [queue EXCEPT ![f] = Tail(@)]
  /\ pressed' = [pressed EXCEPT ![f] = NowPressed(f)]
  /\ chords' = [chords EXCEPT ![f] = NowChords(f)]
  /\ LET single == Single(Event(f)[1])
         begun == NowChords(f) \ chords[f]
         ended == chords[f] \ NowChords(f)
     IN /\ down' = IF Event(f)[2] THEN down \cup KeysOf(single \cup begun)
                                  ELSE down \ KeysOf(single \cup ended)
        /\ ran' = IF Event(f)[2] THEN ran \cup Commands(single) ELSE ran
        /\ completed' = completed \cup Commands(begun)
  /\ UNCHANGED <<pc, context, files, hup, reconfig, todo, inputs, fds, dead, byPath,
                 panel, client, used, missed, cause, raced, orphans>>

-----------------------------------------------------------------------------
(* The user, the kernel and udev.                                          *)

Listens == pc \in {"list", "adding", "loop", "reload"}
Announce(action, d) == udev' = IF Listens THEN Append(udev, <<action, d>>) ELSE udev

Plug(d) ==
  /\ d \notin there /\ Count("plugs", MaxPlugs)
  /\ there' = there \cup {d} /\ Announce("add", d)
  /\ UNCHANGED <<pc, context, files, hup, reconfig, todo, held, table, down, panel,
                 client, past>>

Unplug(d) ==
  /\ d \in there /\ Count("plugs", MaxPlugs)
  /\ there' = there \ {d} /\ Announce("remove", d)
  /\ held' = [held EXCEPT ![d] = {}]
  /\ dead' = dead \cup {f \in Fd : fds[f] = d}
  /\ UNCHANGED <<pc, context, files, hup, reconfig, todo, fds, byPath, queue, pressed,
                 chords, down, panel, client, past>>

(* The kernel gives an event to every descriptor that is open.             *)
Touch(d, b, on) ==
  /\ queue' = [f \in Fd |-> IF fds[f] = d /\ f \notin dead
                             THEN Append(queue[f], <<b, on>>) ELSE queue[f]]
  /\ UNCHANGED <<pc, context, files, hup, reconfig, todo, there, udev, fds, dead,
                 byPath, pressed, chords, down, panel, client, past>>

Press(d, b) ==
  /\ d \in there /\ b \notin held[d] /\ Count("presses", MaxPresses)
  /\ held' = [held EXCEPT ![d] = @ \cup {b}] /\ Touch(d, b, TRUE)

Release(d, b) ==
  /\ d \in there /\ b \in held[d] /\ UNCHANGED used
  /\ held' = [held EXCEPT ![d] = @ \ {b}] /\ Touch(d, b, FALSE)

ShowPanel ==
  /\ panel' = ~panel /\ Count("panels", MaxPanels)
  /\ orphans' = orphans \cup (down \cap UNION {KeysOf({m}) : m \in
                                {n \in Mapping : n.action = Exit}})
  /\ UNCHANGED <<pc, context, files, hup, reconfig, todo, inputs, table, down, client,
                 missed, cause, raced, completed, ran>>

-----------------------------------------------------------------------------
(* The launcher, and whoever else calls hotkeygen.                         *)

(* signal_hotkeygen: no pid, no signal; before the handler it is fatal.    *)
Signal ==
  \/ /\ pid # "pid" \/ pc \in {"off", "dead"}
     /\ missed' = (missed \/ pid = "empty")
     /\ UNCHANGED <<pc, hup, reconfig, todo, udev, table, down, cause>>
  \/ /\ pid = "pid" /\ pc \in {"loop", "reload"} /\ hup' = TRUE
     /\ UNCHANGED <<pc, reconfig, todo, udev, table, down, cause, missed>>
  \/ /\ pid = "pid" /\ pc \notin {"off", "dead", "loop", "reload"}
     /\ Die("signal") /\ UNCHANGED missed

(* _ensure_hotkeygen_running.                                              *)
Ensure ==
  /\ client = "idle" /\ client' = "new" /\ Count("games", MaxGames)
  /\ \/ /\ pid = "pid" /\ pc \notin {"off", "dead"}
        /\ UNCHANGED <<pc, files, hup, reconfig, todo, inputs, table, down, past>>
     \/ (pid # "pid" \/ pc \in {"off", "dead"}) /\ StartDaemon
  /\ UNCHANGED <<context, panel>>

(* save_context opens the file, which empties it, and then writes.         *)
SaveContext ==
  /\ \/ client = "new" /\ client' = "write" /\ file' = "torn"
     \/ client = "write" /\ client' = "signal" /\ file' = Game
     \/ client = "playing" /\ client' = "unsignalled" /\ file' = Default
  /\ UNCHANGED <<pc, context, pid, hup, reconfig, todo, inputs, table, down, panel,
                 used, past>>

SignalContext ==
  /\ \/ client = "signal" /\ client' = "playing"
     \/ client = "unsignalled" /\ client' = "idle"
  /\ Signal
  /\ UNCHANGED <<context, files, there, held, panel, used, raced, orphans,
                 completed, ran>>

ReloadDevices ==
  /\ Count("reloads", MaxReloads) /\ Signal
  /\ UNCHANGED <<context, files, there, held, panel, client, raced, orphans,
                 completed, ran>>

Daemon ==
  \/ ReadContext \/ WritePid \/ StartMonitor \/ List \/ EndListing
  \/ HandleSighup \/ Reload \/ ReceiveDevice
  \/ \E d \in Device : AddListed(d)
  \/ \E f \in Fd : ReadError(f) \/ ReadEvent(f)

Next ==
  \/ Daemon \/ ShowPanel
  \/ Ensure \/ SaveContext \/ SignalContext \/ ReloadDevices
  \/ \E d \in Device : \/ Plug(d) \/ Unplug(d)
                       \/ \E b \in Button : Press(d, b) \/ Release(d, b)

Spec == Init /\ [][Next]_vars

-----------------------------------------------------------------------------
(* A context the launcher has written and signalled is the one in use, as  *)
(* long as the pid file was not just being rewritten (__handle_sighup).    *)
ContextFresh ==
  /\ pc = "loop" /\ ~hup /\ client \in {"idle", "playing"} /\ ~missed
  => context = file

(* A device is read once, or one press would count twice, unless a listing *)
(* found it while udev's word of it was still unread.                      *)
ReadOnce ==
  \A d \in Device \ raced : Cardinality({f \in Fd \ dead : fds[f] = d}) <= 1

(* "error on a single device": of the errors of a device that is unplugged,*)
(* the KeyError ends the daemon only where a listing opened a device twice.*)
(* (An early signal, and a device gone since it was listed, end it too.)   *)
SurvivesUnplug == cause = "key error" => raced # {}

Quiet ==
  /\ pc = "loop" /\ dead = {} /\ \A d \in Device : held[d] = {}
  /\ \A f \in Fd : queue[f] = <<>>

(* With every button up no key stays down, but for those whose device,     *)
(* context or panel changed while they were.                               *)
NoStuckKey == Quiet => down \subseteq orphans

(* "Commands (e.g. batocera-steam-qam): fire on keydown": the chord of the *)
(* mouse mode (conf/specific, AYN Odin) carries out its command.           *)
ChordsRunCommands == completed \subseteq ran

(* Why: the pid and the context, then the devices and udev's word of them. *)

PidKnown ==
  pid = IF pc = "off" THEN "none" ELSE IF pc = "write" THEN "empty" ELSE "pid"

FileKnown == client = "write" <=> file = "torn"

InSync ==
  /\ pc \in Running \ {"boot"} /\ ~hup /\ ~missed
  /\ client \in {"idle", "new", "playing"}
  => context = file

TableKnown ==
  /\ \A f \in dead : fds[f] # NoDevice
  /\ \A d \in Device : byPath[d] # NoFd => fds[byPath[d]] = d

ListingKnown ==
  /\ pc \notin {"adding", "loop", "reload"} => \A f \in Fd : fds[f] = NoDevice
  /\ pc \in {"boot", "truncate", "write", "monitor"} => udev = <<>>
  /\ todo # {} => pc \in {"adding", "reload", "dead"}

(* In a queue of events of a device: between two of its adds there is a    *)
(* remove, before the first one there is, after the last one there is, and *)
(* there is a remove.                                                      *)
Alternates(q, d) ==
  \A i, j \in 1 .. Len(q) :
     i < j /\ q[i] = <<"add", d>> /\ q[j] = <<"add", d>>
     => \E k \in 1 .. Len(q) : i < k /\ k < j /\ q[k] = <<"remove", d>>
LeavesFirst(q, d) ==
  \A i \in 1 .. Len(q) :
     q[i] = <<"add", d>> => \E k \in 1 .. Len(q) : k < i /\ q[k] = <<"remove", d>>
LeavesLast(q, d) ==
  \A i \in 1 .. Len(q) :
     q[i] = <<"add", d>> => \E k \in 1 .. Len(q) : i < k /\ q[k] = <<"remove", d>>
Leaves(q, d) == \E k \in 1 .. Len(q) : q[k] = <<"remove", d>>

EventsKnown ==
  Listens => \A d \in Device : /\ Alternates(udev, d)
                               /\ d \notin there => LeavesLast(udev, d)

(* A device that no listing raced for has one descriptor, which its path   *)
(* leads to; while it has one, or is about to, its next event is that it   *)
(* leaves.                                                                 *)
Expected(d) == d \in todo \/ \E f \in Fd : fds[f] = d
OnceKnown ==
  \A d \in Device \ raced :
    /\ \A f \in Fd : fds[f] = d => byPath[d] = f /\ d \notin todo
    /\ Listens /\ Expected(d) => /\ LeavesFirst(udev, d)
                                 /\ d \in there \/ Leaves(udev, d)

IInv ==
  /\ TypeOK /\ PidKnown /\ FileKnown /\ InSync
  /\ TableKnown /\ ListingKnown /\ EventsKnown /\ OnceKnown /\ SurvivesUnplug

(* Why no key is stuck: what is down was pressed for buttons that a        *)
(* descriptor still has pressed, and each of those is held, or its release *)
(* is still to be read.                                                    *)
KeysKnown ==
  /\ pc \in {"off", "dead", "boot"} => down = {}
  /\ \A k \in down \ orphans : \E f \in Fd, m \in Mapping :
       k \in KeysOf({m}) /\ m.buttons \subseteq pressed[f]

Chorded(f) == {m \in Mapping : IsChord(m) /\ m.buttons \subseteq pressed[f]}

WillRelease(f, b, i) ==
  \E j \in 1 .. Len(queue[f]) : i < j /\ queue[f][j] = <<b, FALSE>>

PressedKnown ==
  \A f \in Fd :
    /\ chords[f] = Chorded(f)
    /\ fds[f] = NoDevice => pressed[f] = {}
    /\ fds[f] # NoDevice /\ f \notin dead =>
         \A b \in Button \ held[fds[f]] :
           /\ b \in pressed[f] => WillRelease(f, b, 0)
           /\ \A i \in 1 .. Len(queue[f]) :
                queue[f][i] = <<b, TRUE>> => WillRelease(f, b, i)

KInv == IInv /\ KeysKnown /\ PressedKnown
=============================================================================
