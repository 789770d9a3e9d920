-------------------------------- MODULE Leds --------------------------------
(***************************************************************************)
(* The LEDs of a handheld (batocera-led-handheld, batoled).  A daemon      *)
(* looks every second at the settings and the battery and repaints; short- *)
(* lived processes of the same program flash for an achievement, paint     *)
(* what EmulationStation picks and hold the daemon off with a file.        *)
(* A light is what was written to it: a hue, and how often the brightness  *)
(* setting was applied to it, for what get_color reads back has been       *)
(* scaled already and set_color scales it again.                           *)
(***************************************************************************)
EXTENDS Integers, FiniteSets

CONSTANTS Device,    \* the drivers to consider, of those below
          Colour,    \* values of led.colour
          Process,   \* flashes for achievements
          MaxEvents  \* bound: settings changed, batteries, commands

Split == "split"    \* rgbled with a power LED of its own
Ring == "ring"      \* rgbled without: the status light is the ring
Pwm == "pwm"
Addr == "addr"      \* rgbledaddr
Legion == "legion"
Esc == "ESCOLOR"
Flash == "flash"    \* a frame of an effect
Picked == "picked"  \* what the colour picker shows
Bands == {"charging", "ok", "low", "flat", "empty"}
Hues == Colour \cup {"green", "amber", "red", "off", Flash, Picked}
MaxDim == 2         \* bound: how often brightness is counted
Lights == Hues \X (0 .. MaxDim)
Dark == <<"off", 0>>

ASSUME LedsAssumption ==
  /\ Device \subseteq {Split, Ring, Pwm, Addr, Legion}
  /\ Colour # {} /\ MaxEvents \in Nat

VARIABLES
  device,    \* the driver of this handheld
  conf,      \* batocera.conf: on, es, dim, animated, statusOn
  allOff,    \* leds.conf turns every band off
  battery,   \* its band
  accent, status,  \* the lights; a Ring has the first only
  block,     \* BLOCK_FILE: there is "none", or its time is "zero", "fresh" or "old"
  pc,        \* the next step of led_check
  mapOff,    \* the daemon took the all-OFF map
  init,      \* initialized, and prev_enabled is not "0"
  prev,      \* prev_es_color and prev_es_brightness
  prevblock, \* the last colour of the battery it set
  fx,        \* the step of each flash, and the light it restores
  touched,   \* history: accent is not what the daemon remembers to have painted,
             \* "no", but for its own "enabling" or for "others"
  events     \* counts MaxEvents

daemon == <<pc, mapOff, init, prev, prevblock>>
user == <<device, conf, allOff, battery>>
vars == <<user, accent, status, block, daemon, fx, touched, events>>

Capped(n) == IF n > MaxDim THEN MaxDim ELSE n
Applied == IF conf.dim THEN 1 ELSE 0

\* what a driver writes for a colour: brightness scales every channel
Scaled(l) == IF l[1] = "off" THEN Dark ELSE <<l[1], Capped(l[2] + Applied)>>

\* get_color, then set_color: black stays black
EsLight == Scaled(<<conf.es, 0>>)

Conf == [on : BOOLEAN, es : Colour, dim : BOOLEAN, animated : BOOLEAN, statusOn : BOOLEAN]
Effect == [at : {"ready", "cleared", "allowed", "blocked", "running", "restored", "done"},
           light : Lights]

TypeOK ==
  /\ device \in Device /\ allOff \in BOOLEAN /\ battery \in Bands
  /\ conf \in Conf
  /\ accent \in Lights /\ status \in Lights
  /\ block \in {"none", "zero", "fresh", "old"}
  /\ pc \in {"down", "pass", "refresh", "status", "gate", "clear", "show", "sleep"}
  /\ mapOff \in BOOLEAN /\ init \in BOOLEAN /\ touched \in {"no", "enabling", "others"}
  /\ prev \in [es : Colour, dim : BOOLEAN]
  /\ prevblock \in {"", "nothing", Esc, "green", "amber", "red", "OFF", "PULSE"}
  /\ fx \in [Process -> Effect]
  /\ events \in 0 .. MaxEvents

Init ==
  /\ device \in Device /\ allOff \in BOOLEAN /\ battery = "ok"
  /\ conf = [on |-> TRUE, es |-> CHOOSE c \in Colour : TRUE, dim |-> TRUE,
             animated |-> FALSE, statusOn |-> TRUE]
  /\ accent = Dark /\ status = Dark /\ block = "none"
  /\ pc = "down" /\ mapOff = FALSE /\ init = FALSE /\ prevblock = "nothing"
  /\ prev = [es |-> conf.es, dim |-> conf.dim]
  /\ fx = [p \in Process |-> [at |-> "ready", light |-> Dark]]
  /\ touched = "no" /\ events = 0

-----------------------------------------------------------------------------
(* What the battery asks for, and how a driver shows it.                   *)

\* default_led_config_for: amber, nothing and red of a light of its own
Default(band) ==
  CASE device = Split -> [charging |-> "amber", ok |-> "OFF", low |-> "red",
                          flat |-> "red", empty |-> "red"][band]
    [] device = Ring  -> [charging |-> Esc, ok |-> Esc, low |-> "red",
                          flat |-> "PULSE", empty |-> "nothing"][band]
    [] OTHER          -> [charging |-> "green", ok |-> Esc, low |-> "red",
                          flat |-> "PULSE", empty |-> "nothing"][band]

\* get_status_colour_for_battery; a map has no line below its lowest one
BatteryColour ==
  IF mapOff \/ (device = Split /\ ~conf.statusOn) THEN "OFF" ELSE Default(battery)

Rgb(c) == IF c = Esc THEN <<conf.es, 0>> ELSE <<c, 0>>

\* set_status_color of rgbled, set_color of the others, over a light: no colour
\* raises, and a pulse ends where the driver leaves it (rgbled shows red instead)
Shown(c, over) ==
  CASE c = "nothing" -> over
    [] c = "OFF"     -> Dark
    [] c = "PULSE"   -> CASE device \in {Split, Ring} -> Scaled(<<"red", 0>>)
                          [] device = Pwm             -> Scaled(over)
                          [] device = Addr            -> EsLight
                          [] OTHER                    -> <<Flash, 0>>
    [] OTHER         -> Scaled(IF c = Esc THEN <<conf.es, 0>> ELSE <<c, 0>>)

HasStatus == device \in {Split, Ring}

Paint(l) == accent' = l /\ touched' = "no"

-----------------------------------------------------------------------------
(* The daemon: led_check.                                                  *)

\* load_config: an all-OFF map is ignored by a status light that is on
StartDaemon ==
  /\ pc = "down" /\ pc' = "pass"
  /\ mapOff' = (allOff /\ ~(device = Split /\ conf.statusOn))
  /\ Paint(EsLight)
  /\ init' = FALSE /\ prev' = [es |-> conf.es, dim |-> conf.dim]
  /\ prevblock' = "nothing"
  /\ UNCHANGED <<user, status, block, fx, events>>

\* PassDisabled as a bug would have it: dark once, not at every pass
PassDisabledOnce ==
  /\ pc = "pass" /\ ~conf.on
  /\ IF init THEN Paint(Dark) ELSE UNCHANGED <<accent, touched>>
  /\ init' = FALSE /\ pc' = "sleep"
  /\ UNCHANGED <<user, status, block, mapOff, prev, prevblock, fx, events>>

\* disabled: dark at every pass, and a fresh start when enabled again
PassDisabled ==
  /\ pc = "pass" /\ ~conf.on
  /\ Paint(Dark) /\ init' = FALSE /\ pc' = "sleep"
  /\ UNCHANGED <<user, status, block, mapOff, prev, prevblock, fx, events>>

\* (re)enabled: the colour of the user, then the battery's; prevblock stays
Initialise ==
  /\ pc = "pass" /\ conf.on /\ ~init /\ init' = TRUE /\ pc' = "refresh"
  /\ IF device = Split
     THEN Paint(EsLight) /\ status' = Shown(BatteryColour, status)
     ELSE /\ accent' = Shown(BatteryColour, EsLight) /\ UNCHANGED status
          /\ touched' = IF BatteryColour = prevblock THEN "no" ELSE "enabling"
  /\ UNCHANGED <<user, block, mapOff, prev, prevblock, fx, events>>

\* Refresh as a bug would have it: the battery's colour counts as still shown
RefreshKeepsBlock ==
  /\ pc = "refresh" \/ (pc = "pass" /\ conf.on /\ init)
  /\ pc' = IF HasStatus THEN "status" ELSE "gate"
  /\ IF prev = [es |-> conf.es, dim |-> conf.dim]
     THEN UNCHANGED <<accent, touched, prev>>
     ELSE /\ Paint(EsLight)
          /\ prev' = [es |-> conf.es, dim |-> conf.dim]
  /\ UNCHANGED <<user, status, block, mapOff, init, prevblock, fx, events>>

\* a slider moved: at once the colour of the user, even while blocked
Refresh ==
  /\ pc = "refresh" \/ (pc = "pass" /\ conf.on /\ init)
  /\ pc' = IF HasStatus THEN "status" ELSE "gate"
  /\ IF prev = [es |-> conf.es, dim |-> conf.dim]
     THEN UNCHANGED <<accent, touched, prev, prevblock>>
     ELSE /\ Paint(EsLight) /\ prevblock' = ""
          /\ prev' = [es |-> conf.es, dim |-> conf.dim]
  /\ UNCHANGED <<user, status, block, mapOff, init, fx, events>>

\* StatusLed as a bug would have it: painted when its colour changes
StatusLedOnChange ==
  /\ pc = "status" /\ pc' = "gate" /\ prevblock' = BatteryColour
  /\ IF device = Split
     THEN /\ status' = IF prevblock = BatteryColour THEN status
                       ELSE Shown(BatteryColour, status)
          /\ UNCHANGED <<accent, touched>>
     ELSE Paint(Shown(BatteryColour, accent)) /\ UNCHANGED status
  /\ UNCHANGED <<user, block, mapOff, init, prev, fx, events>>

\* the battery's light, at every pass, blocked or not; on a Ring the accent's
StatusLed ==
  /\ pc = "status" /\ pc' = "gate"
  /\ prevblock' = IF BatteryColour = "nothing" THEN prevblock ELSE BatteryColour
  /\ IF device = Split
     THEN status' = Shown(BatteryColour, status) /\ UNCHANGED <<accent, touched>>
     ELSE Paint(Shown(BatteryColour, accent)) /\ UNCHANGED status
  /\ UNCHANGED <<user, block, mapOff, init, prev, fx, events>>

\* color_changes_allowed reads the file, and writes 0 to it if two minutes have
\* passed since the time in it, a 0 as well
Gate ==
  /\ pc = "gate"
  /\ pc' = CASE block = "fresh" -> "sleep" [] block = "none" -> "show" [] OTHER -> "clear"
  /\ UNCHANGED <<user, accent, status, block, mapOff, init, prev, prevblock, fx,
                 touched, events>>

Clear ==
  /\ pc = "clear" /\ pc' = "show" /\ block' = "zero"
  /\ UNCHANGED <<user, accent, status, mapOff, init, prev, prevblock, fx, touched,
                 events>>

\* Show as a bug would have it: the user's colour too only when it is new
ShowOnChange ==
  /\ pc = "show" /\ pc' = "sleep"
  /\ CASE conf.animated ->
            Paint(<<Flash, 0>>) /\ prevblock' = IF HasStatus THEN prevblock ELSE ""
       [] ~conf.animated /\ HasStatus -> Paint(EsLight) /\ UNCHANGED prevblock
       [] OTHER ->
            IF prevblock = BatteryColour THEN UNCHANGED <<accent, touched, prevblock>>
            ELSE Paint(Shown(BatteryColour, accent)) /\ prevblock' = BatteryColour
  /\ UNCHANGED <<user, status, block, mapOff, init, prev, fx, events>>

\* an animated frame, the colour of the user, or a new colour of the battery
Show ==
  /\ pc = "show" /\ pc' = "sleep"
  /\ CASE conf.animated ->
            Paint(<<Flash, 0>>) /\ prevblock' = IF HasStatus THEN prevblock ELSE ""
       [] ~conf.animated /\ HasStatus -> Paint(EsLight) /\ UNCHANGED prevblock
       [] OTHER ->
            IF BatteryColour \in {prevblock, "nothing"} \ {Esc}
            THEN UNCHANGED <<accent, touched, prevblock>>
            ELSE Paint(Shown(BatteryColour, accent)) /\ prevblock' = BatteryColour
  /\ UNCHANGED <<user, status, block, mapOff, init, prev, fx, events>>

Wake ==
  /\ pc = "sleep" /\ pc' = "pass"
  /\ UNCHANGED <<user, accent, status, block, mapOff, init, prev, prevblock, fx,
                 touched, events>>

-----------------------------------------------------------------------------
(* A flash: batocera-led-handheld retroachievement, one process each.      *)

At(p, step) == fx' = [fx EXCEPT ![p].at = step]
Elsewhere == UNCHANGED <<user, status, daemon, events>>

\* the light changed under the daemon
Touch(l) == accent' = l /\ touched' = "others"

Event == events < MaxEvents /\ events' = events + 1

\* leds_runtime_enabled, then color_changes_allowed reads the file
Notice(p) ==
  /\ fx[p].at = "ready" /\ Event
  /\ At(p, IF ~conf.on \/ block = "fresh" THEN "done"
           ELSE IF block = "none" THEN "allowed" ELSE "cleared")
  /\ UNCHANGED <<user, accent, status, block, daemon, touched>>

ClearBlock(p) ==
  /\ fx[p].at = "cleared" /\ At(p, "allowed") /\ block' = "zero"
  /\ Elsewhere /\ UNCHANGED <<accent, touched>>

Block(p) ==
  /\ fx[p].at = "allowed" /\ At(p, "blocked") /\ block' = "fresh"
  /\ Elsewhere /\ UNCHANGED <<accent, touched>>

\* rainbow_effect: get_color, then the first frame
Flashing(p) ==
  /\ fx[p].at = "blocked" /\ fx' = [fx EXCEPT ![p] = [at |-> "running", light |-> accent]]
  /\ Touch(<<Flash, 0>>) /\ Elsewhere /\ UNCHANGED block

Frame(p) ==
  /\ fx[p].at = "running" /\ accent # <<Flash, 0>>
  /\ Touch(<<Flash, 0>>) /\ Elsewhere /\ UNCHANGED <<block, fx>>

\* set_color(prev); rgbledaddr and legiongosled leave the last frame
RestoreLight(p) ==
  /\ fx[p].at = "running" /\ At(p, "restored")
  /\ IF device \in {Addr, Legion} THEN UNCHANGED <<accent, touched>>
     ELSE Touch(Scaled(fx[p].light))
  /\ Elsewhere /\ UNCHANGED block

Unblock(p) ==
  /\ fx[p].at = "restored" /\ At(p, "done") /\ block' = "zero"
  /\ Elsewhere /\ UNCHANGED <<accent, touched>>

Flasher(p) ==
  ClearBlock(p) \/ Block(p) \/ Flashing(p) \/ RestoreLight(p) \/ Unblock(p)

-----------------------------------------------------------------------------
(* EmulationStation, the battery, the service.                             *)

Set(c) ==
  /\ c # conf /\ conf' = c /\ Event
  /\ UNCHANGED <<device, allOff, battery, accent, status, block, daemon, fx, touched>>

Settings ==
  \/ \E on \in BOOLEAN : Set([conf EXCEPT !.on = on])
  \/ \E es \in Colour : Set([conf EXCEPT !.es = es])
  \/ \E dim \in BOOLEAN : Set([conf EXCEPT !.dim = dim])
  \/ \E a \in BOOLEAN : Set([conf EXCEPT !.animated = a])
  \/ device = Split /\ Set([conf EXCEPT !.statusOn = ~conf.statusOn])

Charge(b) ==
  /\ b # battery /\ battery' = b /\ Event
  /\ UNCHANGED <<device, conf, allOff, accent, status, block, daemon, fx, touched>>

\* set_color and set_color_dec are not held off
SetColor ==
  /\ Event /\ Touch(Scaled(<<Picked, 0>>))
  /\ UNCHANGED <<user, status, block, daemon, fx>>

\* block_color_changes and unblock_color_changes
Hold ==
  /\ Event /\ \E held \in {"fresh", "zero"} \ {block} : block' = held
  /\ UNCHANGED <<user, accent, status, daemon, fx, touched>>

\* two minutes: longer than any flash
Age ==
  /\ block = "fresh" /\ \A p \in Process : fx[p].at \in {"ready", "done"}
  /\ block' = "old"
  /\ UNCHANGED <<user, accent, status, daemon, fx, touched, events>>

SuspendStatus ==
  /\ device = Split /\ Event /\ status' = Dark
  /\ UNCHANGED <<user, accent, block, daemon, fx, touched>>

\* S51led-handheld stop: the daemon is killed, the lights are turned off
Stop ==
  /\ pc # "down" /\ pc' = "down" /\ Event /\ Touch(Dark)
  /\ status' = IF device = Split THEN Dark ELSE status
  /\ UNCHANGED <<user, block, mapOff, init, prev, prevblock, fx>>

Daemon ==
  \/ StartDaemon \/ PassDisabled \/ Initialise \/ Refresh \/ StatusLed
  \/ Gate \/ Clear \/ Show \/ Wake

Next ==
  \/ Daemon
  \/ \E p \in Process : Notice(p) \/ Flasher(p) \/ Frame(p)
  \/ Settings \/ SetColor \/ Hold \/ Age \/ SuspendStatus \/ Stop
  \/ \E b \in Bands : Charge(b)

\* the daemon passes every second, a flash ends, and time goes on; the service
\* is started again, for whatever stopped it, but while system.led-handheld is 0
\* (S51led-handheld:10-11), one of the two settings that disable the LEDs
Fairness ==
  /\ WF_vars(Daemon /\ (conf.on \/ pc # "down")) /\ WF_vars(Age)
  /\ \A p \in Process : WF_vars(Flasher(p))

Spec == Init /\ [][Next]_vars /\ Fairness

-----------------------------------------------------------------------------
(* Disabled LEDs end dark: a flash that restores a light after the daemon  *)
(* turned it off does not keep it, as long as the daemon runs.             *)
DisabledGoesDark == <>[](~conf.on /\ pc # "down") => <>[](accent = Dark)

(* The ring follows the colour and brightness of EmulationStation whatever *)
(* flashed, was picked or held the daemon off, where it shows no battery.  *)
EsColourReturns ==
  <>[](conf.on /\ ~conf.animated /\ (HasStatus \/ BatteryColour = Esc))
  => (device # Ring => <>[](accent = EsLight)) /\ []<>(accent = EsLight)

(* The hue of the battery is shown as long as the battery asks for it, if  *)
(* nobody painted over it since: the daemon paints it once only.  What it  *)
(* painted when it was enabled it does not remember.  (A brightness moved  *)
(* and moved back between two looks may stay applied.)  A status light of  *)
(* its own follows the battery, animated or held off or suspended as the   *)
(* rest may be, by the map the daemon started with.                        *)
AsksForHue(devices) ==
  conf.on /\ ~conf.animated /\ device \in devices /\ BatteryColour \in {"red", "green"}

HueHolds ==
  <>[]AsksForHue({Pwm, Addr, Legion})
  => <>[](touched # "no" \/ accent[1] = BatteryColour)
StatusFollows ==
  <>[](conf.on /\ device = Split) => <>[](status = Shown(BatteryColour, Dark))
BatteryColourHolds == HueHolds /\ StatusFollows

(* "default is: 10=CC3333", and "applied at boot and after re-enabling so   *)
(* the user doesn't need to nudge a slider": whatever the handheld, its    *)
(* light shows what the battery asks for, if nobody else painted over it   *)
(* (the comments on top of batocera-led-handheld.py and at its line 363).  *)
BatteryAlwaysShown ==
  <>[]AsksForHue({Ring, Pwm, Addr, Legion})
  => <>[](touched = "others" \/ accent[1] = BatteryColour)

-----------------------------------------------------------------------------
(* Why the hue holds: but for what others painted, and its own painting    *)
(* when it was enabled, the light shows the colour the daemon remembers.   *)
Remembered ==
  ~HasStatus /\ init /\ touched = "no"
  => /\ prevblock \in {"red", "green"} => accent[1] = prevblock
     /\ prevblock = "OFF" => accent = Dark

(* A pass goes on only once the lights are enabled, and to the battery's   *)
(* light only where there is one.                                          *)
PassKnown ==
  /\ pc \in {"refresh", "status", "gate", "clear", "show"} => init
  /\ pc = "status" => HasStatus

IInv == TypeOK /\ PassKnown /\ Remembered

(* Disabled and dark they stay, once the flashes under way are over, until *)
(* they are enabled, a colour is picked or the service is restarted: no    *)
(* pass that was under way, and no light that a flash restores, shows.     *)
Rested ==
  /\ ~conf.on /\ accent = Dark /\ pc \in {"pass", "sleep"}
  /\ \A p \in Process : fx[p].at \in {"ready", "restored", "done"}

DarkStays ==
  [][Rested => Rested' \/ conf'.on \/ touched' = "others" \/ pc' = "down"]_vars

(* Once enabled, with the sliders at rest, the daemon leaves lights that   *)
(* show what the policy says as they are: no step of it, wherever its pass *)
(* was when they came to, paints over one of them.                         *)
EsPolicy == ~conf.animated /\ device # Ring /\ (HasStatus \/ BatteryColour = Esc)
ShowsPolicy ==
  /\ EsPolicy => accent = EsLight
  /\ AsksForHue({Pwm, Addr, Legion}) => accent[1] = BatteryColour
  /\ device = Split => status = Shown(BatteryColour, Dark)

AtRest == pc # "down" /\ conf.on /\ init /\ prev = [es |-> conf.es, dim |-> conf.dim]

ShownStays == [][Daemon /\ AtRest /\ ShowsPolicy => AtRest' /\ ShowsPolicy']_vars
=============================================================================
