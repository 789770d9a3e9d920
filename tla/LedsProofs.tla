----------------------------- MODULE LedsProofs -----------------------------
(***************************************************************************)
(* For any handheld, any colours, flashes and number of events: but for    *)
(* what others paint, the light of a handheld with one light shows what    *)
(* the daemon remembers; disabled LEDs that are dark stay so; and lights   *)
(* that show what the policy says are not changed by the daemon.           *)
(***************************************************************************)
EXTENDS Leds, TLAPS

(* Lights.                                                                 *)

BatteryColours == {"nothing", Esc, "green", "amber", "red", "OFF", "PULSE"}

LEMMA DarkTyped == Dark \in Lights
  BY DEF Dark, Lights, Hues, MaxDim

LEMMA FlashTyped == <<Flash, 0>> \in Lights /\ <<Flash, 0>>[1] # "red"
  BY DEF Lights, Hues, MaxDim, Flash

\* Brightness leaves the hue, and black.
LEMMA ScaledKeeps ==
  ASSUME NEW h \in Hues, NEW n \in 0 .. MaxDim
  PROVE  /\ Scaled(<<h, n>>) \in Lights
         /\ h # "off" => Scaled(<<h, n>>)[1] = h
<1>1. Applied \in 0 .. 1
  BY DEF Applied
<1>2. Capped(n + Applied) \in 0 .. MaxDim
  BY <1>1 DEF Capped, MaxDim
<1>3. <<h, n>>[1] = h /\ <<h, n>>[2] = n
  OBVIOUS
<1>4. CASE h = "off"
  BY <1>3, <1>4, DarkTyped DEF Scaled
<1>5. CASE h # "off"
  <2>1. Scaled(<<h, n>>) = <<h, Capped(n + Applied)>>
    BY <1>3, <1>5 DEF Scaled
  <2> QED
    BY <1>2, <2>1 DEF Lights
<1> QED
  BY <1>4, <1>5

LEMMA FreshlyScaled ==
  ASSUME NEW h \in Hues
  PROVE  Scaled(<<h, 0>>) \in Lights /\ (h # "off" => Scaled(<<h, 0>>)[1] = h)
<1>1. 0 \in 0 .. MaxDim
  BY DEF MaxDim
<1> QED
  BY <1>1, ScaledKeeps

LEMMA EsTyped == ASSUME TypeOK PROVE conf.es \in Hues /\ EsLight \in Lights
<1>1. conf.es \in Colour
  BY DEF TypeOK, Conf
<1>2. conf.es \in Hues
  BY <1>1 DEF Hues
<1> QED
  BY <1>2, FreshlyScaled DEF EsLight

\* Every layout has a colour for every band.
LEMMA DefaultTyped == ASSUME TypeOK PROVE BatteryColour \in BatteryColours
<1>1. battery \in Bands
  BY DEF TypeOK
<1>2. Default(battery) \in BatteryColours
  BY <1>1 DEF Default, Bands, BatteryColours
<1> QED
  BY <1>2 DEF BatteryColour, BatteryColours

\* A light that is painted for the battery is a light; red and green are their hue.
LEMMA ShownTyped ==
  ASSUME TypeOK, NEW c \in BatteryColours, NEW over \in Lights
  PROVE  /\ Shown(c, over) \in Lights
         /\ c \in {"red", "green"} => Shown(c, over)[1] = c
         /\ c = "OFF" => Shown(c, over) = Dark
<1>1. \A h \in Hues : Scaled(<<h, 0>>) \in Lights /\ (h # "off" => Scaled(<<h, 0>>)[1] = h)
  BY FreshlyScaled
<1>2. Scaled(over) \in Lights
  <2>1. PICK h \in Hues, n \in 0 .. MaxDim : over = <<h, n>>
    BY DEF Lights
  <2> QED
    BY <2>1, ScaledKeeps
<1>3. conf.es \in Hues /\ {"red", "green", "amber"} \subseteq Hues
  BY EsTyped DEF Hues
<1>4. CASE c = "nothing"
  BY <1>4 DEF Shown
<1>5. CASE c = "OFF"
  BY <1>5, DarkTyped DEF Shown
<1>6. CASE c = "PULSE"
  BY <1>1, <1>2, <1>3, <1>6, EsTyped, FlashTyped DEF Shown
<1>7. CASE c = Esc
  BY <1>1, <1>3, <1>7 DEF Shown, Esc
<1>8. CASE c \in {"red", "green", "amber"}
  <2>1. Shown(c, over) = Scaled(<<c, 0>>)
    BY <1>8 DEF Shown, Esc
  <2> QED
    BY <1>1, <1>3, <1>8, <2>1
<1> QED
  BY <1>4, <1>5, <1>6, <1>7, <1>8 DEF BatteryColours

-----------------------------------------------------------------------------
(* The invariant.                                                          *)

LEMMA InitIInv == Init => IInv
<1> SUFFICES ASSUME Init PROVE IInv
  OBVIOUS
<1>1. conf \in Conf /\ prev \in [es : Colour, dim : BOOLEAN]
  BY LedsAssumption DEF Init, Conf
<1>3. fx \in [Process -> Effect]
  BY DarkTyped DEF Init, Effect
<1>4. events \in 0 .. MaxEvents
  BY LedsAssumption DEF Init
<1>2. TypeOK
  BY <1>1, <1>3, <1>4, DarkTyped DEF Init, TypeOK, Bands
<1> QED
  BY <1>2 DEF Init, IInv, PassKnown, Remembered

\* What the user, the flashes and the commands do leaves the daemon its memory.
LEMMA OthersPaint ==
  ASSUME IInv, TypeOK', UNCHANGED <<device, daemon>>,
         UNCHANGED <<accent, touched>> \/ touched' = "others"
  PROVE  IInv'
  BY DEF IInv, PassKnown, Remembered, HasStatus, daemon

\* Painting, by the daemon.
LEMMA DaemonTyped == ASSUME IInv, Daemon PROVE TypeOK'
<1>1. TypeOK /\ conf.es \in Colour /\ conf.dim \in BOOLEAN
  BY DEF IInv, TypeOK, Conf
<1>2. EsLight \in Lights /\ Dark \in Lights /\ <<Flash, 0>> \in Lights
  BY <1>1, EsTyped, DarkTyped, FlashTyped
<1>3. BatteryColour \in BatteryColours
  BY <1>1, DefaultTyped
<1>4. \A over \in Lights : Shown(BatteryColour, over) \in Lights
  BY <1>1, <1>3, ShownTyped
<1>5. CASE StartDaemon
  BY <1>1, <1>2, <1>5 DEF StartDaemon, Paint, user, TypeOK
<1>6. CASE PassDisabled
  BY <1>1, <1>2, <1>6 DEF PassDisabled, Paint, user, TypeOK
<1>7. CASE Initialise
  BY <1>1, <1>2, <1>4, <1>7 DEF Initialise, Paint, user, TypeOK
<1>8. CASE Refresh
  <2>1. prev' \in [es : Colour, dim : BOOLEAN]
    <3>1. prev \in [es : Colour, dim : BOOLEAN]
      BY <1>1 DEF TypeOK
    <3>2. prev' = prev \/ prev' = [es |-> conf.es, dim |-> conf.dim]
      BY <1>8 DEF Refresh
    <3>3. [es |-> conf.es, dim |-> conf.dim] \in [es : Colour, dim : BOOLEAN]
      BY <1>1
    <3> QED
      BY <3>1, <3>2, <3>3
  <2>2. accent' \in Lights /\ touched' \in {"no", "enabling", "others"}
        /\ prevblock' \in {"", "nothing", Esc, "green", "amber", "red", "OFF", "PULSE"}
    BY <1>1, <1>2, <1>8 DEF Refresh, Paint, TypeOK
  <2> QED
    BY <1>1, <1>8, <2>1, <2>2 DEF Refresh, user, TypeOK
<1>9. CASE StatusLed
  <2>1. accent' \in Lights /\ status' \in Lights /\ touched' \in {"no", "enabling", "others"}
    BY <1>1, <1>4, <1>9 DEF StatusLed, Paint, TypeOK
  <2>2. prevblock' \in {"", "nothing", Esc, "green", "amber", "red", "OFF", "PULSE"}
    BY <1>1, <1>3, <1>9 DEF StatusLed, TypeOK, BatteryColours
  <2> QED
    BY <1>1, <1>9, <2>1, <2>2 DEF StatusLed, user, TypeOK
<1>10. CASE Gate \/ Clear \/ Wake
  <2>1. CASE Gate
    BY <1>1, <2>1 DEF Gate, user, TypeOK
  <2>2. CASE Clear
    BY <1>1, <2>2 DEF Clear, user, TypeOK
  <2>3. CASE Wake
    BY <1>1, <2>3 DEF Wake, user, TypeOK
  <2> QED
    BY <1>10, <2>1, <2>2, <2>3
<1>11. CASE Show
  <2>1. accent' \in Lights /\ touched' \in {"no", "enabling", "others"}
    BY <1>1, <1>2, <1>4, <1>11 DEF Show, Paint, TypeOK
  <2>2. prevblock' \in {"", "nothing", Esc, "green", "amber", "red", "OFF", "PULSE"}
    BY <1>1, <1>3, <1>11 DEF Show, TypeOK, BatteryColours
  <2> QED
    BY <1>1, <1>11, <2>1, <2>2 DEF Show, user, TypeOK
<1> QED
  BY <1>5, <1>6, <1>7, <1>8, <1>9, <1>10, <1>11 DEF Daemon

LEMMA DaemonInv == ASSUME IInv, Daemon PROVE IInv'
<1>1. TypeOK /\ TypeOK'
  BY DaemonTyped DEF IInv
<1>2. BatteryColour \in BatteryColours /\ accent \in Lights /\ EsLight \in Lights
  BY <1>1, DefaultTyped, EsTyped DEF TypeOK
<1>3. \A over \in Lights :
        /\ BatteryColour \in {"red", "green"} => Shown(BatteryColour, over)[1] = BatteryColour
        /\ BatteryColour = "OFF" => Shown(BatteryColour, over) = Dark
  BY <1>1, <1>2, ShownTyped
<1>4. HasStatus' <=> HasStatus
  BY DEF Daemon, StartDaemon, PassDisabled, Initialise, Refresh, StatusLed, Gate, Clear,
         Show, Wake, user, HasStatus
<1>5. PassKnown'
  BY <1>4 DEF Daemon, StartDaemon, PassDisabled, Initialise, Refresh, StatusLed, Gate, Clear,
              Show, Wake, IInv, PassKnown
<1>6. Remembered'
  <2>1. CASE StartDaemon
    BY <2>1 DEF StartDaemon, Remembered
  <2>2. CASE PassDisabled
    BY <2>2 DEF PassDisabled, Remembered
  <2>3. CASE Initialise
    BY <1>2, <1>3, <1>4, <2>3 DEF Initialise, Remembered, HasStatus
  <2>4. CASE Refresh
    BY <1>4, <2>4 DEF Refresh, Paint, IInv, PassKnown, Remembered
  <2>5. CASE StatusLed
    BY <1>4, <2>5 DEF StatusLed, IInv, PassKnown, Remembered
  <2>6. CASE Gate \/ Clear \/ Wake
    BY <1>4, <2>6 DEF Gate, Clear, Wake, IInv, Remembered
  <2>7. CASE Show
    BY <1>2, <1>3, <1>4, <2>7 DEF Show, Paint, IInv, Remembered
  <2> QED
    BY <2>1, <2>2, <2>3, <2>4, <2>5, <2>6, <2>7 DEF Daemon
<1> QED
  BY <1>1, <1>5, <1>6 DEF IInv

\* Events are counted up to their bound.
LEMMA Counted ==
  ASSUME TypeOK, Event \/ UNCHANGED events
  PROVE  events' \in 0 .. MaxEvents
<1>1. events \in 0 .. MaxEvents
  BY DEF TypeOK
<1> QED
  BY <1>1, LedsAssumption DEF Event

LEMMA FlashInv ==
  ASSUME IInv, NEW p \in Process, Notice(p) \/ Flasher(p) \/ Frame(p)
  PROVE  IInv'
<1>1. TypeOK
  BY DEF IInv
<1>2. events' \in 0 .. MaxEvents
  <2>1. Event \/ UNCHANGED events
    BY DEF Notice, Flasher, ClearBlock, Block, Flashing, RestoreLight, Unblock, Frame, Elsewhere
  <2> QED
    BY <1>1, <2>1, Counted
<1>3. fx[p].light \in Lights /\ Scaled(fx[p].light) \in Lights
  <2>1. fx[p].light \in Lights
    BY <1>1 DEF TypeOK, Effect
  <2>2. PICK h \in Hues, n \in 0 .. MaxDim : fx[p].light = <<h, n>>
    BY <2>1 DEF Lights
  <2> QED
    BY <2>1, <2>2, ScaledKeeps
<1>4. fx' \in [Process -> Effect]
  <2>1. \A step \in {"ready", "cleared", "allowed", "blocked", "running", "restored", "done"} :
          At(p, step) => fx' \in [Process -> Effect]
    <3>1. fx \in [Process -> Effect]
      BY <1>1 DEF TypeOK
    <3>2. \A step \in {"ready", "cleared", "allowed", "blocked", "running", "restored", "done"} :
            [fx[p] EXCEPT !.at = step] \in Effect
      BY <3>1 DEF Effect
    <3> QED
      BY <3>1, <3>2 DEF At
  <2>2. CASE Notice(p)
    BY <2>1, <2>2 DEF Notice
  <2>5. CASE ClearBlock(p) \/ Block(p) \/ RestoreLight(p) \/ Unblock(p)
    BY <2>1, <2>5 DEF ClearBlock, Block, RestoreLight, Unblock
  <2>3. CASE Flashing(p)
    <3>1. [at |-> "running", light |-> accent] \in Effect
      BY <1>1 DEF TypeOK, Effect
    <3> QED
      BY <1>1, <2>3, <3>1 DEF Flashing, TypeOK
  <2>4. CASE Frame(p)
    BY <1>1, <2>4 DEF Frame, TypeOK
  <2> QED
    BY <2>2, <2>3, <2>4, <2>5 DEF Flasher
<1>5. accent' \in Lights
  BY <1>1, <1>3, FlashTyped
  DEF Notice, Flasher, ClearBlock, Block, Flashing, RestoreLight, Unblock, Frame, Touch, TypeOK
<1>6. /\ block' \in {"none", "zero", "fresh", "old"} /\ UNCHANGED <<user, status, daemon>>
      /\ UNCHANGED <<accent, touched>> \/ touched' = "others"
  BY <1>1 DEF Notice, Flasher, ClearBlock, Block, Flashing, RestoreLight, Unblock, Frame,
              Elsewhere, Touch, TypeOK
<1>7. TypeOK'
  <2>1. conf' = conf /\ conf \in Conf /\ prev' = prev /\ prev \in [es : Colour, dim : BOOLEAN]
    BY <1>1, <1>6 DEF TypeOK, user, daemon
  <2>2. /\ device' \in Device /\ allOff' \in BOOLEAN /\ battery' \in Bands
        /\ status' \in Lights /\ mapOff' \in BOOLEAN /\ init' \in BOOLEAN
    BY <1>1, <1>6 DEF TypeOK, user, daemon
  <2>3. /\ touched' \in {"no", "enabling", "others"}
        /\ pc' \in {"down", "pass", "refresh", "status", "gate", "clear", "show", "sleep"}
        /\ prevblock' \in {"", "nothing", Esc, "green", "amber", "red", "OFF", "PULSE"}
    BY <1>1, <1>6 DEF TypeOK, daemon
  <2> QED
    BY <1>2, <1>4, <1>5, <1>6, <2>1, <2>2, <2>3, Zenon DEF TypeOK
<1> QED
  BY <1>6, <1>7, OthersPaint DEF user

LEMMA UserInv ==
  ASSUME IInv,
         \/ Settings \/ SetColor \/ Hold \/ Age \/ SuspendStatus
         \/ \E b \in Bands : Charge(b)
  PROVE  IInv'
<1>1. TypeOK
  BY DEF IInv
<1>2. events' \in 0 .. MaxEvents
  <2>1. Event \/ UNCHANGED events
    BY DEF Settings, Set, SetColor, Hold, Age, SuspendStatus, Charge
  <2> QED
    BY <1>1, <2>1, Counted
<1>3. Scaled(<<Picked, 0>>) \in Lights
  BY FreshlyScaled DEF Hues
<1>4. conf' \in Conf
  BY <1>1 DEF Settings, Set, SetColor, Hold, Age, SuspendStatus, Charge, user, TypeOK, Conf
<1>7. /\ accent' \in Lights /\ status' \in Lights /\ touched' \in {"no", "enabling", "others"}
      /\ block' \in {"none", "zero", "fresh", "old"} /\ battery' \in Bands
  BY <1>1, <1>3, DarkTyped
  DEF Settings, Set, SetColor, Hold, Age, SuspendStatus, Charge, Touch, user, TypeOK
<1>8. UNCHANGED <<device, allOff, daemon, fx>>
  BY DEF Settings, Set, SetColor, Hold, Age, SuspendStatus, Charge, user
<1>5. TypeOK' /\ UNCHANGED <<device, daemon>>
  BY <1>1, <1>2, <1>4, <1>7, <1>8 DEF daemon, TypeOK
<1>6. UNCHANGED <<accent, touched>> \/ touched' = "others"
  BY DEF Settings, Set, SetColor, Hold, Age, SuspendStatus, Charge, Touch
<1> QED
  BY <1>5, <1>6, OthersPaint

LEMMA StopInv == ASSUME IInv, Stop PROVE IInv'
<1>1. TypeOK'
  <2>1. events' \in 0 .. MaxEvents
    BY Counted DEF Stop, IInv
  <2> QED
    BY <2>1, DarkTyped DEF Stop, Touch, user, IInv, TypeOK
<1> QED
  BY <1>1 DEF Stop, Touch, IInv, PassKnown, Remembered

LEMMA Preserved == IInv /\ [Next]_vars => IInv'
<1> SUFFICES ASSUME IInv, [Next]_vars PROVE IInv'
  OBVIOUS
<1>1. CASE UNCHANGED vars
  <2>1. TypeOK'
    <3>1. TypeOK
      BY DEF IInv
    <3>2. /\ UNCHANGED <<device, conf, allOff, battery, accent, status, block>>
          /\ UNCHANGED <<pc, mapOff, init, prev, prevblock, fx, touched, events>>
      BY <1>1 DEF vars, user, daemon
    <3>3. conf' \in Conf /\ fx' \in [Process -> Effect]
          /\ prev' \in [es : Colour, dim : BOOLEAN]
      BY <3>1, <3>2 DEF TypeOK
    <3>4. /\ device' \in Device /\ allOff' \in BOOLEAN /\ battery' \in Bands
          /\ accent' \in Lights /\ status' \in Lights
          /\ mapOff' \in BOOLEAN /\ init' \in BOOLEAN /\ events' \in 0 .. MaxEvents
      BY <3>1, <3>2 DEF TypeOK
    <3>5. /\ block' \in {"none", "zero", "fresh", "old"}
          /\ touched' \in {"no", "enabling", "others"}
          /\ pc' \in {"down", "pass", "refresh", "status", "gate", "clear", "show", "sleep"}
          /\ prevblock' \in {"", "nothing", Esc, "green", "amber", "red", "OFF", "PULSE"}
      BY <3>1, <3>2 DEF TypeOK
    <3> QED
      BY <3>3, <3>4, <3>5, Zenon DEF TypeOK
  <2> QED
    BY <1>1, <2>1, OthersPaint DEF vars, user
<1> QED
  BY <1>1, DaemonInv, FlashInv, UserInv, StopInv DEF Next

(* Types, and that what led_check remembers in prevblock is what it painted *)
(* (batocera-led-handheld.py 366-469), for any driver, colours, flashes and *)
(* number of events.                                                        *)
THEOREM Invariance == Spec => []IInv
<1>1. Init /\ [][Next]_vars => []IInv
  BY InitIInv, Preserved, PTL
<1> QED
  BY <1>1, PTL DEF Spec

-----------------------------------------------------------------------------
(* Lights that stay as they are.                                           *)

\* Disabled, the daemon does no more than turn the light off again.
LEMMA DaemonRests == ASSUME Rested, Daemon PROVE Rested'
<1>1. PassDisabled \/ Wake
  BY DEF Rested, Daemon, StartDaemon, Initialise, Refresh, StatusLed, Gate, Clear, Show
<1>2. CASE PassDisabled
  BY <1>2 DEF PassDisabled, Paint, user, Rested
<1>3. CASE Wake
  BY <1>3 DEF Wake, user, Rested
<1> QED
  BY <1>1, <1>2, <1>3

\* A flash that begins finds the LEDs disabled; one that restored its light unblocks.
LEMMA FlashRests ==
  ASSUME TypeOK, Rested, NEW p \in Process, Notice(p) \/ Flasher(p) \/ Frame(p)
  PROVE  Rested'
<1>1. Notice(p) \/ Unblock(p)
  BY DEF Rested, Flasher, ClearBlock, Block, Flashing, RestoreLight, Frame
<1>2. At(p, "done") /\ UNCHANGED <<conf, accent, pc>>
  BY <1>1 DEF Notice, Unblock, Rested, Elsewhere, user, daemon
<1>3. \A q \in Process : fx'[q].at \in {"ready", "restored", "done"}
  <2> SUFFICES ASSUME NEW q \in Process PROVE fx'[q].at \in {"ready", "restored", "done"}
    OBVIOUS
  <2>1. fx \in [Process -> Effect]
    BY DEF TypeOK
  <2>2. CASE q = p
    BY <1>2, <2>1, <2>2 DEF At, Effect
  <2>3. CASE q # p
    BY <1>2, <2>1, <2>3 DEF At, Rested
  <2> QED
    BY <2>2, <2>3
<1> QED
  BY <1>2, <1>3 DEF Rested

LEMMA Rests ==
  ASSUME TypeOK, [Next]_vars, Rested
  PROVE  Rested' \/ conf'.on \/ touched' = "others" \/ pc' = "down"
<1>1. CASE Daemon
  BY <1>1, DaemonRests
<1>2. CASE \E p \in Process : Notice(p) \/ Flasher(p) \/ Frame(p)
  BY <1>2, FlashRests
<1>3. CASE Settings
  <2>1. UNCHANGED <<accent, pc, fx>>
    BY <1>3 DEF Settings, Set, daemon
  <2>2. conf'.on \in BOOLEAN
    BY <1>3 DEF Settings, Set, TypeOK, Conf
  <2> QED
    BY <2>1, <2>2 DEF Rested
<1>4. CASE SetColor \/ Stop
  BY <1>4 DEF SetColor, Stop, Touch
<1>5. CASE Hold \/ Age \/ SuspendStatus \/ \E b \in Bands : Charge(b)
  BY <1>5 DEF Hold, Age, SuspendStatus, Charge, Rested, user, daemon
<1>6. CASE UNCHANGED vars
  BY <1>6 DEF vars, user, daemon, Rested
<1> QED
  BY <1>1, <1>2, <1>3, <1>4, <1>5, <1>6 DEF Next

(* Disabled and dark LEDs stay so until they are enabled, a colour is      *)
(* picked or the service restarts (main loop 346-363, 389 ff., effects).   *)
THEOREM DarkIsKept == Spec => DarkStays
<1>1. IInv /\ [Next]_vars
      => [Rested => Rested' \/ conf'.on \/ touched' = "others" \/ pc' = "down"]_vars
  BY Rests DEF IInv
<1> QED
  BY <1>1, Invariance, PTL DEF Spec, DarkStays

\* What the battery's colour of a status light shows does not depend on the light before.
LEMMA StatusShown ==
  ASSUME TypeOK, device = Split, NEW over
  PROVE  Shown(BatteryColour, over) = Shown(BatteryColour, Dark)
<1>1. BatteryColour \in {"OFF", "amber", "red"}
  <2>1. battery \in Bands
    BY DEF TypeOK
  <2>2. Default(battery) \in {"OFF", "amber", "red"}
    BY <2>1 DEF Default, Bands, Split, Ring
  <2> QED
    BY <2>2 DEF BatteryColour
<1> QED
  BY <1>1 DEF Shown, Split, Esc

\* At the end of its pass the daemon paints what the light shows already.
LEMMA ShowStays ==
  ASSUME IInv, Show, AtRest, ShowsPolicy, UNCHANGED <<BatteryColour, EsLight>>
  PROVE  ShowsPolicy'
<1>1. UNCHANGED <<device, conf, status, mapOff, battery>>
  BY DEF Show, user
<1>2. ASSUME EsPolicy PROVE accent' = EsLight
  <2>1. ~conf.animated /\ accent = EsLight
    BY <1>2 DEF EsPolicy, ShowsPolicy
  <2>2. CASE HasStatus
    BY <2>1, <2>2 DEF Show, Paint
  <2>3. CASE ~HasStatus /\ BatteryColour = Esc
    <3>1. Shown(BatteryColour, accent) = EsLight
      BY <2>3 DEF Shown, EsLight, Esc
    <3> QED
      BY <2>1, <2>3, <3>1 DEF Show, Paint
  <2> QED
    BY <1>2, <2>2, <2>3 DEF EsPolicy
<1>3. ASSUME AsksForHue({Pwm, Addr, Legion}) PROVE accent'[1] = BatteryColour
  <2>1. BatteryColour \in {"red", "green"} /\ ~conf.animated /\ ~HasStatus
    BY <1>3 DEF AsksForHue, HasStatus, Split, Ring, Pwm, Addr, Legion
  <2>2. Shown(BatteryColour, accent)[1] = BatteryColour
    <3>1. TypeOK /\ accent \in Lights
      BY DEF IInv, TypeOK
    <3> QED
      BY <2>1, <3>1, ShownTyped DEF BatteryColours
  <2>3. accent' = accent \/ accent' = Shown(BatteryColour, accent)
    BY <2>1 DEF Show, Paint
  <2> QED
    BY <1>3, <2>2, <2>3 DEF ShowsPolicy
<1>4. EsPolicy' => EsPolicy
  BY <1>1 DEF EsPolicy, HasStatus
<1>5. AsksForHue({Pwm, Addr, Legion})' => AsksForHue({Pwm, Addr, Legion})
  BY <1>1 DEF AsksForHue
<1>6. device' = Split => status' = Shown(BatteryColour, Dark)'
  BY <1>1 DEF ShowsPolicy, Shown, Scaled, Applied, Capped, EsLight, Dark
<1> QED
  BY <1>2, <1>3, <1>4, <1>5, <1>6 DEF ShowsPolicy

LEMMA Stays == ASSUME IInv, Daemon, AtRest, ShowsPolicy PROVE AtRest' /\ ShowsPolicy'
<1>1. ~StartDaemon /\ ~PassDisabled /\ ~Initialise
  BY DEF AtRest, StartDaemon, PassDisabled, Initialise
<1>2. UNCHANGED <<user, mapOff, init, prev>> /\ pc' # "down"
  BY <1>1 DEF Daemon, Refresh, StatusLed, Gate, Clear, Show, Wake, AtRest
<1>3. AtRest'
  BY <1>2 DEF AtRest, user
<1>4. UNCHANGED <<BatteryColour, EsLight>>
  BY <1>2 DEF BatteryColour, Default, EsLight, Scaled, Applied, user
<1>5. CASE Refresh \/ Gate \/ Clear \/ Wake
  <2>1. UNCHANGED <<accent, status>>
    BY <1>5 DEF Refresh, Gate, Clear, Wake, AtRest
  <2>2. (EsPolicy' => EsPolicy) /\ UNCHANGED AsksForHue({Pwm, Addr, Legion})
    BY <1>2, <1>4 DEF EsPolicy, AsksForHue, HasStatus, user
  <2>3. UNCHANGED <<device, Shown(BatteryColour, Dark)>>
    BY <1>2, <1>4 DEF Shown, Scaled, Applied, user
  <2> QED
    BY <1>3, <1>4, <2>1, <2>2, <2>3 DEF ShowsPolicy
<1>6. CASE StatusLed
  <2>1. device \in {Split, Ring}
    BY <1>6 DEF StatusLed, IInv, PassKnown, HasStatus
  <2>2. ~AsksForHue({Pwm, Addr, Legion})'
    BY <1>2, <2>1 DEF AsksForHue, user, Split, Ring, Pwm, Addr, Legion
  <2>3. EsPolicy' => accent' = EsLight'
    BY <1>2, <1>4, <1>6, <2>1 DEF StatusLed, EsPolicy, HasStatus, ShowsPolicy, user
  <2>4. ASSUME device' = Split PROVE status' = Shown(BatteryColour, Dark)'
    <3>1. status' = Shown(BatteryColour, Dark)
      BY <1>2, <1>6, <2>4, StatusShown DEF StatusLed, IInv, user
    <3>2. UNCHANGED Shown(BatteryColour, Dark)
      BY <1>2, <1>4 DEF Shown, Scaled, Applied, user
    <3> QED
      BY <3>1, <3>2
  <2> QED
    BY <1>3, <2>2, <2>3, <2>4 DEF ShowsPolicy
<1>7. CASE Show
  BY <1>3, <1>4, <1>7, ShowStays
<1> QED
  BY <1>1, <1>3, <1>5, <1>6, <1>7 DEF Daemon

(* Enabled and with the sliders at rest, the daemon leaves lights that     *)
(* show what the policy says as they are, from every step of its pass      *)
(* (batocera-led-handheld.py 389-469).                                     *)
THEOREM ShownIsKept == Spec => ShownStays
<1>1. IInv => [Daemon /\ AtRest /\ ShowsPolicy => AtRest' /\ ShowsPolicy']_vars
  BY Stays
<1> QED
  BY <1>1, Invariance, PTL DEF ShownStays
=============================================================================
