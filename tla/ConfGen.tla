------------------------------- MODULE ConfGen -------------------------------
(***************************************************************************)
(* The configuration files of the emulators from launch to launch.  A      *)
(* generator reads the file an earlier launch left, applies its rules, the *)
(* user's own settings and the late rules to it in memory, and writes it   *)
(* back: open(path, "w") empties the file and the text follows, with no    *)
(* temporary file and nothing synced.  The emulator plays and may save     *)
(* what the user changed in its menus.                                     *)
(*                                                                         *)
(* What happens to one key does not depend on the others, so a behaviour   *)
(* follows one key of one file, any of them, through launches of any units *)
(* of that file.  A value is who wrote it and when: "fresh" is of this     *)
(* launch, "custom" of the user's settings for this launch, "stale" of an  *)
(* earlier launch, "user" of the emulator's menus.                         *)
(***************************************************************************)
EXTENDS ConfigRules, FiniteSets

CONSTANTS Table,   \* the units: name -> what ConfigRules!Unit builds
          MaxCuts  \* bound: power cuts

ASSUME CutsAssumption == MaxCuts \in Nat
ASSUME TableAssumption ==
    \A u \in DOMAIN Table :
       /\ Table[u].custom \in {"no", "yes", "masked"}
       /\ \A r \in Table[u].rules : r.how \in {Hows[i] : i \in DOMAIN Hows} \cup {"seed", "made"}

(***************************************************************************)
(* A key, as the machine knows it: the units of its file, each with how it *)
(* treats the file and the key.  Two keys treated alike are one.  Units    *)
(* that do not mention a key differ in how they treat the file at most:    *)
(* one stands for all that treat it alike.                                 *)
(***************************************************************************)
Users(table, f) == {u \in DOMAIN table : table[u].file = f}
Mentioned(t) == UNION {r.keys : r \in t.rules \cup t.late}
View(t, k) == [anew |-> t.anew, reader |-> t.reader, custom |-> t.custom,
                  rule |-> RuleFor(t.rules, k), late |-> RuleFor(t.late, k)]
Representatives(table, f, k) ==
    LET others == {u \in Users(table, f) : k \notin Mentioned(table[u])}
    IN  {u \in Users(table, f) :
            u \in others => u = CHOOSE v \in others : View(table[v], k) = View(table[u], k)}
KeysOf(table, f) ==
    {[u \in Representatives(table, f, k) |-> View(table[u], k)] :
        k \in UNION {Mentioned(table[u]) : u \in Users(table, f)}}
Keys == LET table == Table
        IN  UNION {KeysOf(table, f) : f \in {table[u].file : u \in DOMAIN table}}

VARIABLES
    units,      \* the key followed
    host,       \* whether the machine is one for which a "host" condition holds
    disk,       \* the file: "absent", "whole" or "torn"
    val,        \* the key's value in the file
    phase,      \* of the launch
    unit,       \* launched last
    holds,      \* whether the condition of the key's rule holds for this launch,
    lateHolds,  \* and of its late rule
    custom,     \* the user has a setting of his own for the key, for this launch: "none",
                \* "set", or "masked" when another option keeps it from the file
    mem,        \* the key's value in the generator's memory
    last,       \* how the last launch ended
    cuts

vars == <<units, host, disk, val, phase, unit, holds, lateHolds, custom, mem, last, cuts>>

Values == {"none", "user", "fresh", "custom", "stale"}
Phases == {"idle", "opening", "applying", "emptying", "writing", "playing"}
Endings == {"none", "played", "refused", "cut"}

U == units[unit]

Truths(rule) == IF rule.when = "host" THEN {host}
                ELSE IF rule.how \in {"when", "either", "goneWhen", "over"} THEN BOOLEAN
                ELSE {FALSE}

Mentions(u) == u.rule # Untouched \/ u.late # Untouched

\* Mutant: an option that is off leaves its key.
RuledKeeping(rule, cond, v) ==
    CASE rule.how = "always" -> "fresh"
      [] rule.how \in {"when", "either"} -> IF cond THEN "fresh" ELSE v
      [] rule.how = "gone" -> "none"
      [] rule.how = "goneWhen" -> IF cond THEN "none" ELSE v
      [] rule.how = "over" -> IF cond \/ v # "none" THEN "fresh" ELSE "none"
      [] OTHER -> v

\* What a rule makes of a value the file has, and of a key it lacks.
Ruled(rule, cond, v) ==
    CASE rule.how = "always" -> "fresh"
      [] rule.how = "when" -> IF cond THEN "fresh" ELSE v
      [] rule.how = "either" -> IF cond THEN "fresh" ELSE "none"
      [] rule.how = "gone" -> "none"
      [] rule.how = "goneWhen" -> IF cond THEN "none" ELSE v
      [] rule.how = "over" -> IF cond \/ v # "none" THEN "fresh" ELSE "none"
      [] OTHER -> v

Settled(rule, cond, v) ==
    Ruled(rule, cond, IF rule.seeded /\ v = "none" THEN "fresh" ELSE v)

\* A value written for a launch that is over.
Aged(v) == IF v \in {"fresh", "custom"} THEN "stale" ELSE v

Init == /\ units \in Keys
        /\ host \in BOOLEAN
        /\ disk = "absent" /\ val = "none"
        /\ phase = "idle" /\ unit = CHOOSE u \in DOMAIN units : TRUE
        /\ holds = FALSE /\ lateHolds = FALSE /\ custom = "none"
        /\ mem = "none" /\ last = "none" /\ cuts = 0

-----------------------------------------------------------------------------
(* The launch.                                                               *)

\* The game, the settings and the players it is launched with.
Launch(u) ==
    /\ phase = "idle"
    /\ unit' = u
    /\ holds' \in Truths(units[u].rule)
    /\ lateHolds' \in Truths(units[u].late)
    /\ custom' \in CASE units[u].custom = "no" -> {"none"}
                      [] units[u].custom = "yes" -> {"none", "set"}
                      [] units[u].custom = "masked" -> {"none", "set", "masked"}
    /\ phase' = "opening" /\ last' = "none"
    /\ UNCHANGED <<units, host, disk, val, mem, cuts>>

\* Mutant: an existing file is not read.
OpenEmpty == /\ phase = "opening"
             /\ mem' = IF U.rule.made THEN "fresh" ELSE "none"
             /\ phase' = "applying"
             /\ UNCHANGED <<units, host, disk, val, unit, holds, lateHolds, custom, last, cuts>>

\* What the generator starts from.  A torn file gives what is whole in it, or nothing.
Open == /\ phase = "opening"
        /\ mem' \in IF U.anew THEN {"none"}
                    ELSE CASE disk = "whole" -> {val}
                           [] disk = "torn" -> {val, "none"}
                           [] disk = "absent" ->
                                IF U.rule.made THEN {"fresh"} ELSE {"none"}
        /\ phase' = "applying"
        /\ UNCHANGED <<units, host, disk, val, unit, holds, lateHolds, custom, last, cuts>>

\* The launcher is gone, with what it knew of the launch.
Forget == holds' = FALSE /\ lateHolds' = FALSE /\ custom' = "none" /\ mem' = "none"

\* Mutant: what a tolerant reader catches is not caught.
RefuseAll == /\ phase = "opening"
             /\ disk = "torn" /\ ~U.anew
             /\ phase' = "idle" /\ last' = "refused"
             /\ val' = Aged(val) /\ Forget
             /\ UNCHANGED <<units, host, disk, unit, cuts>>

\* A strict reader raises on a line cut short, and with it the launch.
Refuse == /\ phase = "opening"
          /\ disk = "torn" /\ ~U.anew /\ U.reader = "strict"
          /\ phase' = "idle" /\ last' = "refused"
          /\ val' = Aged(val) /\ Forget
          /\ UNCHANGED <<units, host, disk, unit, cuts>>

\* Mutant: the rules come after the user's own settings.
ApplyCustomFirst ==
    /\ phase = "applying"
    /\ LET own == IF custom = "set" THEN "custom" ELSE mem
       IN  mem' = Settled(U.late, lateHolds, Settled(U.rule, holds, own))
    /\ holds' = FALSE /\ lateHolds' = FALSE
    /\ phase' = "emptying"
    /\ UNCHANGED <<units, host, disk, val, unit, custom, last, cuts>>

\* The rules, the user's own settings over them, the late rules over both.
Apply == /\ phase = "applying"
         /\ LET ruled == Settled(U.rule, holds, mem)
                own == IF custom = "set" THEN "custom" ELSE ruled
            IN  mem' = Settled(U.late, lateHolds, own)
         /\ holds' = FALSE /\ lateHolds' = FALSE
         /\ phase' = "emptying"
         /\ UNCHANGED <<units, host, disk, val, unit, custom, last, cuts>>

\* open(path, "w"): the file is there and empty.
Empty == /\ phase = "emptying"
         /\ disk' = "torn" /\ val' = "none"
         /\ phase' = "writing"
         /\ UNCHANGED <<units, host, unit, holds, lateHolds, custom, mem, last, cuts>>

\* The text follows, the file is closed and the emulator starts on it.
Write == /\ phase = "writing"
         /\ disk' = "whole" /\ val' = mem
         /\ phase' = "playing"
         /\ UNCHANGED <<units, host, unit, holds, lateHolds, custom, mem, last, cuts>>

-----------------------------------------------------------------------------
(* What surrounds it.                                                        *)

\* The user changes the setting in the emulator, which saves its file.
Edit == /\ phase = "playing"
        /\ val' = "user"
        /\ UNCHANGED <<units, host, disk, phase, unit, holds, lateHolds, custom, mem, last, cuts>>

Quit == /\ phase = "playing"
        /\ phase' = "idle" /\ last' = "played"
        /\ val' = Aged(val) /\ Forget
        /\ UNCHANGED <<units, host, disk, unit, cuts>>

\* The user deletes the file, or a generator that wants none: dolphin's of gamecube pads, cemu's
\* of the players' files.
Delete == /\ phase = "idle" /\ disk # "absent"
          /\ disk' = "absent" /\ val' = "none"
          /\ UNCHANGED <<units, host, phase, unit, holds, lateHolds, custom, mem, last, cuts>>

\* The power goes, or the launcher is killed.  Of a text being written any part may be there.
Cut == /\ phase # "idle" /\ cuts < MaxCuts
       /\ cuts' = cuts + 1
       /\ val' \in IF phase = "writing" THEN {"none", Aged(mem)} ELSE {Aged(val)}
       /\ phase' = "idle" /\ last' = "cut" /\ Forget
       /\ UNCHANGED <<units, host, disk, unit>>

Next == \/ \E u \in DOMAIN units : Launch(u)
        \/ Open \/ Refuse \/ Apply \/ Empty \/ Write
        \/ Edit \/ Quit \/ Delete \/ Cut

\* A generator that started runs to its end, unless it raises or is cut.
Spec == /\ Init /\ [][Next]_vars
        /\ WF_vars(Open \/ Refuse) /\ WF_vars(Apply) /\ WF_vars(Empty) /\ WF_vars(Write)

-----------------------------------------------------------------------------
(* What must hold.                                                           *)

\* The type invariant, with the first fact every other rests on: what is in the file while the
\* emulator plays was written whole by this launch or by the emulator.
TypeOK == /\ unit \in DOMAIN units
          /\ host \in BOOLEAN /\ holds \in BOOLEAN /\ lateHolds \in BOOLEAN
          /\ custom \in {"none", "set", "masked"}
          /\ disk \in {"absent", "whole", "torn"}
          /\ val \in Values /\ mem \in Values
          /\ phase \in Phases
          /\ last \in Endings
          /\ cuts \in 0 .. MaxCuts
          /\ disk = "absent" => val = "none"
          /\ phase = "playing" => disk = "whole"

\* The rules that leave nothing of an earlier launch behind: all but those of a condition, and of a
\* default, on a file that is kept.
Settles(u) == u.anew \/ u.rule.how \in {"always", "either", "gone", "over"}

\* No launch plays with a value an earlier launch chose, another game's or another core's, for a key
\* its generator always settles: through failed launches, cuts, deleted files and edits in between.
NoLeftover == phase = "playing" /\ Settles(U) => val # "stale"

\* What the user sets for a launch in batocera.conf is what the emulator plays with, until he changes
\* it there; only the late rules, those of guns, may come after it.
CustomWins == phase = "playing" /\ custom = "set" /\ U.late.how = "untouched"
                  => val \in {"custom", "user"}

(* Why: what each phase of the launch hands to the next.                    *)

\* The key is one of the table's.
Known == \A u \in DOMAIN units : units[u].custom \in {"no", "yes", "masked"}

\* Memory has what the file has, or nothing where the file is made anew.
Loaded == /\ phase = "applying" /\ U.anew => mem = "none"
          /\ phase = "applying" /\ ~U.anew /\ disk = "whole" => mem = val

\* The rules were applied: to a settled key, over the user's own settings, and to no other.
Applied == phase \in {"emptying", "writing"} =>
              /\ Settles(U) => mem # "stale"
              /\ custom = "set" /\ U.late.how = "untouched" => mem = "custom"
              /\ disk = "whole" /\ ~U.anew /\ ~Mentions(U) /\ custom = "none" => mem = val

Opened == phase = "writing" => disk = "torn"

IInv == TypeOK /\ Known /\ Loaded /\ Applied /\ Opened /\ NoLeftover /\ CustomWins

\* The same with guns, and whatever else is set: the comments say that the settings configure the
\* options directly.
CustomAlwaysWins == phase = "playing" /\ custom # "none" => val \in {"custom", "user"}

\* The value the next launch will find: the one in memory while the file is being written.
Content == IF phase = "writing" THEN mem ELSE val

\* A launch that does not mention a key and keeps the file does not lose what the user set in the
\* emulator's menus; only a cut in the middle of a write, what it left, or the user himself does.
UserKept ==
    [][Content = "user" /\ Content' # "user"
           => \/ Mentions(U) \/ custom # "none" \/ U.anew
              \/ disk = "torn" \/ phase = "idle"]_vars

\* A generator whose reader takes a torn file gets to play once it is started, whatever earlier
\* launches left, unless the power goes.
LaunchEnds == (phase = "opening" /\ (U.anew \/ U.reader = "tolerant"))
                  ~> (phase = "playing" \/ last = "cut")

\* Only a cut makes a launch fail: a file is cut short while it is being written, and whoever reads
\* one finds what a launch that was interrupted left (UnixSettings, 35-59).
TornByCut == disk = "torn" => phase = "writing" \/ cuts > 0
RefusedByCut == last = "refused" => cuts > 0

\* The same for every generator.
EveryLaunchEnds == phase = "opening" ~> (phase = "playing" \/ last = "cut")
=============================================================================
