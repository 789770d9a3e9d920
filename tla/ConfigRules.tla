----------------------------- MODULE ConfigRules -----------------------------
(***************************************************************************)
(* What a generator of the launcher does to one configuration file, as a   *)
(* set of rules over the file's keys.  A rule says how the launch treats   *)
(* its keys and, where that depends on something, on what: "game" (the     *)
(* system, the core or the game launched), "option" (a setting, which may  *)
(* be there for one game and not for the next), "players" (the pads, guns  *)
(* and wheels connected) or "host" (the machine, the same at every         *)
(* launch).  The tables of rules are the modules that extend this one.     *)
(***************************************************************************)
EXTENDS Integers, Sequences, TLC

Kinds == {"launch", "game", "option", "players", "host"}

\* How a launch treats a key, from what settles it most to what does least.
Hows == <<"always", "either", "gone", "when", "goneWhen", "over", "untouched">>

\* Written at every launch.
Always(K) == [how |-> "always", when |-> "launch", keys |-> K]

\* Written when the condition holds, left as it is otherwise.
When(kind, K) == [how |-> "when", when |-> kind, keys |-> K]

\* Written when a condition holds, removed otherwise.
Either(K) == [how |-> "either", when |-> "option", keys |-> K]

\* Written where the file has the section: always over a value it has.
Over(K) == [how |-> "over", when |-> "option", keys |-> K]

\* Written only where the file does not have it.
Seed(K) == [how |-> "seed", when |-> "launch", keys |-> K]

\* Written when the file itself is made because there was none.
Made(K) == [how |-> "made", when |-> "launch", keys |-> K]

\* Removed at every launch.
Gone(K) == [how |-> "gone", when |-> "launch", keys |-> K]

\* Removed when the condition holds, left as it is otherwise.
RemovedWhen(kind, K) == [how |-> "goneWhen", when |-> kind, keys |-> K]

\* The keys of a section of a file that has sections.
In(section, K) == {section} \X K

\* The same rules for several cores.
For(cores, rules) == [c \in cores |-> rules]

(***************************************************************************)
(* A unit: one file as one generator treats it.  "anew": the file is made  *)
(* from nothing at every launch.  Otherwise it is read first, by a reader  *)
(* that is "strict" (a torn file raises and the launch fails) or           *)
(* "tolerant" (what cannot be read is taken as empty).  "custom": settings *)
(* of the user whose names start with a prefix are written after the       *)
(* rules, over them ("masked": only while another option lets them);       *)
(* "late": what the launch writes after even those.                        *)
(***************************************************************************)
Unit(file, anew, reader, rules) ==
    [file |-> file, anew |-> anew, reader |-> reader, custom |-> "no", rules |-> rules,
     late |-> {}]

Anew(file, rules) == Unit(file, TRUE, "tolerant", rules)
Strict(file, rules) == Unit(file, FALSE, "strict", rules)
Tolerant(file, rules) == Unit(file, FALSE, "tolerant", rules)

\* The same, for a unit whose rules the user's own settings come after.
Custom(unit) == [unit EXCEPT !.custom = "yes"]
Masked(unit) == [unit EXCEPT !.custom = "masked"]

\* The same, for a unit with rules that come after the user's own settings.
Late(unit, rules) == [unit EXCEPT !.late = rules]

(***************************************************************************)
(* How a set of rules treats a key: of several rules about it, the one     *)
(* that settles it most, and whether a default is put where the key is     *)
(* lacking ("seeded") or where the whole file is ("made").                 *)
(***************************************************************************)
Untouched == [how |-> "untouched", when |-> "launch", seeded |-> FALSE, made |-> FALSE]
Strength(how) == CHOOSE i \in DOMAIN Hows : Hows[i] = how
RuleFor(rules, key) ==
    LET about == {r \in rules : key \in r.keys}
        settling == {r \in about : r.how \notin {"seed", "made"}}
        first == CHOOSE r \in settling : \A s \in settling : Strength(r.how) <= Strength(s.how)
    IN  [how |-> IF settling = {} THEN "untouched" ELSE first.how,
         when |-> IF settling = {} THEN "launch" ELSE first.when,
         seeded |-> \E r \in about : r.how = "seed",
         made |-> \E r \in about : r.how = "made"]
==============================================================================
