---------------------------- MODULE ConfGenProofs ----------------------------
(***************************************************************************)
(* For any table of units, any of its keys and any number of cuts: a       *)
(* launch plays with no value an earlier one chose for a key it settles,   *)
(* with the user's own setting where there is one, and leaves what the     *)
(* user set in the emulator where it mentions nothing.                     *)
(***************************************************************************)
EXTENDS ConfGen, TLAPS

(* What the rules make of a value.                                         *)

LEMMA SettledTyped ==
  ASSUME NEW rule, NEW cond \in BOOLEAN, NEW v \in Values
  PROVE  Settled(rule, cond, v) \in Values
  BY DEF Settled, Ruled, Values

\* A rule makes nothing stale that was not.
LEMMA SettledFresh ==
  ASSUME NEW rule, NEW cond \in BOOLEAN, NEW v \in Values, v # "stale"
  PROVE  Settled(rule, cond, v) # "stale"
  BY DEF Settled, Ruled, Values

\* A rule that settles its key keeps nothing of what the file had.
LEMMA SettledAnew ==
  ASSUME NEW rule, NEW cond \in BOOLEAN, NEW v \in Values,
         rule.how \in {"always", "either", "gone", "over"}
  PROVE  Settled(rule, cond, v) # "stale"
  BY DEF Settled, Ruled, Values

\* A key no rule mentions keeps its value.
LEMMA SettledUntouched ==
  ASSUME NEW cond \in BOOLEAN, NEW v \in Values
  PROVE  Settled(Untouched, cond, v) = v
  BY DEF Settled, Ruled, Untouched

\* So does a key that has one, under rules that only seed it.
LEMMA SettledOwn ==
  ASSUME NEW rule, NEW cond \in BOOLEAN, NEW v \in Values,
         rule.how = "untouched", v # "none"
  PROVE  Settled(rule, cond, v) = v
  BY DEF Settled, Ruled

LEMMA AgedTyped == ASSUME NEW v \in Values PROVE Aged(v) \in Values
  BY DEF Aged, Values

LEMMA AgedUser == ASSUME NEW v \in Values PROVE v = "user" <=> Aged(v) = "user"
  BY DEF Aged, Values

-----------------------------------------------------------------------------
(* The keys of the table.                                                  *)

\* A key is of one file; a unit that mentions it is among its units.
LEMMA KeysKnown ==
  ASSUME NEW key \in Keys
  PROVE  /\ DOMAIN key # {}
         /\ \A u \in DOMAIN key : key[u].custom \in {"no", "yes", "masked"}
<1>1. PICK file : key \in KeysOf(Table, file)
  BY DEF Keys
<1>2. PICK k \in UNION {Mentioned(Table[u]) : u \in Users(Table, file)} :
        key = [u \in Representatives(Table, file, k) |-> View(Table[u], k)]
  BY <1>1 DEF KeysOf
<1>3. PICK u \in Users(Table, file) : k \in Mentioned(Table[u])
  BY <1>2
<1>4. u \in Representatives(Table, file, k)
  BY <1>3 DEF Representatives
<1>5. \A v \in Representatives(Table, file, k) : View(Table[v], k).custom \in {"no", "yes", "masked"}
  BY TableAssumption DEF Representatives, Users, View
<1> QED
  BY <1>2, <1>4, <1>5

LEMMA InitIInv == Init => IInv
<1> SUFFICES ASSUME Init PROVE IInv
  OBVIOUS
<1>1. DOMAIN units # {} /\ Known
  BY KeysKnown DEF Init, Known
<1>2. unit \in DOMAIN units
  BY <1>1 DEF Init
<1>3. val \in Values /\ mem \in Values /\ cuts \in 0 .. MaxCuts
  BY CutsAssumption DEF Init, Values
<1>4. TypeOK
  BY <1>2, <1>3 DEF Init, TypeOK, Phases, Endings
<1> QED
  BY <1>1, <1>4 DEF Init, IInv, Loaded, Applied, Opened, NoLeftover, CustomWins

-----------------------------------------------------------------------------
(* Steps.  A launch that ends, or has yet to apply its rules, is not one   *)
(* the parts on its results speak of.                                      *)

LEMMA StepLaunch == ASSUME IInv, NEW u \in DOMAIN units, Launch(u) PROVE IInv'
<1>1. lateHolds' \in BOOLEAN /\ holds' \in BOOLEAN
  BY DEF Launch, Truths, IInv, TypeOK
<1>2. custom' \in {"none", "set", "masked"}
  BY DEF Launch, IInv, Known
<1>3. TypeOK'
  BY <1>1, <1>2 DEF Launch, IInv, TypeOK, Phases, Endings
<1> QED
  BY <1>3 DEF Launch, IInv, Known, Loaded, Applied, Opened, NoLeftover, CustomWins

LEMMA StepOpen == ASSUME IInv, Open PROVE IInv'
<1>1. mem' \in Values
  BY DEF Open, IInv, TypeOK, Values
<1>2. TypeOK'
  BY <1>1 DEF Open, IInv, TypeOK, Phases
<1>3. Loaded'
  BY DEF Open, IInv, TypeOK, Loaded, U
<1> QED
  BY <1>2, <1>3 DEF Open, IInv, Known, Applied, Opened, NoLeftover, CustomWins

LEMMA StepEnd ==
  ASSUME IInv, UNCHANGED <<units, host, unit>>, Forget, phase' = "idle", last' \in Endings,
         disk' \in {"absent", "whole", "torn"}, val' \in Values, cuts' \in 0 .. MaxCuts,
         disk' = "absent" => val' = "none"
  PROVE  IInv'
<1>1. TypeOK'
  BY DEF Forget, IInv, TypeOK, Phases, Values
<1> QED
  BY <1>1 DEF Forget, IInv, Known, Loaded, Applied, Opened, NoLeftover, CustomWins

LEMMA StepRefuse == ASSUME IInv, Refuse PROVE IInv'
<1>1. val' \in Values
  BY AgedTyped DEF Refuse, IInv, TypeOK
<1> QED
  BY <1>1, StepEnd DEF Refuse, IInv, TypeOK, Endings

LEMMA StepQuit == ASSUME IInv, Quit PROVE IInv'
<1>1. val' \in Values
  BY AgedTyped DEF Quit, IInv, TypeOK
<1> QED
  BY <1>1, StepEnd DEF Quit, IInv, TypeOK, Endings

LEMMA StepCut == ASSUME IInv, Cut PROVE IInv'
<1>1. val' \in Values
  BY AgedTyped DEF Cut, IInv, TypeOK, Values
<1>2. cuts' \in 0 .. MaxCuts
  BY CutsAssumption DEF Cut, IInv, TypeOK
<1>3. disk = "absent" => val' = "none"
  BY DEF Cut, IInv, TypeOK, Opened, Aged
<1> QED
  BY <1>1, <1>2, <1>3, StepEnd DEF Cut, IInv, TypeOK, Endings

LEMMA StepApply == ASSUME IInv, Apply PROVE IInv'
<1> DEFINE ruled == Settled(U.rule, holds, mem)
           own == IF custom = "set" THEN "custom" ELSE ruled
<1>1. mem' = Settled(U.late, lateHolds, own)
  BY DEF Apply
<1>2. ruled \in Values /\ own \in Values
  BY SettledTyped DEF IInv, TypeOK, Values
<1>3. mem' \in Values
  BY <1>1, <1>2, SettledTyped DEF IInv, TypeOK
<1>4. TypeOK'
  BY <1>3 DEF Apply, IInv, TypeOK, Phases
<1>5. Settles(U) => ruled # "stale"
  <2>1. ASSUME U.anew PROVE ruled # "stale"
    <3>1. mem = "none" /\ mem \in Values /\ holds \in BOOLEAN
      BY <2>1 DEF Apply, IInv, TypeOK, Loaded
    <3> QED
      BY <3>1, SettledFresh
  <2>2. ASSUME U.rule.how \in {"always", "either", "gone", "over"} PROVE ruled # "stale"
    BY <2>2, SettledAnew DEF IInv, TypeOK
  <2> QED
    BY <2>1, <2>2 DEF Settles
<1>6. Settles(U) => mem' # "stale"
  <2>1. Settles(U) => own # "stale"
    BY <1>5
  <2> QED
    BY <2>1, <1>1, <1>2, SettledFresh DEF IInv, TypeOK
<1>7. custom = "set" /\ U.late.how = "untouched" => mem' = "custom"
  BY <1>1, <1>2, SettledOwn DEF IInv, TypeOK
<1>8. ~Mentions(U) /\ custom = "none" => mem' = mem
  <2>1. ASSUME ~Mentions(U), custom = "none" PROVE mem' = mem
    <3>1. U.rule = Untouched /\ U.late = Untouched
      BY <2>1 DEF Mentions
    <3>2. ruled = mem
      BY <3>1, SettledUntouched DEF IInv, TypeOK
    <3>3. own = mem
      BY <2>1, <3>2
    <3> HIDE DEF own
    <3> QED
      BY <1>1, <1>2, <3>1, <3>3, SettledUntouched DEF IInv, TypeOK
  <2> QED
    BY <2>1
<1>9. Applied'
  BY <1>6, <1>7, <1>8 DEF Apply, IInv, Loaded, Applied, U, Settles, Mentions
<1> QED
  BY <1>4, <1>9 DEF Apply, IInv, Known, Loaded, Opened, NoLeftover, CustomWins

LEMMA StepEmpty == ASSUME IInv, Empty PROVE IInv'
<1>1. TypeOK'
  BY DEF Empty, IInv, TypeOK, Phases, Values
<1>2. Applied'
  BY DEF Empty, IInv, Applied, U, Settles
<1> QED
  BY <1>1, <1>2 DEF Empty, IInv, Known, Loaded, Opened, NoLeftover, CustomWins

LEMMA StepWrite == ASSUME IInv, Write PROVE IInv'
<1>1. TypeOK'
  BY DEF Write, IInv, TypeOK, Phases
<1>2. NoLeftover' /\ CustomWins'
  BY DEF Write, IInv, Applied, NoLeftover, CustomWins, U, Settles
<1> QED
  BY <1>1, <1>2 DEF Write, IInv, Known, Loaded, Applied, Opened

LEMMA StepEdit == ASSUME IInv, Edit PROVE IInv'
<1>1. TypeOK'
  BY DEF Edit, IInv, TypeOK, Values
<1> QED
  BY <1>1 DEF Edit, IInv, Known, Loaded, Applied, Opened, NoLeftover, CustomWins

LEMMA StepDelete == ASSUME IInv, Delete PROVE IInv'
<1>1. TypeOK'
  BY DEF Delete, IInv, TypeOK, Values
<1> QED
  BY <1>1 DEF Delete, IInv, Known, Loaded, Applied, Opened, NoLeftover, CustomWins

LEMMA Step == IInv /\ [Next]_vars => IInv'
<1> SUFFICES ASSUME IInv, [Next]_vars PROVE IInv'
  OBVIOUS
<1>1. CASE \E u \in DOMAIN units : Launch(u)
  BY <1>1, StepLaunch
<1>2. CASE Open
  BY <1>2, StepOpen
<1>3. CASE Refuse
  BY <1>3, StepRefuse
<1>4. CASE Apply
  BY <1>4, StepApply
<1>5. CASE Empty
  BY <1>5, StepEmpty
<1>6. CASE Write
  BY <1>6, StepWrite
<1>7. CASE Edit
  BY <1>7, StepEdit
<1>8. CASE Quit
  BY <1>8, StepQuit
<1>9. CASE Delete
  BY <1>9, StepDelete
<1>10. CASE Cut
  BY <1>10, StepCut
<1>11. CASE UNCHANGED vars
  BY <1>11 DEF vars, IInv, TypeOK, Known, Loaded, Applied, Opened, NoLeftover, CustomWins, U,
               Settles, Mentions
<1> QED
  BY <1>1, <1>2, <1>3, <1>4, <1>5, <1>6, <1>7, <1>8, <1>9, <1>10, <1>11 DEF Next

-----------------------------------------------------------------------------
(* The results.                                                            *)

\* What each phase of a launch hands to the next, for every key of every table.
THEOREM Invariance == Spec => []IInv
<1>1. Init /\ [][Next]_vars => []IInv
  BY InitIInv, Step, PTL
<1> QED
  BY <1>1, PTL DEF Spec

\* No launch plays with an earlier launch's choice for a key its generator settles.
THEOREM Settling == Spec => []NoLeftover
<1>1. IInv => NoLeftover
  BY DEF IInv
<1> QED
  BY <1>1, Invariance, PTL

\* The user's own setting is what the emulator plays with, but for the late rules.
THEOREM Customs == Spec => []CustomWins
<1>1. IInv => CustomWins
  BY DEF IInv
<1> QED
  BY <1>1, Invariance, PTL

\* A step that loses what the user set in the emulator is of a launch that mentions it, or of one
\* that a cut has spoiled.
LEMMA StepKept ==
  ASSUME IInv, Next, Content = "user", Content' # "user"
  PROVE  \/ Mentions(U) \/ custom # "none" \/ U.anew
         \/ disk = "torn" \/ phase = "idle"
<1> SUFFICES ASSUME ~Mentions(U), custom = "none", ~U.anew, disk # "torn", phase # "idle"
             PROVE  FALSE
  OBVIOUS
<1>1. phase # "writing" /\ val = "user"
  BY DEF IInv, Opened, Content
<1>2. disk = "whole"
  BY <1>1 DEF IInv, TypeOK
<1>3. CASE Open \/ Apply
  BY <1>1, <1>3 DEF Open, Apply, Content
<1>4. CASE Empty
  <2>1. mem = "user"
    BY <1>1, <1>2, <1>4 DEF Empty, IInv, Applied
  <2> QED
    BY <2>1, <1>4 DEF Empty, Content
<1>5. CASE Refuse \/ Quit
  BY <1>1, <1>5 DEF Refuse, Quit, Content, Aged
<1>6. CASE Cut
  BY <1>1, <1>6 DEF Cut, Content, Aged
<1>7. CASE Edit
  BY <1>1, <1>7 DEF Edit, Content
<1> QED
  BY <1>1, <1>3, <1>4, <1>5, <1>6, <1>7 DEF Next, Launch, Write, Delete

\* What the user set in the emulator survives the launches that do not mention it.
THEOREM Keeping == Spec => UserKept
<1>1. IInv /\ [Next]_vars
        => [Content = "user" /\ Content' # "user"
              => \/ Mentions(U) \/ custom # "none" \/ U.anew
                 \/ disk = "torn" \/ phase = "idle"]_vars
  BY StepKept
<1> QED
  BY <1>1, Invariance, PTL DEF Spec, UserKept


\* A file is torn only while it is written, or since a cut; only such a file is refused.
LEMMA StepTorn ==
  ASSUME IInv, TornByCut, RefusedByCut, [Next]_vars
  PROVE  TornByCut' /\ RefusedByCut'
<1>1. cuts \in Nat
  BY CutsAssumption DEF IInv, TypeOK
<1>2. CASE Empty \/ Write \/ Delete
  BY <1>2 DEF Empty, Write, Delete, TornByCut, RefusedByCut
<1>3. CASE Cut
  BY <1>1, <1>3 DEF Cut, TornByCut, RefusedByCut
<1>4. CASE Refuse
  BY <1>4 DEF Refuse, TornByCut, RefusedByCut
<1>5. CASE Open \/ Apply \/ Edit \/ Quit
  BY <1>5 DEF Open, Apply, Edit, Quit, TornByCut, RefusedByCut
<1>6. ASSUME NEW u \in DOMAIN units, Launch(u) PROVE TornByCut' /\ RefusedByCut'
  BY <1>6 DEF Launch, TornByCut, RefusedByCut
<1>7. CASE UNCHANGED vars
  BY <1>7 DEF vars, TornByCut, RefusedByCut
<1> QED
  BY <1>2, <1>3, <1>4, <1>5, <1>6, <1>7 DEF Next

\* Whatever the generators and their readers, a launch fails on its configuration file only after a
\* cut: launches and deleted files leave none that is cut short, if emulators save theirs whole.
THEOREM Failing == Spec => []RefusedByCut
<1>1. Init => TornByCut /\ RefusedByCut
  BY DEF Init, TornByCut, RefusedByCut
<1>2. IInv /\ TornByCut /\ RefusedByCut /\ [Next]_vars => TornByCut' /\ RefusedByCut'
  BY StepTorn
<1> QED
  BY <1>1, <1>2, Invariance, PTL DEF Spec

-----------------------------------------------------------------------------
(* The table.  Of the rules about a key the strongest is followed, and a   *)
(* unit left out of a key has one among those kept that does the same.     *)

LEMMA Strengths ==
  /\ Strength("always") = 1 /\ Strength("either") = 2 /\ Strength("gone") = 3
  /\ Strength("when") = 4 /\ Strength("goneWhen") = 5 /\ Strength("over") = 6
  /\ Strength("untouched") = 7
<1>1. DOMAIN Hows = 1 .. 7
  BY DEF Hows
<1>2. /\ Hows[1] = "always" /\ Hows[2] = "either" /\ Hows[3] = "gone"
      /\ Hows[4] = "when" /\ Hows[5] = "goneWhen" /\ Hows[6] = "over"
      /\ Hows[7] = "untouched"
  BY DEF Hows
<1>3. \A i \in 1 .. 7 : i \in {1, 2, 3, 4, 5, 6, 7}
  OBVIOUS
<1>4. ASSUME NEW n \in 1 .. 7 PROVE Strength(Hows[n]) = n
  <2>1. \A i \in DOMAIN Hows : Hows[i] = Hows[n] <=> i = n
    BY <1>1, <1>2, <1>3
  <2> QED
    BY <1>1, <2>1 DEF Strength
<1> QED
  BY <1>2, <1>4

\* The rule that is followed is as strong as any that settles the key.
LEMMA Strongest ==
  ASSUME NEW rules, NEW key, NEW r \in rules, key \in r.keys,
         \A s \in rules : s.how \in {Hows[i] : i \in DOMAIN Hows} \cup {"seed", "made"},
         r.how \notin {"seed", "made"}
  PROVE  \E s \in rules :
           /\ key \in s.keys /\ s.how \in {Hows[i] : i \in DOMAIN Hows}
           /\ RuleFor(rules, key).how = s.how /\ RuleFor(rules, key).when = s.when
           /\ Strength(s.how) <= Strength(r.how)
<1> DEFINE settling == {s \in {t \in rules : key \in t.keys} : s.how \notin {"seed", "made"}}
           P(s) == \A t \in settling : Strength(s.how) <= Strength(t.how)
           first == CHOOSE s \in settling : P(s)
<1>1. {Hows[i] : i \in DOMAIN Hows}
        = {"always", "either", "gone", "when", "goneWhen", "over", "untouched"}
  BY DEF Hows
<1>2. \A s \in settling : s.how \in {Hows[i] : i \in DOMAIN Hows}
  OBVIOUS
<1>3. \A s \in settling : Strength(s.how) \in 1 .. 7
  BY <1>1, <1>2, Strengths
<1>4. \E s \in settling : P(s)
  <2> DEFINE At(n) == \E s \in settling : Strength(s.how) = n
  <2>1. \E n \in 1 .. 7 : At(n) /\ \A i \in 1 .. 7 : At(i) => n <= i
    <3>1. \E n \in 1 .. 7 : At(n)
      BY <1>3
    <3> HIDE DEF At, settling
    <3> QED
      BY <3>1
  <2>2. PICK n \in 1 .. 7, s \in settling :
          Strength(s.how) = n /\ \A i \in 1 .. 7 : At(i) => n <= i
    BY <2>1
  <2>3. \A t \in settling : At(Strength(t.how))
    OBVIOUS
  <2> HIDE DEF At, settling
  <2> QED
    BY <1>3, <2>2, <2>3
<1>5. first \in settling /\ P(first)
  <2> HIDE DEF P, settling
  <2> QED
    BY <1>4
<1>6. RuleFor(rules, key).how = first.how /\ RuleFor(rules, key).when = first.when
  BY <1>5 DEF RuleFor
<1>7. r \in settling
  OBVIOUS
<1> HIDE DEF first
<1> QED
  BY <1>2, <1>5, <1>6, <1>7

LEMMA RulesSettle ==
  ASSUME NEW u \in DOMAIN Table, NEW k, NEW r \in Table[u].rules, k \in r.keys,
         r.how \in {"always", "either", "gone"}
  PROVE  Settles(View(Table[u], k))
<1>1. \A s \in Table[u].rules : s.how \in {Hows[i] : i \in DOMAIN Hows} \cup {"seed", "made"}
  BY TableAssumption
<1>2. PICK s \in Table[u].rules :
        /\ s.how \in {Hows[i] : i \in DOMAIN Hows}
        /\ RuleFor(Table[u].rules, k).how = s.how
        /\ Strength(s.how) <= Strength(r.how)
  BY <1>1, Strongest
<1>3. s.how \in {"always", "either", "gone", "when", "goneWhen", "over", "untouched"}
  BY <1>2 DEF Hows
<1>4. s.how \in {"always", "either", "gone"}
  BY <1>2, <1>3, Strengths
<1> QED
  BY <1>2, <1>4 DEF Settles, View

\* A key for which a generator has a rule that always decides it (libretroConfig.py, and the tables
\* of the other generators) is never of an earlier launch when the emulator plays, whatever other
\* rules of that generator, and of others that share the file, say about it.
THEOREM TableSettles ==
  ASSUME NEW u \in DOMAIN Table, NEW k, NEW r \in Table[u].rules, k \in r.keys,
         r.how \in {"always", "either", "gone"}
  PROVE  Spec => [](phase = "playing" /\ U = View(Table[u], k) => val # "stale")
<1>1. Settles(View(Table[u], k))
  BY RulesSettle
<1>2. NoLeftover => (phase = "playing" /\ U = View(Table[u], k) => val # "stale")
  BY <1>1 DEF NoLeftover
<1> QED
  BY <1>2, Settling, PTL

\* Keys that are treated alike are followed as one, and units too: of every unit of the table and
\* every key of its file some behaviour follows what that unit does to that key.
THEOREM Followed ==
  ASSUME NEW u \in DOMAIN Table,
         NEW k \in UNION {Mentioned(Table[v]) : v \in Users(Table, Table[u].file)}
  PROVE  \E key \in Keys : \E v \in DOMAIN key : key[v] = View(Table[u], k)
<1> DEFINE f == Table[u].file
           R == Representatives(Table, f, k)
           key == [v \in R |-> View(Table[v], k)]
           others == {v \in Users(Table, f) : k \notin Mentioned(Table[v])}
           same == CHOOSE v \in others : View(Table[v], k) = View(Table[u], k)
<1>1. key \in Keys
  <2>1. key \in KeysOf(Table, f)
    BY DEF KeysOf
  <2>2. f \in {Table[v].file : v \in DOMAIN Table}
    OBVIOUS
  <2> QED
    BY <2>1, <2>2 DEF Keys
<1>2. u \in Users(Table, f)
  BY DEF Users
<1>3. \E v \in R : View(Table[v], k) = View(Table[u], k)
  <2>1. CASE u \notin others
    BY <1>2, <2>1 DEF Representatives
  <2>2. CASE u \in others
    <3>1. same \in others /\ View(Table[same], k) = View(Table[u], k)
      BY <2>2
    <3>2. same = CHOOSE v \in others : View(Table[v], k) = View(Table[same], k)
      BY <3>1
    <3>3. same \in R
      BY <3>1, <3>2 DEF Representatives
    <3> QED
      BY <3>1, <3>3
  <2> QED
    BY <2>1, <2>2
<1> HIDE DEF R
<1> QED
  BY <1>1, <1>3
==============================================================================
