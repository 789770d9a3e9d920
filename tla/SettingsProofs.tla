--------------------------- MODULE SettingsProofs ---------------------------
(***************************************************************************)
(* Proofs about SettingsStore: for any keys, values and number of writers  *)
(* the lock excludes, what a writer replaces the file by was made from     *)
(* what the file still holds, and the file therefore is an AtomicStore.    *)
(* Then about Services, which use it, for any services, users and values:  *)
(* whatever interleaves, the lists are good; commands one at a time do     *)
(* what they say; the user's script is started.  What the first part says  *)
(* does not rest on ServicesAssumption.  What do_disable computes is       *)
(* proved by induction over its loop: a set of numbers with 0 and          *)
(* successors is all of them.                                              *)
(***************************************************************************)
EXTENDS Services, SequenceTheorems, FiniteSetTheorems, WellFoundedInduction, TLAPS

LEMMA WrittenTyped ==
  ASSUME NEW f \in File, NEW set \in Assignment
  PROVE  Written(f, set) \in Settings \cup {Garbage}
<1>1. PICK K \in (SUBSET Key) \ {{}} : set \in [K -> Value]
  BY DEF Assignment
<1>2. CASE f = Garbage
  BY <1>2 DEF Written
<1>3. CASE f # Garbage
  <2> DEFINE old == IF f = None THEN Blank ELSE f
  <2>1. old \in Settings
    BY <1>3 DEF File, Settings, Blank
  <2>2. [k \in Key |-> IF k \in DOMAIN set THEN set[k] ELSE old[k]] \in Settings
    BY <1>1, <2>1 DEF Settings
  <2> QED
    BY <1>3, <2>2 DEF Written
<1> QED
  BY <1>2, <1>3

LEMMA BlankTyped == Blank \in Settings
  BY DEF Blank, Settings

LEMMA InitIInv == Init => IInv
<1> SUFFICES ASSUME Init PROVE IInv
  OBVIOUS
<1>1. TypeOK
  BY BlankTyped DEF Init, TypeOK, File
<1>2. conf \in durable /\ LockExcludes /\ ReadIsFresh
  BY NamesAssumption DEF Init, NamesAssumption, LockExcludes, Locked, ReadIsFresh
<1> QED
  BY <1>1, <1>2 DEF IInv

-----------------------------------------------------------------------------
(* Each action preserves the invariant.                                    *)

LEMMA StartStep ==
  ASSUME IInv, NEW w \in Writer, Start(w) PROVE IInv'
<1> USE DEF IInv, Start, Begin, At, Go, store
<1>1. TypeOK'
  BY DEF TypeOK
<1>2. LockExcludes'
  BY DEF TypeOK, LockExcludes, Locked
<1>3. ReadIsFresh'
  <2>1. PICK r \in Request : ask' = [ask EXCEPT ![w] = r]
    BY DEF Start
  <2>2. r # None
    BY RequestAssumption DEF Request, RequestAssumption
  <2> QED
    BY <2>1, <2>2 DEF TypeOK, ReadIsFresh
<1> QED
  BY <1>1, <1>2, <1>3

LEMMA ExitStep ==
  ASSUME IInv, NEW w \in Writer, Exit(w), UNCHANGED store PROVE IInv'
<1> USE DEF IInv, Exit, Go, store
<1>1. TypeOK'
  BY DEF TypeOK, File
<1>2. LockExcludes'
  BY NamesAssumption DEF NamesAssumption, TypeOK, LockExcludes, Locked
<1>3. ReadIsFresh'
  BY DEF TypeOK, ReadIsFresh
<1> QED
  BY <1>1, <1>2, <1>3

LEMMA PrepareStep ==
  ASSUME IInv, NEW w \in Writer,
         LockConfig(w) \/ ReadConfig(w) \/ MakeTemp(w) \/ WriteTemp(w)
  PROVE  IInv'
<1> USE DEF IInv, At, Go, store
<1>1. CASE LockConfig(w)
  BY <1>1, NamesAssumption
  DEF NamesAssumption, LockConfig, TypeOK, LockExcludes, Locked, ReadIsFresh
<1>2. CASE ReadConfig(w)
  BY <1>2 DEF ReadConfig, TypeOK, LockExcludes, Locked, ReadIsFresh
<1>3. CASE MakeTemp(w)
  BY <1>3 DEF MakeTemp, TypeOK, File, LockExcludes, Locked, ReadIsFresh
<1>4. CASE WriteTemp(w)
  <2>1. ask[w] \in Request /\ read[w] \in File
    BY <1>4 DEF WriteTemp, TypeOK, ReadIsFresh
  <2>2. Written(read[w], ask[w].set) \in File
    BY <2>1, WrittenTyped DEF Request, File
  <2>3. TypeOK'
    BY <1>4, <2>2 DEF WriteTemp, TypeOK
  <2>4. LockExcludes'
    BY <1>4 DEF WriteTemp, TypeOK, LockExcludes, Locked
  <2>5. ReadIsFresh'
    BY <1>4 DEF WriteTemp, TypeOK, ReadIsFresh
  <2> QED
    BY <1>4, <2>3, <2>4, <2>5 DEF WriteTemp
<1> QED
  BY <1>1, <1>2, <1>3, <1>4

(* The writer that renames is the only one past the lock, so what it       *)
(* replaces is nobody else's snapshot.                                     *)
LEMMA RenameStep ==
  ASSUME IInv, NEW w \in Writer, Rename(w) PROVE IInv'
<1> USE DEF IInv, Rename, At, Go
<1>1. \A v \in Writer \ {w} : pc[v] \notin Locked
  BY DEF LockExcludes, Locked
<1>2. ask[w] \in Request
  BY DEF TypeOK, ReadIsFresh
<1>3. DOMAIN ask[w].set \subseteq Key
  BY <1>2 DEF Request, Assignment
<1>4. TypeOK'
  BY <1>3 DEF TypeOK, File
<1>5. LockExcludes'
  BY DEF TypeOK, LockExcludes, Locked
<1>6. ReadIsFresh'
  BY <1>1 DEF TypeOK, ReadIsFresh, Locked
<1> QED
  BY <1>4, <1>5, <1>6

LEMMA SyncStep ==
  ASSUME IInv, NEW w \in Writer, SyncParent(w) PROVE IInv'
<1> USE DEF IInv, SyncParent, At, Go, Flushed, store
<1>1. TypeOK'
  BY DEF TypeOK
<1>2. LockExcludes'
  BY DEF TypeOK, LockExcludes, Locked
<1>3. ReadIsFresh'
  BY DEF TypeOK, ReadIsFresh
<1> QED
  BY <1>1, <1>2, <1>3

LEMMA CutStep ==
  ASSUME IInv, PowerLoss PROVE IInv'
<1> USE DEF IInv, PowerLoss
<1>1. TypeOK'
  BY DEF TypeOK, File
<1>2. LockExcludes' /\ ReadIsFresh'
  BY NamesAssumption DEF NamesAssumption, LockExcludes, Locked, ReadIsFresh
<1> QED
  BY <1>1, <1>2

LEMMA NextStep ==
  ASSUME IInv, [Next]_vars PROVE IInv'
<1>1. ASSUME NEW w \in Writer, WriteStep(w) PROVE IInv'
  BY <1>1, PrepareStep, RenameStep, SyncStep, ExitStep
  DEF WriteStep, Progress, Reject, Unlock, Fail
<1>2. ASSUME NEW w \in Writer, Kill(w) PROVE IInv'
  BY <1>2, ExitStep DEF Kill
<1>3. CASE Writeback
  BY <1>3 DEF Writeback, Flushed, IInv, TypeOK, LockExcludes, ReadIsFresh
<1>4. CASE UNCHANGED vars
  BY <1>4 DEF vars, store, IInv, TypeOK, LockExcludes, ReadIsFresh
<1> QED
  BY <1>1, <1>2, <1>3, <1>4, StartStep, CutStep DEF Next

(* For every set of writers the lock excludes and no snapshot is stale     *)
(* (SettingsStore.IInv).                                                   *)
THEOREM Invariance == Spec => []IInv
  BY InitIInv, NextStep, PTL DEF Spec

-----------------------------------------------------------------------------
(* The file is an AtomicStore: a rename applies its request to what the    *)
(* file holds, a cut leaves a state it was in.                             *)

LEMMA StoreStep ==
  ASSUME IInv, [Next]_vars PROVE [Store!Next]_<<conf, durable>>
<1>1. ASSUME NEW w \in Writer, Rename(w) PROVE Store!Write
  <2>1. ask[w] \in Request /\ conf' = Written(conf, ask[w].set)
    BY <1>1 DEF Rename, At, IInv, ReadIsFresh, TypeOK
  <2> QED
    BY <1>1, <2>1 DEF Rename, Request, Store!Write
<1>2. ASSUME NEW w \in Writer, SyncParent(w)
      PROVE Store!Sync \/ UNCHANGED <<conf, durable>>
  BY <1>2 DEF SyncParent, Flushed, store, Store!Sync
<1>3. ASSUME NEW w \in Writer,
             Start(w) \/ LockConfig(w) \/ ReadConfig(w) \/ Reject(w)
               \/ MakeTemp(w) \/ WriteTemp(w) \/ Unlock(w) \/ Fail(w) \/ Kill(w)
      PROVE UNCHANGED <<conf, durable>>
  BY <1>3 DEF Start, Begin, LockConfig, ReadConfig, Reject, MakeTemp, WriteTemp,
              Unlock, Fail, Kill, store
<1>4. CASE Writeback
  BY <1>4 DEF Writeback, Flushed, Store!Sync, Store!Next
<1>5. CASE PowerLoss
  BY <1>5 DEF PowerLoss, Store!Crash, Store!Next
<1>6. CASE UNCHANGED vars
  BY <1>6 DEF vars, store
<1> QED
  BY <1>1, <1>2, <1>3, <1>4, <1>5, <1>6 DEF Next, WriteStep, Progress, Store!Next

(* batocera-settings-set implements AtomicStore for any number of writers, *)
(* failures, kills and power cuts (SettingsStore.StoreIsAtomic).           *)
THEOREM Refinement == Spec => StoreIsAtomic
<1>1. Init => Store!Init
  BY DEF Init, Store!Init
<1> QED
  BY <1>1, Invariance, StoreStep, PTL DEF Spec, StoreIsAtomic, Store!Spec

(* What strengthens NeverPartial: no cut leaves garbage of a good file.    *)
Good == conf # Garbage => Garbage \notin durable

LEMMA GoodStep ==
  ASSUME IInv, Good, [Next]_vars
  PROVE  Good' /\ (conf # Garbage => conf' # Garbage)
<1>1. ASSUME NEW set \in Assignment, conf' = Written(conf, set), conf # Garbage
      PROVE conf' # Garbage
  <2>1. conf \in Settings \cup {None}
    BY <1>1 DEF IInv, TypeOK, File
  <2>2. Written(conf, set) \in Settings
    <3>1. PICK K \in (SUBSET Key) \ {{}} : set \in [K -> Value]
      BY DEF Assignment
    <3> DEFINE old == IF conf = None THEN Blank ELSE conf
    <3>2. old \in Settings
      BY <2>1, BlankTyped
    <3>3. [k \in Key |-> IF k \in DOMAIN set THEN set[k] ELSE old[k]] \in Settings
      BY <3>1, <3>2 DEF Settings
    <3> QED
      BY <1>1, <3>3 DEF Written
  <2> QED
    BY <1>1, <2>2, NamesAssumption DEF NamesAssumption
<1>2. CASE Store!Write
  <2>1. PICK set \in Assignment : conf' = Written(conf, set)
    BY <1>2 DEF Store!Write
  <2>2. conf = Garbage => conf' = Garbage
    BY <2>1 DEF Written
  <2> QED
    BY <1>1, <1>2, <2>1, <2>2 DEF Store!Write, Good
<1>3. CASE Store!Sync \/ UNCHANGED <<conf, durable>>
  BY <1>3 DEF Store!Sync, Good
<1>4. CASE Store!Crash
  BY <1>4 DEF Store!Crash, Good
<1> QED
  BY <1>2, <1>3, <1>4, StoreStep DEF Store!Next

(* "Interrupted writes cannot leave a partially written batocera.conf":    *)
(* SettingsStore.NeverPartial holds for any number of writers.             *)
THEOREM Partial == Spec => NeverPartial
<1>1. Init => Good
  BY DEF Init, Good
<1>2. IInv /\ Good /\ [Next]_vars => Good'
  BY GoodStep
<1>3. IInv /\ Good /\ [Next]_vars => [conf # Garbage => conf' # Garbage]_conf
  BY GoodStep
<1> QED
  BY <1>1, <1>2, <1>3, Invariance, PTL DEF Spec, NeverPartial

-----------------------------------------------------------------------------
(* Settings survive: a write changes only the keys it sets.                *)

LEMMA WrittenElsewhere ==
  ASSUME NEW f \in File, NEW set \in Assignment, NEW k \in Key \ DOMAIN set
  PROVE  Setting(Written(f, set), k) = Setting(f, k)
<1>1. CASE f = Garbage
  BY <1>1 DEF Written, Setting
<1>2. CASE f # Garbage
  <2> DEFINE old == IF f = None THEN Blank ELSE f
  <2>1. Written(f, set) = [x \in Key |-> IF x \in DOMAIN set THEN set[x] ELSE old[x]]
    BY <1>2 DEF Written
  <2>2. Written(f, set)[k] = old[k]
    BY <2>1
  <2>3. old[k] = Setting(f, k)
    BY <1>2 DEF Setting, Blank
  <2>4. Written(f, set) \in Settings
    <3>1. PICK K \in (SUBSET Key) \ {{}} : set \in [K -> Value]
      BY DEF Assignment
    <3>2. old \in Settings
      BY <1>2, BlankTyped DEF File
    <3> QED
      BY <2>1, <3>1, <3>2 DEF Settings
  <2>5. Written(f, set) \notin {None, Garbage}
    BY <2>4, NamesAssumption DEF NamesAssumption
  <2> QED
    BY <2>2, <2>3, <2>5 DEF Setting
<1> QED
  BY <1>1, <1>2

LEMMA SurviveStep ==
  ASSUME IInv, SettingsSurvive, [Next]_vars PROVE SettingsSurvive'
<1>1. ASSUME NEW w \in Writer, Rename(w) PROVE SettingsSurvive'
  <2>1. ask[w].set \in Assignment /\ temp[w] = Written(conf, ask[w].set)
    BY <1>1 DEF Rename, At, IInv, TypeOK, ReadIsFresh, Request
  <2>2. \A k \in Key \ since' : Setting(temp[w], k) = Setting(conf, k)
    BY <1>1, <2>1, WrittenElsewhere DEF Rename, IInv, TypeOK
  <2>3. \A k \in Key \ since' : Setting(conf, k) = Setting(synced, k)
    BY <1>1 DEF Rename, IInv, SettingsSurvive
  <2> QED
    BY <1>1, <2>2, <2>3 DEF Rename, SettingsSurvive
<1>2. CASE Flushed
  BY <1>2 DEF Flushed, SettingsSurvive
<1>3. CASE UNCHANGED store
  BY <1>3 DEF store, SettingsSurvive, Setting
<1>4. CASE PowerLoss
  BY <1>4 DEF PowerLoss, SettingsSurvive
<1>5. ASSUME NEW w \in Writer,
             Start(w) \/ LockConfig(w) \/ ReadConfig(w) \/ Reject(w)
               \/ MakeTemp(w) \/ WriteTemp(w) \/ Unlock(w) \/ Fail(w) \/ Kill(w)
      PROVE UNCHANGED store
  BY <1>5 DEF Start, Begin, LockConfig, ReadConfig, Reject, MakeTemp, WriteTemp,
              Unlock, Fail, Kill
<1>6. UNCHANGED vars => UNCHANGED store
  BY DEF vars
<1> QED
  BY <1>1, <1>2, <1>3, <1>4, <1>5, <1>6 DEF Next, WriteStep, Progress, SyncParent, Writeback

(* What was synced survives later writes to other keys and every power cut *)
(* (SettingsStore.SettingsSurvive), for any number of writers.             *)
THEOREM Survival == Spec => []SettingsSurvive
<1>1. Init => SettingsSurvive
  BY DEF Init, SettingsSurvive
<1> QED
  BY <1>1, SurviveStep, Invariance, PTL DEF Spec

-----------------------------------------------------------------------------
(* Services.                                                              *)

LEMMA Least ==
  ASSUME NEW T \in SUBSET Nat, T # {}
  PROVE  \E n \in T : \A m \in T : n <= m
<1> DEFINE R == OpToRel(<, Nat)
<1>1. IsWellFoundedOn(R, Nat)
  BY NatLessThanWellFounded
<1>2. \A x, y \in Nat : x < y => <<x, y>> \in R
  BY DEF OpToRel
<1> HIDE DEF R
<1>3. PICK n \in T : \A m \in T : <<m, n>> \notin R
  BY <1>1, WFMin
<1>4. ASSUME NEW m \in T PROVE n <= m
  <2>1. m \in Nat /\ n \in Nat /\ ~(m < n)
    BY <1>2, <1>3
  <2> QED
    BY <2>1
<1> QED
  BY <1>4

LEMMA Induction ==
  ASSUME NEW T \in SUBSET Nat, 0 \in T, \A n \in T : n + 1 \in T
  PROVE  T = Nat
<1> SUFFICES ASSUME Nat \ T # {} PROVE FALSE
  OBVIOUS
<1>1. PICK n \in Nat \ T : \A m \in Nat \ T : n <= m
  BY Least
<1>2. n # 0 /\ n - 1 \in Nat /\ n - 1 \notin Nat \ T
  BY <1>1
<1> QED
  BY <1>2

-----------------------------------------------------------------------------
(* Lists.                                                                  *)

Distinct(s) == \A i, j \in DOMAIN s : s[i] = s[j] => i = j

LEMMA GoodIsDistinct ==
  ASSUME NEW s \in Seq(Name)
  PROVE  GoodList(s) <=> Elems(s) \subseteq Valid /\ Distinct(s)
<1>1. Len(s) \in Nat /\ DOMAIN s = 1 .. Len(s) /\ s \in [1 .. Len(s) -> Elems(s)]
  BY DEF Elems
<1>2. IsFiniteSet(1 .. Len(s)) /\ Cardinality(1 .. Len(s)) = Len(s)
  BY <1>1, FS_Interval
<1>3. s \in Surjection(1 .. Len(s), Elems(s))
  BY <1>1 DEF Surjection, Elems
<1>4. Cardinality(Elems(s)) = Len(s) <=> s \in Injection(1 .. Len(s), Elems(s))
  BY <1>2, <1>3, FS_Surjection
<1>5. s \in Injection(1 .. Len(s), Elems(s)) <=> Distinct(s)
  BY <1>1 DEF Injection, IsInjective, Distinct
<1> QED
  BY <1>4, <1>5 DEF GoodList

LEMMA AppendList ==
  ASSUME NEW s \in Seq(Name), NEW n \in Name
  PROVE  /\ Append(s, n) \in Seq(Name)
         /\ Elems(Append(s, n)) = Elems(s) \cup {n}
         /\ Distinct(s) /\ n \notin Elems(s) => Distinct(Append(s, n))
<1> DEFINE t == Append(s, n)
<1>1. /\ t \in Seq(Name) /\ Len(s) \in Nat /\ Len(t) = Len(s) + 1
      /\ DOMAIN s = 1 .. Len(s) /\ DOMAIN t = 1 .. Len(s) + 1
      /\ \A i \in 1 .. Len(s) : t[i] = s[i]
      /\ t[Len(s) + 1] = n
  BY AppendProperties
<1> HIDE DEF t
<1>2. Elems(t) = Elems(s) \cup {n}
  BY <1>1 DEF Elems
<1>3. ASSUME Distinct(s), n \notin Elems(s), NEW i \in DOMAIN t, NEW j \in DOMAIN t,
             t[i] = t[j]
      PROVE  i = j
  BY <1>1, <1>3 DEF Distinct, Elems
<1> QED
  BY <1>1, <1>2, <1>3 DEF Distinct, t

(* One round of the loop of do_disable.                                    *)
Round(f, s, n, i) ==
  IF i = 0 THEN <<>>
  ELSE IF s[i] # n THEN Append(f[i - 1], s[i]) ELSE f[i - 1]

(* The loop has a run: one of no rounds, and of one round more than any.   *)
LEMMA LoopRuns ==
  ASSUME NEW s \in Seq(Name), NEW n
  PROVE  \E f : f = [i \in 0 .. Len(s) |-> Round(f, s, n, i)]
<1> DEFINE Runs(k, f) == f = [i \in 0 .. k |-> Round(f, s, n, i)]
           T == {k \in Nat : k <= Len(s) => \E f : Runs(k, f)}
<1>1. 0 \in T
  <2>1. Runs(0, [i \in 0 .. 0 |-> <<>>])
    BY DEF Round
  <2> QED
    BY <2>1
<1>2. ASSUME NEW k \in T PROVE k + 1 \in T
  <2> SUFFICES ASSUME k + 1 <= Len(s) PROVE \E f : Runs(k + 1, f)
    OBVIOUS
  <2>1. k \in Nat /\ Len(s) \in Nat
    OBVIOUS
  <2>2. PICK f : Runs(k, f)
    BY <2>1
  <2> DEFINE g == [i \in 0 .. k + 1 |-> IF i = k + 1 THEN Round(f, s, n, i) ELSE f[i]]
  <2>3. \A i \in 0 .. k : g[i] = f[i]
    BY <2>1
  <2>4. \A i \in 0 .. k + 1 : Round(g, s, n, i) = Round(f, s, n, i)
    BY <2>1, <2>3 DEF Round
  <2>5. \A i \in 0 .. k + 1 : g[i] = Round(g, s, n, i)
    <3> TAKE i \in 0 .. k + 1
    <3>1. CASE i = k + 1
      BY <2>1, <2>4, <3>1
    <3>2. CASE i # k + 1
      <4>1. i \in 0 .. k
        BY <2>1, <3>2
      <4>2. f[i] = Round(f, s, n, i)
        BY <2>2, <4>1
      <4> QED
        BY <2>3, <2>4, <4>1, <4>2
    <3> QED
      BY <3>1, <3>2
  <2>6. Runs(k + 1, g)
    BY <2>5
  <2> QED
    BY <2>6
<1> HIDE DEF T
<1>3. T = Nat
  BY <1>1, <1>2, Induction DEF T
<1>4. Len(s) \in T
  BY <1>3
<1> QED
  BY <1>4 DEF T

LEMMA WithoutIsLoop ==
  ASSUME NEW s \in Seq(Name), NEW n
  PROVE  \E f : /\ f = [i \in 0 .. Len(s) |-> Round(f, s, n, i)]
                /\ Without(s, n) = f[Len(s)]
<1> DEFINE Runs(g) ==
             g = [i \in 0 .. Len(s) |->
                    IF i = 0 THEN <<>>
                    ELSE IF s[i] # n THEN Append(g[i - 1], s[i]) ELSE g[i - 1]]
           f == CHOOSE g : Runs(g)
<1>1. Without(s, n) = f[Len(s)]
  BY DEF Without
<1>2. \E g : Runs(g)
  BY LoopRuns DEF Round
<1>3. Runs(f)
  <2> HIDE DEF Runs
  <2> QED
    BY <1>2
<1> HIDE DEF f
<1> QED
  BY <1>1, <1>3 DEF Round

(* The loop drops the name and keeps the rest, whatever the list.          *)
LEMMA WithoutList ==
  ASSUME NEW s \in Seq(Name), NEW n
  PROVE  /\ Without(s, n) \in Seq(Name)
         /\ Elems(Without(s, n)) = Elems(s) \ {n}
         /\ Distinct(s) => Distinct(Without(s, n))
<1> DEFINE Seen(k) == {s[j] : j \in 1 .. k}
<1>1. Len(s) \in Nat /\ DOMAIN s = 1 .. Len(s) /\ \A i \in 1 .. Len(s) : s[i] \in Name
  OBVIOUS
<1>2. PICK f : /\ f = [i \in 0 .. Len(s) |-> Round(f, s, n, i)]
               /\ Without(s, n) = f[Len(s)]
  BY WithoutIsLoop
<1> DEFINE Kept(k) == /\ f[k] \in Seq(Name) /\ Elems(f[k]) = Seen(k) \ {n}
                      /\ Distinct(s) => Distinct(f[k])
           T == {k \in Nat : k <= Len(s) => Kept(k)}
<1>3. \A i \in 0 .. Len(s) : f[i] = Round(f, s, n, i)
  BY <1>2
<1>4. 0 \in T
  <2>1. f[0] = <<>>
    BY <1>1, <1>3 DEF Round
  <2>2. <<>> \in Seq(Name) /\ Elems(<<>>) = {} /\ Distinct(<<>>)
    BY DEF Elems, Distinct
  <2>3. Seen(0) = {}
    OBVIOUS
  <2>4. Kept(0)
    BY <2>1, <2>2, <2>3
  <2> QED
    BY <2>4
<1>5. ASSUME NEW k \in T PROVE k + 1 \in T
  <2> SUFFICES ASSUME k + 1 <= Len(s) PROVE Kept(k + 1)
    OBVIOUS
  <2>1. /\ k \in Nat /\ k + 1 \in 1 .. Len(s) /\ Kept(k) /\ s[k + 1] \in Name
        /\ f[k + 1] = IF s[k + 1] # n THEN Append(f[k], s[k + 1]) ELSE f[k]
    BY <1>1, <1>3 DEF Round
  <2>2. Seen(k + 1) = Seen(k) \cup {s[k + 1]}
    BY <2>1
  <2>3. Distinct(s) => s[k + 1] \notin Seen(k)
    BY <1>1, <2>1 DEF Distinct
  <2> HIDE DEF Seen
  <2> QED
    BY <2>1, <2>2, <2>3, AppendList
<1>6. T = Nat
  <2> HIDE DEF T
  <2>1. T \in SUBSET Nat
    BY DEF T
  <2> QED
    BY <1>4, <1>5, <2>1, Induction
<1>7. Len(s) \in T
  BY <1>1, <1>6
<1>8. Kept(Len(s))
  BY <1>1, <1>7
<1>9. Seen(Len(s)) = Elems(s)
  BY <1>1 DEF Elems
<1> QED
  BY <1>2, <1>8, <1>9

-----------------------------------------------------------------------------
(* What the steps of a writer and the commands do to a list.               *)

LEMMA ListTyped ==
  ASSUME ServicesAssumption, NEW f \in File
  PROVE  ListIn(f) \in Value /\ ListIn(f) \in Seq(Name)
<1>1. Setting(f, list) \in Value \cup {Unset}
  BY DEF ServicesAssumption, Setting, File, Settings
<1> QED
  BY <1>1 DEF ServicesAssumption, ListIn

LEMMA EmptyIsGood == GoodList(<<>>)
  BY FS_EmptySet DEF GoodList, Elems

(* A write puts the list of its request in place of any other.             *)
LEMMA WrittenList ==
  ASSUME ServicesAssumption, NEW f \in File, NEW set \in Assignment
  PROVE  ListIn(Written(f, set)) = IF f = Garbage THEN <<>> ELSE set[list]
<1>1. CASE f = Garbage
  BY <1>1 DEF Written, ListIn, Setting
<1>2. CASE f # Garbage
  <2>1. DOMAIN set = {list} /\ set[list] \in Value
    <3>1. PICK K \in (SUBSET Key) \ {{}} : set \in [K -> Value]
      BY DEF Assignment
    <3>2. K = {list}
      BY <3>1 DEF ServicesAssumption
    <3> QED
      BY <3>1, <3>2
  <2> DEFINE old == IF f = None THEN Blank ELSE f
             new == [k \in Key |-> IF k \in DOMAIN set THEN set[k] ELSE old[k]]
  <2>2. Written(f, set) = new
    BY <1>2 DEF Written
  <2>3. new[list] = set[list]
    BY <2>1 DEF ServicesAssumption
  <2>4. new \in Settings
    BY <2>1 DEF ServicesAssumption, Settings
  <2>5. new \notin {None, Garbage} /\ set[list] # Unset
    BY <2>1, <2>4, NamesAssumption DEF NamesAssumption
  <2> HIDE DEF new
  <2> QED
    BY <1>2, <2>2, <2>3, <2>5 DEF ListIn, Setting
<1> QED
  BY <1>1, <1>2

Others(w) ==
  /\ pc[w] # pc'[w]
  /\ \A v \in Writer \ {w} : /\ pc'[v] = pc[v] /\ ask'[v] = ask[v]
                             /\ doing'[v] = doing[v]
Ends(w) ==
  /\ pc'[w] = "idle" /\ ask'[w] = None /\ doing'[w] = None
  /\ UNCHANGED <<conf, wanted>> /\ durable' \subseteq durable
  /\ cut' = (cut \/ (w = Boot /\ pc[w] \notin {"sync", "unlock"}))
Goes(w) ==
  /\ pc'[w] \notin {"idle", "sync", "lock"}
  /\ pc'[w] = "unlock" <=> pc[w] = "sync"
  /\ pc[w] # "unlock"
  /\ UNCHANGED <<conf, wanted, cut>> /\ durable' \subseteq durable \cup {conf}
  /\ ask'[w] = ask[w] /\ doing'[w] = doing[w]
Replaces(w) ==
  /\ pc[w] = "rename" /\ pc'[w] = "sync"
  /\ ask[w] \in Request /\ conf' = Written(conf, ask[w].set)
  /\ durable' = durable \cup {conf'}
  /\ wanted' = Done(w) /\ UNCHANGED cut
  /\ ask'[w] = ask[w] /\ doing'[w] = doing[w]

LEMMA SetMoves ==
  ASSUME ServicesAssumption, IInv, ServicesTypeOK, NEW w \in Writer, SetStep(w)
  PROVE  /\ pc[w] # "idle" /\ Others(w) /\ UNCHANGED <<own, overlap, off>>
         /\ \/ Ends(w) \/ Goes(w) \/ Replaces(w)
<1> USE DEF At, Go, store
<1>1. /\ pc \in [Writer -> {"idle", "lock", "read", "temp", "write", "rename",
                            "sync", "unlock"}]
      /\ ask \in [Writer -> Request \cup {None}] /\ DOMAIN doing = Writer
      /\ cut \in BOOLEAN
  BY DEF IInv, TypeOK, ServicesTypeOK
<1>2. /\ UNCHANGED <<own, overlap, off>>
      /\ doing' = [doing EXCEPT ![w] = IF pc'[w] = "idle" THEN None ELSE @]
      /\ wanted' = IF pc'[w] # "sync" THEN wanted ELSE Done(w)
  BY DEF SetStep, Done
<1>3. /\ pc'[w] # "idle" => cut' = cut
      /\ pc'[w] = "idle" => cut' = (cut \/ (w = Boot /\ pc[w] \notin {"sync", "unlock"}))
  <2> DEFINE early == w = Boot /\ pc[w] \notin {"sync", "unlock"}
  <2>1. cut' = (cut \/ (early /\ pc'[w] = "idle"))
    BY DEF SetStep
  <2> HIDE DEF early
  <2>2. /\ pc'[w] # "idle" => cut' = cut
        /\ pc'[w] = "idle" => cut' = (cut \/ early)
    BY <1>1, <2>1
  <2> QED
    BY <2>2 DEF early
<1>4. ASSUME Exit(w), UNCHANGED store, pc[w] # "idle"
      PROVE  Others(w) /\ Ends(w)
  BY <1>1, <1>2, <1>3, <1>4 DEF Exit, Others, Ends
<1>5. CASE LockConfig(w) \/ ReadConfig(w) \/ MakeTemp(w) \/ WriteTemp(w)
  BY <1>1, <1>2, <1>3, <1>5 DEF LockConfig, ReadConfig, MakeTemp, WriteTemp, Others, Goes
<1>6. CASE Rename(w)
  <2>1. ask[w] \in Request /\ conf' = Written(conf, ask[w].set)
    BY <1>1, <1>2, <1>3, <1>6 DEF Rename, IInv, ReadIsFresh
  <2> QED
    BY <1>1, <1>2, <1>3, <1>6, <2>1 DEF Rename, Others, Replaces
<1>7. CASE SyncParent(w)
  BY <1>1, <1>2, <1>3, <1>7 DEF SyncParent, Flushed, Others, Goes
<1>8. CASE Reject(w) \/ Unlock(w) \/ Fail(w) \/ Kill(w)
  BY <1>1, <1>2, <1>3, <1>4, <1>8 DEF Reject, Unlock, Fail, Kill
<1> QED
  BY <1>1, <1>2, <1>3, <1>5, <1>6, <1>7, <1>8 DEF SetStep, WriteStep, Progress,
     LockConfig, ReadConfig, MakeTemp, WriteTemp, Rename, SyncParent

(* A command asks for a good list, with its name or without it.            *)
Asks(w, verb, s) ==
  /\ pc[w] = "idle" /\ pc'[w] = "lock" /\ Start(w) /\ UNCHANGED store
  /\ ask'[w] \in Request /\ GoodList(ask'[w].set[list])
  /\ doing'[w] = <<verb, s>> /\ doing' \in [Writer -> ({"enable", "disable"} \X Name) \cup {None}]
  /\ overlap' = (overlap \/ \E v \in Writer \ {w} : pc[v] # "idle")
  /\ Elems(ask'[w].set[list]) = IF verb = "enable" THEN Elems(Enabled) \cup {s}
                                                   ELSE Elems(Enabled) \ {s}

LEMMA CommandMoves ==
  ASSUME ServicesAssumption, IInv, ServicesTypeOK, ListsAreGood, NEW w \in Writer, NEW s \in Name,
         NEW verb \in {"enable", "disable"}, NEW new \in Value, GoodList(new),
         Command(w, verb, s, new),
         Elems(new) = IF verb = "enable" THEN Elems(Enabled) \cup {s}
                                         ELSE Elems(Enabled) \ {s}
  PROVE  Others(w) /\ Asks(w, verb, s)
<1> DEFINE set == [k \in {list} |-> new]
           r == [set |-> set, validate |-> FALSE]
<1>1. r \in Request /\ r.set[list] = new
  <2>1. set \in [{list} -> Value] /\ {list} \in (SUBSET Key) \ {{}}
    BY DEF ServicesAssumption
  <2>2. set \in Assignment
    BY <2>1 DEF Assignment
  <2> QED
    BY <2>2 DEF Request
<1>2. /\ Begin(w, r) /\ doing' = [doing EXCEPT ![w] = <<verb, s>>]
      /\ overlap' = (overlap \/ \E v \in Writer \ {w} : pc[v] # "idle")
  BY DEF Command
<1> HIDE DEF r
<1>3. /\ pc[w] = "idle" /\ pc' = [pc EXCEPT ![w] = "lock"]
      /\ ask' = [ask EXCEPT ![w] = r] /\ UNCHANGED store
  BY <1>2 DEF Begin, At, Go
<1>4. Start(w)
  BY <1>1, <1>2 DEF Start
<1>5. pc'[w] = "lock" /\ ask'[w] = r /\ doing'[w] = <<verb, s>>
  BY <1>2, <1>3 DEF IInv, TypeOK, ServicesTypeOK
<1>6. Others(w)
  BY <1>2, <1>3 DEF Others, IInv, TypeOK, ServicesTypeOK
<1>7. doing' \in [Writer -> ({"enable", "disable"} \X Name) \cup {None}]
  BY <1>2 DEF ServicesTypeOK
<1> QED
  BY <1>1, <1>2, <1>3, <1>4, <1>5, <1>6, <1>7 DEF Asks

LEMMA EnableMoves ==
  ASSUME ServicesAssumption, IInv, ServicesTypeOK, ListsAreGood, NEW w \in Writer, NEW s, do_enable(w, s)
  PROVE  Others(w) /\ Asks(w, "enable", s) /\ s \in Valid
<1> DEFINE new == Append(Enabled, s)
<1>1. Enabled \in Value /\ Enabled \in Seq(Name) /\ GoodList(Enabled)
  BY ListTyped DEF Enabled, IInv, TypeOK, ListsAreGood
<1>2. s \in Valid \ Elems(Enabled) /\ s \in Name
  BY DEF ServicesAssumption, do_enable
<1>3. new \in Value /\ Elems(new) = Elems(Enabled) \cup {s}
  BY <1>1, <1>2, AppendList DEF ServicesAssumption
<1>4. GoodList(new)
  BY <1>1, <1>2, <1>3, AppendList, GoodIsDistinct
<1> QED
  BY <1>2, <1>3, <1>4, CommandMoves DEF do_enable

LEMMA DisableMoves ==
  ASSUME ServicesAssumption, IInv, ServicesTypeOK, ListsAreGood, NEW w \in Writer, NEW s \in Name,
         do_disable(w, s)
  PROVE  Others(w) /\ Asks(w, "disable", s)
<1> DEFINE new == Without(Enabled, s)
<1>1. Enabled \in Value /\ Enabled \in Seq(Name) /\ GoodList(Enabled)
  BY ListTyped DEF Enabled, IInv, TypeOK, ListsAreGood
<1>2. s \in Elems(Enabled)
  BY DEF do_disable
<1>3. new \in Value /\ new \in Seq(Name) /\ Elems(new) = Elems(Enabled) \ {s}
  BY <1>1, <1>2, WithoutList DEF ServicesAssumption
<1>4. GoodList(new)
  BY <1>1, <1>3, WithoutList, GoodIsDistinct
<1> QED
  BY <1>3, <1>4, CommandMoves DEF do_disable

-----------------------------------------------------------------------------
(* The invariant.                                                          *)

LEMMA ServicesStart ==
  ASSUME ServicesAssumption PROVE ServicesInit => ServicesInv
<1> SUFFICES ASSUME ServicesInit PROVE ServicesInv
  OBVIOUS
<1>1. IInv
  BY InitIInv DEF ServicesInit
<1>2. ServicesTypeOK
  BY <1>1 DEF ServicesInit, ServicesTypeOK, IInv
<1>3. /\ conf \in {None, Blank} /\ durable = {conf}
      /\ \A w \in Writer : pc[w] = "idle" /\ ask[w] = None
  BY DEF ServicesInit, Init
<1>4. ListIn(conf) = <<>>
  BY <1>3 DEF ServicesAssumption, ListIn, Setting, Blank
<1>5. ListsAreGood
  BY <1>3, <1>4, EmptyIsGood DEF ListsAreGood
<1>6. Elems(Enabled) = {} /\ SerialCommands
  BY <1>4 DEF Enabled, Elems, SerialCommands, ServicesInit
<1>7. OneAtATime /\ CustomKnown
  BY <1>3
  DEF ServicesAssumption, ServicesInit, OneAtATime, CustomKnown, Init
<1> QED
  BY <1>1, <1>2, <1>5, <1>6, <1>7 DEF ServicesInv

LEMMA SetInv ==
  ASSUME ServicesAssumption, ServicesInv, NEW w \in Writer, SetStep(w) PROVE ServicesInv'
<1>1. /\ pc[w] # "idle" /\ Others(w) /\ UNCHANGED <<own, overlap, off>>
      /\ \/ Ends(w) \/ Goes(w) \/ Replaces(w)
  BY SetMoves DEF ServicesInv
<1>2. [Next]_vars
  BY DEF SetStep, Next
<1>3. IInv' /\ conf' # Garbage /\ Garbage \notin durable'
  BY <1>2, NextStep, GoodStep DEF ServicesInv, OneAtATime, Good
<1>4. ServicesTypeOK'
  <2>1. doing[w] \in {"enable", "disable"} \X Name
    BY <1>1 DEF ServicesInv, ServicesTypeOK, CustomKnown
  <2>2. wanted' \subseteq Name
    BY <1>1, <2>1 DEF Ends, Goes, Replaces, Done, ServicesInv, ServicesTypeOK
  <2>3. doing' \in [Writer -> ({"enable", "disable"} \X Name) \cup {None}]
    BY DEF SetStep, ServicesInv, ServicesTypeOK
  <2>4. cut' \in BOOLEAN
    BY DEF SetStep
  <2> QED
    BY <1>1, <1>3, <2>2, <2>3, <2>4 DEF own, ServicesInv, ServicesTypeOK, IInv
<1>5. ListsAreGood'
  <2>1. CASE Ends(w)
    BY <1>1, <2>1 DEF Ends, Others, ServicesInv, ListsAreGood, ListIn, Setting
  <2>2. CASE Goes(w)
    BY <1>1, <2>2 DEF Goes, Others, ServicesInv, ListsAreGood, ListIn, Setting
  <2>3. CASE Replaces(w)
    <3>1. GoodList(ListIn(conf'))
      BY <2>3, WrittenList, EmptyIsGood, RequestAssumption
      DEF Replaces, RequestAssumption, Request, ServicesInv, IInv, TypeOK, ListsAreGood
    <3>2. \A f \in durable' \cup {conf'} : GoodList(ListIn(f))
      BY <2>3, <3>1 DEF Replaces, ServicesInv, ListsAreGood
    <3>3. \A v \in Writer : ask'[v] = ask[v]
      BY <1>1, <2>3 DEF Replaces, Others
    <3> QED
      BY <3>2, <3>3 DEF ServicesInv, ListsAreGood, ListIn, Setting
  <2> QED
    BY <1>1, <2>1, <2>2, <2>3
<1>6. SerialCommands'
  <2>1. CASE Ends(w) \/ Goes(w)
    BY <1>1, <2>1 DEF Ends, Goes, ServicesInv, SerialCommands, Enabled, ListIn, Setting
  <2>2. CASE Replaces(w)
    <3>1. ListIn(conf') = ask[w].set[list]
      BY <2>2, WrittenList
      DEF Replaces, Request, ServicesInv, IInv, TypeOK, OneAtATime
    <3>2. ~overlap => Elems(ask[w].set[list]) = Done(w)
      BY <2>2 DEF Replaces, ServicesInv, OneAtATime
    <3>3. Enabled' = ListIn(conf')
      BY DEF Enabled, ListIn, Setting
    <3> QED
      BY <1>1, <2>2, <3>1, <3>2, <3>3 DEF Replaces, SerialCommands, Elems
  <2> QED
    BY <1>1, <2>1, <2>2
<1>7. OneAtATime'
  <2> SUFFICES ASSUME ~overlap, NEW v \in Writer, pc'[v] # "idle"
               PROVE  /\ \A u \in Writer \ {v} : pc'[u] = "idle"
                      /\ pc'[v] \notin {"sync", "unlock"}
                           => Elems(ask'[v].set[list]) = Done(v)'
    BY <1>1, <1>3 DEF OneAtATime, Elems
  <2>1. v = w /\ ~Ends(w) /\ pc[w] # "idle" /\ \A u \in Writer \ {w} : pc[u] = "idle"
    BY <1>1 DEF Others, Ends, ServicesInv, OneAtATime
  <2>2. \A u \in Writer \ {w} : pc'[u] = "idle"
    BY <1>1, <2>1 DEF Others
  <2>3. CASE Goes(w)
    <3>1. pc'[w] \notin {"sync", "unlock"} => pc[w] \notin {"sync", "unlock"}
      BY <2>3 DEF Goes
    <3>2. Done(w)' = Done(w) /\ ask'[w] = ask[w]
      BY <2>3 DEF Goes, Done
    <3> QED
      BY <2>1, <2>2, <3>1, <3>2 DEF ServicesInv, OneAtATime
  <2>4. CASE Replaces(w)
    BY <2>1, <2>2, <2>4 DEF Replaces
  <2> QED
    BY <1>1, <2>1, <2>3, <2>4
<1>8. CustomKnown'
  <2>1. \A v \in Writer : pc'[v] # "idle" => pc[v] # "idle" /\ doing'[v] = doing[v]
    BY <1>1 DEF Others, Ends, Goes, Replaces
  <2>2. boot \in {"migrate", "enable"} => pc'[Boot] = "idle"
    BY <1>1 DEF ServicesAssumption, Others, ServicesInv, CustomKnown
  <2>3. ASSUME custom = "service", ~cut', ~overlap, ~off
        PROVE  /\ boot = "migrate" => Custom \in wanted'
               /\ boot = "run" => \/ Custom \in wanted'
                                  \/ pc'[Boot] \notin {"idle", "sync", "unlock"}
    <3>1. ~cut
      BY <1>1, <2>3 DEF Ends, Goes, Replaces
    <3>2. /\ boot = "migrate" => Custom \in wanted
          /\ boot = "run" => Custom \in wanted \/ pc[Boot] \notin {"idle", "sync", "unlock"}
          /\ doing[w] # <<"disable", Custom>>
          /\ w = Boot => doing[w] = <<"enable", Custom>>
      BY <1>1, <2>3, <3>1 DEF ServicesInv, CustomKnown
    <3>3. CASE Ends(w) \/ Goes(w)
      BY <1>1, <2>3, <3>2, <3>3
      DEF ServicesAssumption, Ends, Goes, Others
    <3>4. CASE Replaces(w)
      <4>1. Custom \in wanted => Custom \in wanted'
        <5>1. doing[w] \in {"enable", "disable"} \X Name
          BY <1>1 DEF ServicesInv, ServicesTypeOK, CustomKnown
        <5> QED
          BY <3>2, <3>4, <5>1 DEF Replaces, Done
      <4>2. w = Boot => Custom \in wanted'
        BY <3>2, <3>4 DEF Replaces, Done
      <4> QED
        BY <1>1, <3>2, <4>1, <4>2 DEF ServicesAssumption, Others
    <3> QED
      BY <1>1, <3>3, <3>4
  <2>4. UNCHANGED <<custom, boot, started, overlap, off>>
    BY <1>1 DEF own
  <2>5. ~cut' => ~cut
    BY <1>1 DEF Ends, Goes, Replaces
  <2> QED
    BY <2>1, <2>2, <2>3, <2>4, <2>5 DEF ServicesInv, CustomKnown
<1> QED
  BY <1>3, <1>4, <1>5, <1>6, <1>7, <1>8 DEF ServicesInv

(* What a command starts keeps all but what is known of custom.sh.         *)
LEMMA CommandInv ==
  ASSUME ServicesAssumption, ServicesInv, NEW w \in Writer, NEW s \in Name,
         NEW verb \in {"enable", "disable"}, Others(w), Asks(w, verb, s),
         UNCHANGED <<wanted, cut>>,
         custom' = custom /\ started' = started,
         boot' \in {"migrate", "move", "enable", "run", "done"}, off' \in BOOLEAN
  PROVE  IInv' /\ ServicesTypeOK' /\ ListsAreGood' /\ OneAtATime' /\ SerialCommands'
<1>1. [Next]_vars
  BY DEF Asks, Next
<1>2. /\ pc[w] = "idle" /\ pc'[w] = "lock" /\ UNCHANGED <<conf, durable>>
      /\ ask'[w] \in Request /\ GoodList(ask'[w].set[list])
      /\ doing'[w] = <<verb, s>>
      /\ overlap' = (overlap \/ \E v \in Writer \ {w} : pc[v] # "idle")
  BY DEF Asks, store
<1>3. IInv'
  BY <1>1, NextStep DEF ServicesInv
<1>4. ServicesTypeOK'
  <2>1. overlap' \in BOOLEAN
    BY <1>2
  <2> QED
    BY <1>3, <2>1 DEF Asks, ServicesInv, ServicesTypeOK, IInv
<1>5. ListsAreGood'
  BY <1>2 DEF Others, ServicesInv, ListsAreGood, ListIn, Setting
<1>6. Enabled' = Enabled
  BY <1>2 DEF Enabled, ListIn, Setting
<1>7. ~overlap' => ~overlap /\ \A v \in Writer \ {w} : pc[v] = "idle"
  BY <1>2
<1>8. SerialCommands'
  BY <1>6, <1>7 DEF ServicesInv, SerialCommands
<1>9. OneAtATime'
  <2> SUFFICES ASSUME ~overlap', NEW v \in Writer, pc'[v] # "idle"
               PROVE  /\ \A u \in Writer \ {v} : pc'[u] = "idle"
                      /\ Elems(ask'[v].set[list]) = Done(v)'
    BY <1>2 DEF ServicesInv, OneAtATime, Elems
  <2>1. v = w /\ \A u \in Writer \ {w} : pc'[u] = "idle"
    BY <1>7 DEF Others
  <2>2. Elems(Enabled) = wanted
    BY <1>7 DEF ServicesInv, SerialCommands
  <2>3. Elems(ask'[w].set[list]) = Done(w)'
    BY <1>2, <2>2 DEF Asks, Done
  <2> QED
    BY <2>1, <2>3
<1> QED
  BY <1>3, <1>4, <1>5, <1>8, <1>9

LEMMA UserInv ==
  ASSUME ServicesAssumption, ServicesInv, NEW w \in Writer, NEW s \in Name, UserCommand(w, s)
  PROVE  ServicesInv'
<1>1. w # Boot /\ UNCHANGED <<custom, boot, started, wanted, cut>>
  BY DEF UserCommand, own
<1>2. PICK verb \in {"enable", "disable"} :
        /\ Others(w) /\ Asks(w, verb, s)
        /\ off' \in BOOLEAN /\ (off => off')
        /\ verb = "disable" /\ s = Custom => off'
  <2>1. CASE do_enable(w, s) /\ UNCHANGED off
    BY <2>1, EnableMoves DEF ServicesInv, ServicesTypeOK
  <2>2. CASE do_disable(w, s) /\ off' = (off \/ s = Custom)
    BY <2>2, DisableMoves DEF ServicesInv, ServicesTypeOK
  <2> QED
    BY <2>1, <2>2 DEF UserCommand
<1>3. IInv' /\ ServicesTypeOK' /\ ListsAreGood' /\ OneAtATime' /\ SerialCommands'
  BY <1>1, <1>2, CommandInv DEF ServicesInv, ServicesTypeOK
<1>4. CustomKnown'
  <2>1. ASSUME NEW v \in Writer, pc'[v] # "idle"
        PROVE  /\ doing'[v] \in {"enable", "disable"} \X Name
               /\ doing'[v] = <<"disable", Custom>> => off'
               /\ v = Boot => doing'[v] = <<"enable", Custom>>
    <3>1. CASE v = w
      BY <1>1, <1>2, <3>1 DEF Asks
    <3>2. CASE v # w
      BY <1>2, <2>1, <3>2 DEF Others, ServicesInv, CustomKnown
    <3> QED
      BY <3>1, <3>2
  <2>2. pc'[Boot] = pc[Boot]
    BY <1>1, <1>2 DEF ServicesAssumption, Others
  <2>3. (~off' => ~off) /\ (~overlap' => ~overlap)
    BY <1>2 DEF Asks
  <2> QED
    BY <1>1, <2>1, <2>2, <2>3 DEF ServicesInv, CustomKnown
<1> QED
  BY <1>3, <1>4 DEF ServicesInv

LEMMA BootInv == ASSUME ServicesAssumption, ServicesInv, BootStep PROVE ServicesInv'
<1>1. ASSUME UNCHANGED vars, UNCHANGED hist,
             custom' \in {"custom.sh", "service", "none"},
             boot' \in {"migrate", "move", "enable", "run", "done"}, started' \subseteq Name
      PROVE  IInv' /\ ServicesTypeOK' /\ ListsAreGood' /\ OneAtATime' /\ SerialCommands'
  <2>1. IInv'
    BY <1>1, NextStep DEF ServicesInv
  <2> USE <1>1 DEF vars, store, hist, ServicesInv
  <2>2. ServicesTypeOK'
    BY <2>1 DEF ServicesTypeOK, IInv
  <2>3. ListsAreGood' /\ SerialCommands'
    BY DEF ListsAreGood, SerialCommands, Enabled, ListIn, Setting
  <2>4. OneAtATime'
    BY DEF OneAtATime, Done, Elems
  <2> QED
    BY <2>1, <2>2, <2>3, <2>4
<1>2. CASE MoveCustom
  <2>1. /\ UNCHANGED <<vars, started, hist>> /\ boot = "migrate"
        /\ \/ boot' = "enable" /\ custom' = "service"
           \/ boot' = "run" /\ custom' = custom
    BY <1>2 DEF MoveCustom
  <2>2. IInv' /\ ServicesTypeOK' /\ ListsAreGood' /\ OneAtATime' /\ SerialCommands'
    BY <1>1, <2>1 DEF ServicesInv, ServicesTypeOK
  <2>3. CustomKnown'
    BY <2>1 DEF vars, hist, ServicesInv, CustomKnown
  <2> QED
    BY <2>2, <2>3 DEF ServicesInv
<1>3. CASE EnableCustom /\ Custom \in Elems(Enabled)
  <2>1. /\ UNCHANGED <<vars, custom, started, hist>>
        /\ boot = "enable" /\ boot' = "run"
    BY <1>3 DEF EnableCustom, hist
  <2>2. IInv' /\ ServicesTypeOK' /\ ListsAreGood' /\ OneAtATime' /\ SerialCommands'
    BY <1>1, <2>1 DEF ServicesInv, ServicesTypeOK
  <2>3. ~overlap => Custom \in wanted
    BY <1>3 DEF ServicesInv, SerialCommands
  <2>4. CustomKnown'
    BY <2>1, <2>3 DEF vars, hist, ServicesInv, CustomKnown
  <2> QED
    BY <2>2, <2>4 DEF ServicesInv
<1>4. CASE EnableCustom /\ Custom \notin Elems(Enabled)
  <2>1. /\ do_enable(Boot, Custom) /\ boot = "enable" /\ boot' = "run"
        /\ UNCHANGED <<custom, started, wanted, cut, off>>
    BY <1>4 DEF EnableCustom
  <2>2. Boot \in Writer /\ Custom \in Name
    BY DEF ServicesAssumption
  <2>3. Others(Boot) /\ Asks(Boot, "enable", Custom)
    BY <2>1, <2>2, EnableMoves DEF ServicesInv
  <2>4. IInv' /\ ServicesTypeOK' /\ ListsAreGood' /\ OneAtATime' /\ SerialCommands'
    BY <2>1, <2>2, <2>3, CommandInv DEF ServicesInv, ServicesTypeOK
  <2>5. CustomKnown'
    <3>1. pc'[Boot] = "lock" /\ doing'[Boot] = <<"enable", Custom>>
      BY <2>3 DEF Asks
    <3>2. ASSUME NEW v \in Writer \ {Boot}, pc'[v] # "idle"
          PROVE  pc[v] # "idle" /\ doing'[v] = doing[v]
      BY <2>3, <3>2 DEF Others
    <3> QED
      BY <2>1, <2>2, <3>1, <3>2 DEF ServicesInv, CustomKnown
  <2> QED
    BY <2>4, <2>5 DEF ServicesInv
<1>5. CASE StartServices
  <2>1. /\ UNCHANGED <<vars, custom, hist>> /\ boot = "run" /\ boot' = "done"
        /\ pc[Boot] = "idle"
        /\ started' = Elems(Enabled) \cap
                      (Valid \ (IF custom = "service" THEN {} ELSE {Custom}))
    BY <1>5 DEF StartServices
  <2>2. started' \subseteq Name /\ Custom \in Valid
    BY <2>1 DEF ServicesAssumption
  <2>3. IInv' /\ ServicesTypeOK' /\ ListsAreGood' /\ OneAtATime' /\ SerialCommands'
    BY <1>1, <2>1, <2>2 DEF ServicesInv, ServicesTypeOK
  <2>4. custom = "service" /\ ~cut /\ ~overlap /\ ~off => Custom \in started'
    BY <2>1, <2>2 DEF ServicesInv, CustomKnown, SerialCommands
  <2>5. CustomKnown'
    BY <2>1, <2>4 DEF vars, hist, ServicesInv, CustomKnown
  <2> QED
    BY <2>3, <2>5 DEF ServicesInv
<1> QED
  BY <1>2, <1>3, <1>4, <1>5 DEF BootStep

LEMMA RestartInv == ASSUME ServicesAssumption, ServicesInv, Restart PROVE ServicesInv'
<1>1. /\ conf' \in durable /\ durable' = {conf'}
      /\ \A w \in Writer : pc'[w] = "idle" /\ ask'[w] = None
      /\ boot' = "migrate" /\ started' = {}
      /\ doing' = [w \in Writer |-> None]
      /\ wanted' = Elems(ListIn(conf'))
      /\ UNCHANGED <<custom, overlap, off>>
      /\ ~cut' /\ custom = "service" => Custom \in Elems(ListIn(conf'))
      /\ cut' \in BOOLEAN
  BY DEF Restart, PowerLoss
<1>2. [Next]_vars
  BY DEF Restart, Next
<1>3. IInv' /\ conf' # Garbage /\ Garbage \notin durable'
  BY <1>2, NextStep, GoodStep DEF ServicesInv, OneAtATime, Good
<1>4. GoodList(ListIn(conf'))
  BY <1>1 DEF ServicesInv, ListsAreGood
<1>5. wanted' \subseteq Name
  BY <1>1, <1>4 DEF ServicesAssumption, GoodList
<1>6. ServicesTypeOK'
  BY <1>1, <1>3, <1>5 DEF ServicesInv, ServicesTypeOK, IInv
<1>7. ListsAreGood'
  BY <1>1, <1>4 DEF ListsAreGood
<1>8. OneAtATime' /\ SerialCommands'
  BY <1>1, <1>3 DEF OneAtATime, SerialCommands, Enabled, ListIn, Setting, Elems
<1>9. CustomKnown'
  BY <1>1 DEF ServicesAssumption, CustomKnown
<1> QED
  BY <1>3, <1>6, <1>7, <1>8, <1>9 DEF ServicesInv

LEMMA ServicesStep ==
  ASSUME ServicesAssumption, ServicesInv, [ServicesNext]_serviceVars PROVE ServicesInv'
<1>1. CASE Writeback /\ UNCHANGED <<own, hist>>
  <2>1. IInv' /\ conf' = conf /\ durable' = {conf} /\ pc' = pc /\ ask' = ask
    BY <1>1, NextStep DEF Next, Writeback, Flushed, ServicesInv
  <2> USE <1>1, <2>1 DEF own, hist, ServicesInv
  <2>2. ServicesTypeOK' /\ CustomKnown'
    BY DEF ServicesTypeOK, IInv, CustomKnown
  <2>3. ListsAreGood' /\ SerialCommands'
    BY DEF ListsAreGood, SerialCommands, Enabled, ListIn, Setting
  <2>4. OneAtATime'
    BY DEF OneAtATime, Done, Elems
  <2> QED
    BY <2>2, <2>3, <2>4
<1>2. CASE UNCHANGED serviceVars
  <2>1. IInv'
    BY <1>2, NextStep DEF serviceVars, ServicesInv
  <2> USE <1>2, <2>1 DEF serviceVars, vars, store, own, hist, ServicesInv
  <2>2. ServicesTypeOK' /\ CustomKnown'
    BY DEF ServicesTypeOK, IInv, CustomKnown
  <2>3. ListsAreGood' /\ SerialCommands'
    BY DEF ListsAreGood, SerialCommands, Enabled, ListIn, Setting
  <2>4. OneAtATime'
    BY DEF OneAtATime, Done, Elems
  <2> QED
    BY <2>2, <2>3, <2>4
<1> QED
  BY <1>1, <1>2, SetInv, UserInv, BootInv, RestartInv DEF ServicesNext

(* The inductive invariant: the lists are good, one command at a time      *)
(* writes what it means, and custom.sh is in the list or on its way, for   *)
(* any services and any number of users (batocera-services do_enable and   *)
(* do_disable, S99userservices start).                                     *)
THEOREM ServicesInvariance ==
  ASSUME ServicesAssumption PROVE ServicesSpec => []ServicesInv
  BY ServicesStart, ServicesStep, PTL DEF ServicesSpec

(* The corollaries: what the runs check, for all constants.                *)

(* Types, and that a list do_enable or do_disable writes is one the setting *)
(* can hold.                                                               *)
THEOREM ServicesTyped ==
  ASSUME ServicesAssumption PROVE ServicesSpec => []ServicesTypeOK
  BY ServicesInvariance, PTL DEF ServicesInv

(* However commands interleave, are killed or cut off, no list in the      *)
(* file, on the disk or in a request names a service twice or names one    *)
(* that has no valid name (do_enable, do_disable, S99userservices).        *)
THEOREM GoodLists ==
  ASSUME ServicesAssumption PROVE ServicesSpec => []ListsAreGood
  BY ServicesInvariance, PTL DEF ServicesInv

(* Commands that do not overlap do what they say, through kills, failures  *)
(* and power cuts (batocera-services 79-128).                              *)
THEOREM Serial ==
  ASSUME ServicesAssumption PROVE ServicesSpec => []SerialCommands
  BY ServicesInvariance, PTL DEF ServicesInv

(* The user's custom.sh is started by every boot until the user disables   *)
(* it (S99userservices 48-54).                                             *)
THEOREM CustomStarts ==
  ASSUME ServicesAssumption PROVE ServicesSpec => []CustomStarted
<1>1. ServicesInv => CustomStarted
  BY DEF ServicesInv, CustomKnown, CustomStarted, CustomStillRuns
<1> QED
  BY <1>1, ServicesInvariance, PTL

-----------------------------------------------------------------------------
(* The commands are clients of batocera-settings-set.                      *)

LEMMA ClientStep == ASSUME ServicesAssumption, ServicesInv, [ServicesNext]_serviceVars PROVE [Next]_vars
<1>1. ASSUME NEW w \in Writer, SetStep(w) PROVE Next
  BY <1>1 DEF SetStep, Next
<1>2. ASSUME NEW w \in Writer, NEW s \in Name, UserCommand(w, s) PROVE Next
  BY <1>2, EnableMoves, DisableMoves DEF UserCommand, ServicesInv, Asks, Next
<1>3. CASE BootStep
  <2>1. Boot \in Writer
    BY DEF ServicesAssumption
  <2>2. EnableCustom => [Next]_vars
    BY <2>1, EnableMoves DEF EnableCustom, ServicesInv, Asks, Next
  <2> QED
    BY <1>3, <2>2 DEF BootStep, MoveCustom, StartServices
<1>4. CASE Restart
  BY <1>4 DEF Restart, Next
<1>5. CASE Writeback
  BY <1>5 DEF Next
<1>6. CASE UNCHANGED serviceVars
  BY <1>6 DEF serviceVars
<1> QED
  BY <1>1, <1>2, <1>3, <1>4, <1>5, <1>6 DEF ServicesNext

(* Every behaviour of the commands and of S99userservices is one of the    *)
(* store, so what is proved of it holds of the list of services: the file  *)
(* they read is the one batocera-settings-set replaces whole.              *)
THEOREM ServicesOnStore ==
  ASSUME ServicesAssumption PROVE ServicesSpec => Spec /\ StoreIsAtomic
<1>1. ServicesInit => Init
  BY DEF ServicesInit
<1>2. ServicesSpec => Spec
  BY <1>1, ClientStep, ServicesInvariance, PTL DEF ServicesSpec, Spec
<1> QED
  BY <1>2, Refinement, PTL
=============================================================================
