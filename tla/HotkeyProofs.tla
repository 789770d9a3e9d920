---------------------------- MODULE HotkeyProofs ----------------------------
(***************************************************************************)
(* For any devices, buttons, mappings and descriptors: a context that was  *)
(* written and signalled is the one in use, a device no listing raced for  *)
(* is read once, only one that was raced for takes the daemon with it, and *)
(* no key is stuck.  The first rests on who can be between the file and    *)
(* the signal, the next two on the order of udev's events: while a device  *)
(* has a descriptor, or is about to, the next event about it is that it    *)
(* leaves.  The last rests on the queues of the descriptors: a button that *)
(* is pressed but not held has its release in one.                         *)
(***************************************************************************)
EXTENDS HotkeyDaemon, FiniteSetTheorems, TLAPS

-----------------------------------------------------------------------------
(* Queues of events.                                                       *)

Events == {"add", "remove"} \X Device

LEMMA EmptyQueue ==
  ASSUME NEW d \in Device
  PROVE  /\ Alternates(<<>>, d) /\ LeavesFirst(<<>>, d) /\ LeavesLast(<<>>, d)
         /\ ~Leaves(<<>>, d)
BY DEF Alternates, LeavesFirst, LeavesLast, Leaves

(* What an event appended leaves true of every device.                     *)
LEMMA Appended ==
  ASSUME NEW q \in Seq(Events), NEW e \in Events, NEW d \in Device
  PROVE  /\ e # <<"add", d>> /\ Alternates(q, d) => Alternates(Append(q, e), d)
         /\ e # <<"add", d>> /\ LeavesLast(q, d) => LeavesLast(Append(q, e), d)
         /\ e # <<"add", d>> /\ LeavesFirst(q, d) => LeavesFirst(Append(q, e), d)
         /\ Leaves(q, d) => Leaves(Append(q, e), d)
<1> DEFINE r == Append(q, e)
           n == Len(q)
<1>1. /\ n \in Nat /\ Len(r) = n + 1 /\ r[n + 1] = e
      /\ \A i \in 1 .. n : r[i] = q[i]
  OBVIOUS
<1>2. \A i \in 1 .. Len(r) : i \in 1 .. n \/ i = n + 1
  BY <1>1
<1>3. 1 .. n \subseteq 1 .. Len(r)
  BY <1>1
<1> HIDE DEF r
<1>4. ASSUME e # <<"add", d>>, Alternates(q, d) PROVE Alternates(r, d)
  <2> SUFFICES ASSUME NEW i \in 1 .. Len(r), NEW j \in 1 .. Len(r), i < j,
                      r[i] = <<"add", d>>, r[j] = <<"add", d>>
               PROVE  \E k \in 1 .. Len(r) : i < k /\ k < j /\ r[k] = <<"remove", d>>
    BY DEF Alternates
  <2>1. /\ i \in 1 .. n /\ j \in 1 .. n
        /\ q[i] = <<"add", d>> /\ q[j] = <<"add", d>>
    BY <1>1, <1>2, <1>4
  <2>2. PICK k \in 1 .. n : i < k /\ k < j /\ q[k] = <<"remove", d>>
    BY <1>4, <2>1 DEF Alternates
  <2> QED
    BY <1>1, <1>3, <2>2
<1>5. ASSUME e # <<"add", d>>, LeavesLast(q, d) PROVE LeavesLast(r, d)
  BY <1>1, <1>2, <1>3, <1>5 DEF LeavesLast
<1>6. ASSUME e # <<"add", d>>, LeavesFirst(q, d) PROVE LeavesFirst(r, d)
  BY <1>1, <1>2, <1>3, <1>6 DEF LeavesFirst
<1>7. ASSUME Leaves(q, d) PROVE Leaves(r, d)
  BY <1>1, <1>3, <1>7 DEF Leaves
<1> QED
  BY <1>4, <1>5, <1>6, <1>7 DEF r

(* A device that comes, where the queue says that it has left.             *)
LEMMA Comes ==
  ASSUME NEW q \in Seq(Events), NEW d \in Device, Alternates(q, d), LeavesLast(q, d)
  PROVE  /\ Alternates(Append(q, <<"add", d>>), d)
         /\ LeavesFirst(q, d) /\ Leaves(q, d) => LeavesFirst(Append(q, <<"add", d>>), d)
<1> DEFINE r == Append(q, <<"add", d>>)
           n == Len(q)
<1>1. /\ n \in Nat /\ Len(r) = n + 1 /\ r[n + 1] = <<"add", d>>
      /\ \A i \in 1 .. n : r[i] = q[i]
  OBVIOUS
<1>2. \A i \in 1 .. Len(r) : i \in 1 .. n \/ i = n + 1
  BY <1>1
<1>3. /\ 1 .. n \subseteq 1 .. Len(r)
      /\ \A i \in 1 .. n : i < n + 1
  BY <1>1
<1> HIDE DEF r
<1>4. Alternates(r, d)
  <2> SUFFICES ASSUME NEW i \in 1 .. Len(r), NEW j \in 1 .. Len(r), i < j,
                      r[i] = <<"add", d>>, r[j] = <<"add", d>>
               PROVE  \E k \in 1 .. Len(r) : i < k /\ k < j /\ r[k] = <<"remove", d>>
    BY DEF Alternates
  <2>1. CASE j \in 1 .. n
    <3>1. i \in 1 .. n /\ q[i] = <<"add", d>> /\ q[j] = <<"add", d>>
      BY <1>1, <2>1
    <3>2. PICK k \in 1 .. n : i < k /\ k < j /\ q[k] = <<"remove", d>>
      BY <2>1, <3>1 DEF Alternates
    <3> QED
      BY <1>1, <1>3, <3>2
  <2>2. CASE j = n + 1
    <3>1. i \in 1 .. n /\ q[i] = <<"add", d>>
      BY <1>1, <2>2
    <3>2. PICK k \in 1 .. n : i < k /\ q[k] = <<"remove", d>>
      BY <3>1 DEF LeavesLast
    <3> QED
      BY <1>1, <1>3, <2>2, <3>2
  <2> QED
    BY <1>2, <2>1, <2>2
<1>5. ASSUME LeavesFirst(q, d), Leaves(q, d) PROVE LeavesFirst(r, d)
  <2> SUFFICES ASSUME NEW i \in 1 .. Len(r), r[i] = <<"add", d>>
               PROVE  \E k \in 1 .. Len(r) : k < i /\ r[k] = <<"remove", d>>
    BY DEF LeavesFirst
  <2>1. CASE i \in 1 .. n
    BY <1>1, <1>3, <1>5, <2>1 DEF LeavesFirst
  <2>2. CASE i = n + 1
    BY <1>1, <1>3, <1>5, <2>2 DEF Leaves
  <2> QED
    BY <1>2, <2>1, <2>2
<1> QED
  BY <1>4, <1>5 DEF r

(* A device that leaves.                                                   *)
LEMMA Goes ==
  ASSUME NEW q \in Seq(Events), NEW d \in Device
  PROVE  /\ LeavesLast(Append(q, <<"remove", d>>), d)
         /\ Leaves(Append(q, <<"remove", d>>), d)
<1> DEFINE r == Append(q, <<"remove", d>>)
           n == Len(q)
<1>1. /\ n \in Nat /\ Len(r) = n + 1 /\ r[n + 1] = <<"remove", d>>
  OBVIOUS
<1>2. /\ n + 1 \in 1 .. Len(r)
      /\ \A i \in 1 .. Len(r) : i < n + 1 \/ i = n + 1
      /\ <<"remove", d>> # <<"add", d>>
  BY <1>1
<1> HIDE DEF r
<1> QED
  BY <1>1, <1>2 DEF LeavesLast, Leaves, r

(* The next event is received.                                             *)
LEMMA Received ==
  ASSUME NEW q \in Seq(Events), q # <<>>, NEW d \in Device
  PROVE  /\ Head(q) \in Events /\ Tail(q) \in Seq(Events)
         /\ Alternates(q, d) => Alternates(Tail(q), d)
         /\ LeavesLast(q, d) => LeavesLast(Tail(q), d)
         /\ Head(q) # <<"remove", d>> /\ LeavesFirst(q, d) => LeavesFirst(Tail(q), d)
         /\ Head(q) # <<"remove", d>> /\ Leaves(q, d) => Leaves(Tail(q), d)
         /\ Head(q) = <<"add", d>> /\ Alternates(q, d) => LeavesFirst(Tail(q), d)
         /\ Head(q) = <<"add", d>> => ~LeavesFirst(q, d)
<1> DEFINE t == Tail(q)
           n == Len(q)
<1>1. /\ n \in Nat \ {0} /\ Len(t) = n - 1 /\ Head(q) = q[1]
      /\ Head(q) \in Events /\ t \in Seq(Events)
      /\ \A i \in 1 .. n - 1 : t[i] = q[i + 1]
  OBVIOUS
<1>2. /\ \A i \in 1 .. n - 1 : i + 1 \in 1 .. n /\ 1 < i + 1
      /\ \A i \in 1 .. n : i = 1 \/ (i - 1 \in 1 .. n - 1 /\ (i - 1) + 1 = i)
      /\ 1 \in 1 .. n
  BY <1>1
<1>3. \A i \in 1 .. n : i = 1 \/ t[i - 1] = q[i]
  BY <1>1, <1>2
<1> HIDE DEF t
<1>4. ASSUME Alternates(q, d) PROVE Alternates(t, d)
  <2> SUFFICES ASSUME NEW i \in 1 .. Len(t), NEW j \in 1 .. Len(t), i < j,
                      t[i] = <<"add", d>>, t[j] = <<"add", d>>
               PROVE  \E k \in 1 .. Len(t) : i < k /\ k < j /\ t[k] = <<"remove", d>>
    BY DEF Alternates
  <2>1. /\ i + 1 \in 1 .. n /\ j + 1 \in 1 .. n /\ i + 1 < j + 1
        /\ q[i + 1] = <<"add", d>> /\ q[j + 1] = <<"add", d>>
    BY <1>1, <1>2
  <2>2. PICK k \in 1 .. n : i + 1 < k /\ k < j + 1 /\ q[k] = <<"remove", d>>
    BY <1>4, <2>1 DEF Alternates
  <2>3. k - 1 \in 1 .. Len(t) /\ i < k - 1 /\ k - 1 < j /\ t[k - 1] = <<"remove", d>>
    BY <1>1, <1>2, <1>3, <2>2
  <2> QED
    BY <2>3
<1>5. ASSUME LeavesLast(q, d) PROVE LeavesLast(t, d)
  <2> SUFFICES ASSUME NEW i \in 1 .. Len(t), t[i] = <<"add", d>>
               PROVE  \E k \in 1 .. Len(t) : i < k /\ t[k] = <<"remove", d>>
    BY DEF LeavesLast
  <2>1. PICK k \in 1 .. n : i + 1 < k /\ q[k] = <<"remove", d>>
    BY <1>1, <1>2, <1>5 DEF LeavesLast
  <2>2. k - 1 \in 1 .. Len(t) /\ i < k - 1 /\ t[k - 1] = <<"remove", d>>
    BY <1>1, <1>2, <1>3, <2>1
  <2> QED
    BY <2>2
<1>6. ASSUME Head(q) # <<"remove", d>>, LeavesFirst(q, d) PROVE LeavesFirst(t, d)
  <2> SUFFICES ASSUME NEW i \in 1 .. Len(t), t[i] = <<"add", d>>
               PROVE  \E k \in 1 .. Len(t) : k < i /\ t[k] = <<"remove", d>>
    BY DEF LeavesFirst
  <2>1. PICK k \in 1 .. n : k < i + 1 /\ q[k] = <<"remove", d>>
    BY <1>1, <1>2, <1>6 DEF LeavesFirst
  <2>2. k # 1
    BY <1>1, <1>6, <2>1
  <2>3. k - 1 \in 1 .. Len(t) /\ k - 1 < i /\ t[k - 1] = <<"remove", d>>
    BY <1>1, <1>2, <1>3, <2>1, <2>2
  <2> QED
    BY <2>3
<1>7. ASSUME Head(q) # <<"remove", d>>, Leaves(q, d) PROVE Leaves(t, d)
  <2>1. PICK k \in 1 .. n : q[k] = <<"remove", d>>
    BY <1>7 DEF Leaves
  <2>2. k - 1 \in 1 .. Len(t) /\ t[k - 1] = <<"remove", d>>
    BY <1>1, <1>2, <1>3, <1>7, <2>1
  <2> QED
    BY <2>2 DEF Leaves
<1>8. ASSUME Head(q) = <<"add", d>>, Alternates(q, d) PROVE LeavesFirst(t, d)
  <2> SUFFICES ASSUME NEW i \in 1 .. Len(t), t[i] = <<"add", d>>
               PROVE  \E k \in 1 .. Len(t) : k < i /\ t[k] = <<"remove", d>>
    BY DEF LeavesFirst
  <2>1. PICK k \in 1 .. n : 1 < k /\ k < i + 1 /\ q[k] = <<"remove", d>>
    BY <1>1, <1>2, <1>8 DEF Alternates
  <2>2. k - 1 \in 1 .. Len(t) /\ k - 1 < i /\ t[k - 1] = <<"remove", d>>
    BY <1>1, <1>2, <1>3, <2>1
  <2> QED
    BY <2>2
<1>9. ASSUME Head(q) = <<"add", d>> PROVE ~LeavesFirst(q, d)
  BY <1>1, <1>2, <1>9 DEF LeavesFirst
<1> QED
  BY <1>1, <1>4, <1>5, <1>6, <1>7, <1>8, <1>9 DEF t

-----------------------------------------------------------------------------
(* Parts of the actions.                                                   *)

LEMMA Counted ==
  ASSUME used \in [Limits -> Nat], NEW limit \in Limits, NEW max, Count(limit, max)
  PROVE  used' \in [Limits -> Nat]
BY DEF Count

(* A daemon that starts, or has ended, has no devices.                     *)
LEMMA Emptied ==
  ASSUME Empty
  PROVE  /\ TableTyped' /\ TableKnown'
         /\ \A f \in Fd : fds'[f] = NoDevice
<1>1. fds' \in [Fd -> Device \cup {NoDevice}] /\ dead' \subseteq Fd
  BY DEF Empty
<1>2. byPath' \in [Device -> Fd \cup {NoFd}]
  BY DEF Empty
<1>3. queue' \in [Fd -> Seq(Button \X BOOLEAN)]
  BY DEF Empty
<1>4. pressed' \in [Fd -> SUBSET Button] /\ chords' \in [Fd -> SUBSET Mapping]
  BY DEF Empty
<1>5. TableKnown'
  BY DEF Empty, TableKnown
<1>6. \A f \in Fd : fds'[f] = NoDevice
  BY DEF Empty
<1> QED
  BY <1>1, <1>2, <1>3, <1>4, <1>5, <1>6 DEF TableTyped

(* A device that is opened has a descriptor nothing else has.              *)
LEMMA Added ==
  ASSUME TableTyped, TableKnown, NEW d \in Device, AddDevice(d)
  PROVE  /\ TableTyped' /\ TableKnown'
         /\ \E f \in Fd : /\ fds[f] = NoDevice /\ fds' = [fds EXCEPT ![f] = d]
                          /\ byPath' = [byPath EXCEPT ![d] = f]
<1> DEFINE f == CHOOSE g \in Free : TRUE
<1>1. f \in Fd /\ fds[f] = NoDevice
  BY DEF AddDevice, Free
<1>2. /\ fds' = [fds EXCEPT ![f] = d] /\ byPath' = [byPath EXCEPT ![d] = f]
      /\ queue' = [queue EXCEPT ![f] = <<>>] /\ dead' = dead \ {f}
      /\ pressed' = [pressed EXCEPT ![f] = {}] /\ chords' = [chords EXCEPT ![f] = {}]
  BY DEF AddDevice
<1> HIDE DEF f
<1>3. fds' \in [Fd -> Device \cup {NoDevice}] /\ byPath' \in [Device -> Fd \cup {NoFd}]
  BY <1>1, <1>2 DEF TableTyped
<1>4. queue' \in [Fd -> Seq(Button \X BOOLEAN)]
  BY <1>1, <1>2 DEF TableTyped
<1>5. /\ dead' \subseteq Fd /\ pressed' \in [Fd -> SUBSET Button]
      /\ chords' \in [Fd -> SUBSET Mapping]
  BY <1>2 DEF TableTyped
<1>6. TableKnown'
  BY <1>1, <1>2, HotkeyAssumption DEF TableTyped, TableKnown
<1> QED
  BY <1>1, <1>2, <1>3, <1>4, <1>5, <1>6 DEF TableTyped

(* A device whose descriptor is closed.                                    *)
LEMMA Closed ==
  ASSUME TableTyped, TableKnown, NEW d \in Device, NEW f \in Fd, fds[f] = d,
         Close(f, d)
  PROVE  TableTyped' /\ TableKnown'
<1>1. /\ fds' = [fds EXCEPT ![f] = NoDevice] /\ byPath' = [byPath EXCEPT ![d] = NoFd]
      /\ queue' = [queue EXCEPT ![f] = <<>>] /\ dead' = dead \ {f}
      /\ pressed' = [pressed EXCEPT ![f] = {}] /\ chords' = [chords EXCEPT ![f] = {}]
  BY DEF Close
<1>2. fds' \in [Fd -> Device \cup {NoDevice}] /\ byPath' \in [Device -> Fd \cup {NoFd}]
  BY <1>1 DEF TableTyped
<1>3. queue' \in [Fd -> Seq(Button \X BOOLEAN)]
  BY <1>1 DEF TableTyped
<1>4. /\ dead' \subseteq Fd /\ pressed' \in [Fd -> SUBSET Button]
      /\ chords' \in [Fd -> SUBSET Mapping]
  BY <1>1 DEF TableTyped
<1>5. TableKnown'
  BY <1>1 DEF TableTyped, TableKnown
<1> QED
  BY <1>2, <1>3, <1>4, <1>5 DEF TableTyped

LEMMA ClosedFd ==
  ASSUME TableTyped, TableKnown, NEW d \in Device, byPath[d] # NoFd, Close(byPath[d], d)
  PROVE  /\ byPath[d] \in Fd /\ fds[byPath[d]] = d
         /\ \A f \in Fd : fds'[f] = IF f = byPath[d] THEN NoDevice ELSE fds[f]
         /\ \A e \in Device : byPath'[e] = IF e = d THEN NoFd ELSE byPath[e]
BY DEF TableTyped, TableKnown, Close

(* What an event about one device leaves true of the others.               *)
LEMMA ReceivedTable ==
  ASSUME TableTyped, TableKnown, ReceiveDevice, Head(udev)[2] \in Device
  PROVE  /\ TableTyped' /\ TableKnown'
         /\ \A e \in Device \ {Head(udev)[2]} :
              byPath'[e] = byPath[e] /\ \A f \in Fd : fds'[f] = e <=> fds[f] = e
<1> DEFINE d == Head(udev)[2]
<1>1. CASE AddDevice(d)
  <2>1. PICK f \in Fd : /\ fds[f] = NoDevice /\ fds' = [fds EXCEPT ![f] = d]
                        /\ byPath' = [byPath EXCEPT ![d] = f]
    BY <1>1, Added
  <2>2. \A e \in Device \ {d} : \A g \in Fd : fds'[g] = e <=> fds[g] = e
    BY <2>1, HotkeyAssumption DEF TableTyped
  <2> QED
    BY <1>1, <2>1, <2>2, Added DEF TableTyped
<1>2. CASE byPath[d] # NoFd /\ Close(byPath[d], d)
  <2>1. TableTyped' /\ TableKnown'
    BY <1>2, ClosedFd, Closed
  <2> QED
    BY <1>2, <2>1, ClosedFd, HotkeyAssumption
<1>3. CASE UNCHANGED table
  BY <1>3 DEF table, TableTyped, TableKnown
<1> QED
  BY <1>1, <1>2, <1>3 DEF ReceiveDevice

(* What a descriptor that cannot be read leaves.                           *)
LEMMA FailedTable ==
  ASSUME TableTyped, TableKnown, NEW f \in Fd, ReadError(f)
  PROVE  /\ TableTyped' /\ TableKnown'
         /\ pc' # pc => \A g \in Fd : fds'[g] = NoDevice
<1>1. fds[f] \in Device
  BY DEF ReadError, TableTyped, TableKnown
<1>2. CASE Close(f, fds[f]) /\ UNCHANGED pc
  BY <1>1, <1>2, Closed
<1>3. CASE Die("key error")
  BY <1>3, Emptied DEF Die
<1> QED
  BY <1>2, <1>3 DEF ReadError

LEMMA Touched ==
  ASSUME TableTyped, NEW d \in Device, NEW b \in Button, NEW on \in BOOLEAN,
         Touch(d, b, on)
  PROVE  TableTyped'
<1>1. \A f \in Fd : Append(queue[f], <<b, on>>) \in Seq(Button \X BOOLEAN)
  BY DEF TableTyped
<1>2. queue' \in [Fd -> Seq(Button \X BOOLEAN)]
  BY <1>1 DEF Touch, TableTyped
<1> QED
  BY <1>2 DEF Touch, TableTyped

LEMMA KeysAreKeys ==
  ASSUME DaemonTyped, NEW ms \in SUBSET Mapping
  PROVE  KeysOf(ms) \subseteq Key
<1>1. \A a : Means(a) \in {Command} \cup SUBSET Key
  BY HotkeyAssumption DEF DaemonTyped, Means
<1> QED
  BY <1>1 DEF KeysOf

(* A daemon that has died has no devices, and one cause is a race.         *)
LEMMA Died ==
  ASSUME NEW why, why = "key error" => raced # {}, Die(why), UNCHANGED raced
  PROVE  OnceKnown' /\ SurvivesUnplug'
<1>1. \A d \in Device : \A f \in Fd : fds'[f] # d
  BY Emptied, HotkeyAssumption DEF Die
<1>2. ~Listens' /\ cause' = why
  BY DEF Die, Listens
<1> QED
  BY <1>1, <1>2 DEF OnceKnown, SurvivesUnplug

(* A signal leaves the devices alone, or the daemon with none.             *)
LEMMA SignalledOnce ==
  ASSUME OnceKnown, SurvivesUnplug, Signal, UNCHANGED <<there, raced>>
  PROVE  OnceKnown' /\ SurvivesUnplug'
<1>1. CASE Die("signal")
  BY <1>1, Died
<1>2. CASE UNCHANGED <<pc, todo, udev, table, cause>>
  BY <1>2 DEF table, OnceKnown, Expected, Listens, SurvivesUnplug
<1> QED
  BY <1>1, <1>2 DEF Signal

-----------------------------------------------------------------------------
(* Starting and the context.                                               *)

LEMMA StepReadContext == ASSUME IInv, ReadContext PROVE IInv'
<1>1. DaemonTyped'
  BY DEF ReadContext, GetContext, files, inputs, table, past, IInv, TypeOK,
       DaemonTyped, Running, Limits
<1>2. InputsTyped'
  BY DEF ReadContext, GetContext, files, inputs, table, past, IInv, TypeOK,
       InputsTyped
<1>3. TableTyped'
  BY DEF ReadContext, GetContext, files, inputs, table, past, IInv, TypeOK,
       TableTyped
<1>4. KeysTyped'
  BY DEF ReadContext, GetContext, files, inputs, table, past, IInv, TypeOK,
       KeysTyped
<1>5. PidKnown' /\ FileKnown' /\ InSync'
  BY DEF ReadContext, GetContext, files, inputs, table, past, IInv, PidKnown,
       FileKnown, InSync, Running
<1>6. TableKnown' /\ ListingKnown'
  BY DEF ReadContext, GetContext, files, inputs, table, past, IInv, TableKnown,
       ListingKnown, Listens
<1>7. EventsKnown'
  BY DEF ReadContext, GetContext, files, inputs, table, past, IInv, EventsKnown,
       Listens
<1>8. OnceKnown' /\ SurvivesUnplug'
  BY DEF ReadContext, GetContext, files, inputs, table, past, IInv, OnceKnown,
       Expected, Listens, SurvivesUnplug
<1> QED
  BY <1>1, <1>2, <1>3, <1>4, <1>5, <1>6, <1>7, <1>8 DEF IInv, TypeOK

LEMMA StepWritePid == ASSUME IInv, WritePid PROVE IInv'
<1>1. DaemonTyped'
  BY DEF WritePid, inputs, table, past, IInv, TypeOK, DaemonTyped, Running, Limits
<1>2. InputsTyped'
  BY DEF WritePid, inputs, table, past, IInv, TypeOK, InputsTyped
<1>3. TableTyped'
  BY DEF WritePid, inputs, table, past, IInv, TypeOK, TableTyped
<1>4. KeysTyped'
  BY DEF WritePid, inputs, table, past, IInv, TypeOK, KeysTyped
<1>5. PidKnown' /\ FileKnown' /\ InSync'
  BY DEF WritePid, inputs, table, past, IInv, PidKnown, FileKnown, InSync, Running
<1>6. TableKnown' /\ ListingKnown'
  BY DEF WritePid, inputs, table, past, IInv, TableKnown, ListingKnown, Listens
<1>7. EventsKnown'
  BY DEF WritePid, inputs, table, past, IInv, EventsKnown, Listens
<1>8. OnceKnown' /\ SurvivesUnplug'
  BY DEF WritePid, inputs, table, past, IInv, OnceKnown, Expected, Listens,
       SurvivesUnplug
<1> QED
  BY <1>1, <1>2, <1>3, <1>4, <1>5, <1>6, <1>7, <1>8 DEF IInv, TypeOK

LEMMA StepStartMonitor == ASSUME IInv, StartMonitor PROVE IInv'
<1>1. DaemonTyped'
  BY DEF StartMonitor, files, inputs, table, past, IInv, TypeOK, DaemonTyped,
       Running, Limits
<1>2. InputsTyped'
  BY DEF StartMonitor, files, inputs, table, past, IInv, TypeOK, InputsTyped
<1>3. TableTyped'
  BY DEF StartMonitor, files, inputs, table, past, IInv, TypeOK, TableTyped
<1>4. KeysTyped'
  BY DEF StartMonitor, files, inputs, table, past, IInv, TypeOK, KeysTyped
<1>5. PidKnown' /\ FileKnown' /\ InSync'
  BY DEF StartMonitor, files, inputs, table, past, IInv, PidKnown, FileKnown, InSync,
       Running
<1>6. TableKnown' /\ ListingKnown'
  BY DEF StartMonitor, files, inputs, table, past, IInv, TableKnown, ListingKnown,
       Listens
<1>7. EventsKnown'
  BY EmptyQueue DEF StartMonitor, files, inputs, table, past, IInv, EventsKnown,
       Listens, ListingKnown
<1>8. OnceKnown' /\ SurvivesUnplug'
  <2>1. \A d \in Device : ~Expected(d)'
    BY HotkeyAssumption DEF StartMonitor, files, inputs, table, IInv, ListingKnown,
         Expected
  <2> QED
    BY <2>1 DEF StartMonitor, files, inputs, table, past, IInv, OnceKnown, SurvivesUnplug
<1> QED
  BY <1>1, <1>2, <1>3, <1>4, <1>5, <1>6, <1>7, <1>8 DEF IInv, TypeOK

LEMMA StepHandleSighup == ASSUME IInv, HandleSighup PROVE IInv'
<1>1. DaemonTyped'
  BY DEF HandleSighup, GetContext, files, inputs, table, IInv, TypeOK, DaemonTyped,
       Running, Limits
<1>2. InputsTyped'
  BY DEF HandleSighup, GetContext, files, inputs, table, IInv, TypeOK, InputsTyped
<1>3. TableTyped'
  BY DEF HandleSighup, GetContext, files, inputs, table, IInv, TypeOK, TableTyped
<1>4. KeysTyped'
  BY DEF HandleSighup, GetContext, files, inputs, table, IInv, TypeOK, KeysTyped
<1>5. PidKnown' /\ FileKnown' /\ InSync'
  BY DEF HandleSighup, GetContext, files, inputs, table, IInv, PidKnown, FileKnown,
       InSync, Running
<1>6. TableKnown' /\ ListingKnown'
  BY DEF HandleSighup, GetContext, files, inputs, table, IInv, TableKnown,
       ListingKnown, Listens
<1>7. EventsKnown'
  BY DEF HandleSighup, GetContext, files, inputs, table, IInv, EventsKnown, Listens
<1>8. OnceKnown' /\ SurvivesUnplug'
  BY DEF HandleSighup, GetContext, files, inputs, table, IInv, OnceKnown, Expected,
       Listens, SurvivesUnplug
<1> QED
  BY <1>1, <1>2, <1>3, <1>4, <1>5, <1>6, <1>7, <1>8 DEF IInv, TypeOK

LEMMA StepEnsure == ASSUME IInv, Ensure PROVE IInv'
<1>1. DaemonTyped'
  BY Counted DEF Ensure, StartDaemon, files, past, Limits, IInv, TypeOK, DaemonTyped,
       Running
<1>2. InputsTyped'
  <2>1. /\ todo' \in {todo, {}} /\ udev' \in {udev, <<>>}
        /\ there' = there /\ held' = held
    BY DEF Ensure, StartDaemon, inputs
  <2>2. <<>> \in Seq({"add", "remove"} \X Device)
    OBVIOUS
  <2> QED
    BY <2>1, <2>2 DEF IInv, TypeOK, InputsTyped
<1>3. TableTyped'
  BY Emptied DEF Ensure, StartDaemon, table, IInv, TypeOK, TableTyped
<1>4. KeysTyped'
  BY DEF Ensure, Count, StartDaemon, files, inputs, table, past, Empty, IInv, TypeOK,
       KeysTyped
<1>5. PidKnown' /\ FileKnown' /\ InSync'
  BY DEF Ensure, Count, StartDaemon, files, inputs, table, past, Empty, IInv,
       PidKnown, FileKnown, InSync, Running
<1>6. TableKnown' /\ ListingKnown'
  BY Emptied DEF Ensure, StartDaemon, inputs, table, IInv, TableKnown, ListingKnown,
       Listens
<1>7. EventsKnown'
  BY DEF Ensure, Count, StartDaemon, files, inputs, table, past, Empty, IInv,
       EventsKnown, Listens
<1>8. OnceKnown' /\ SurvivesUnplug'
  <2>1. CASE StartDaemon
    <3>1. \A d \in Device \ raced' : \A f \in Fd : fds'[f] # d
      BY <2>1, Emptied, HotkeyAssumption DEF StartDaemon
    <3> QED
      BY <2>1, <3>1 DEF StartDaemon, OnceKnown, Listens, SurvivesUnplug
  <2>2. CASE ~StartDaemon
    <3>1. /\ UNCHANGED <<pc, todo, there, udev, raced, cause, fds, byPath>>
          /\ OnceKnown /\ SurvivesUnplug
      BY <2>2 DEF Ensure, inputs, table, past, IInv
    <3>2. \A d \in Device : Expected(d)' <=> Expected(d)
      BY <3>1 DEF Expected
    <3>3. OnceKnown'
      BY <3>1, <3>2 DEF OnceKnown, Listens
    <3> QED
      BY <3>1, <3>3 DEF SurvivesUnplug
  <2> QED
    BY <2>1, <2>2
<1> QED
  BY <1>1, <1>2, <1>3, <1>4, <1>5, <1>6, <1>7, <1>8 DEF IInv, TypeOK

LEMMA StepSaveContext == ASSUME IInv, SaveContext PROVE IInv'
<1>1. DaemonTyped'
  BY DEF SaveContext, inputs, table, past, IInv, TypeOK, DaemonTyped, Running,
       Limits
<1>2. InputsTyped'
  BY DEF SaveContext, inputs, table, past, IInv, TypeOK, InputsTyped
<1>3. TableTyped'
  BY DEF SaveContext, inputs, table, past, IInv, TypeOK, TableTyped
<1>4. KeysTyped'
  BY DEF SaveContext, inputs, table, past, IInv, TypeOK, KeysTyped
<1>5. PidKnown' /\ FileKnown' /\ InSync'
  BY DEF SaveContext, inputs, table, past, IInv, PidKnown, FileKnown, InSync,
       Running, Default, Game
<1>6. TableKnown' /\ ListingKnown'
  BY DEF SaveContext, inputs, table, past, IInv, TableKnown, ListingKnown, Listens
<1>7. EventsKnown'
  BY DEF SaveContext, inputs, table, past, IInv, EventsKnown, Listens
<1>8. OnceKnown' /\ SurvivesUnplug'
  BY DEF SaveContext, inputs, table, past, IInv, OnceKnown, Expected, Listens,
       SurvivesUnplug
<1> QED
  BY <1>1, <1>2, <1>3, <1>4, <1>5, <1>6, <1>7, <1>8 DEF IInv, TypeOK

LEMMA StepSignalContext == ASSUME IInv, SignalContext PROVE IInv'
<1>1. DaemonTyped'
  BY DEF SignalContext, Signal, files, Die, table, Empty, IInv, TypeOK, DaemonTyped,
       Running, Limits
<1>2. InputsTyped'
  BY DEF SignalContext, Signal, files, Die, table, Empty, IInv, TypeOK, InputsTyped
<1>3. TableTyped'
  BY Emptied DEF SignalContext, Signal, Die, table, IInv, TypeOK, TableTyped
<1>4. KeysTyped'
  BY DEF SignalContext, Signal, files, Die, table, Empty, IInv, TypeOK, KeysTyped
<1>5. PidKnown' /\ FileKnown' /\ InSync'
  BY DEF SignalContext, Signal, files, Die, table, Empty, IInv, PidKnown, FileKnown,
       InSync, Running
<1>6. TableKnown' /\ ListingKnown'
  BY Emptied DEF SignalContext, Signal, Die, table, IInv, TableKnown, ListingKnown,
       Listens
<1>7. EventsKnown'
  BY DEF SignalContext, Signal, files, Die, table, Empty, IInv, EventsKnown, Listens
<1>8. OnceKnown' /\ SurvivesUnplug'
  BY SignalledOnce DEF SignalContext, IInv, SurvivesUnplug
<1> QED
  BY <1>1, <1>2, <1>3, <1>4, <1>5, <1>6, <1>7, <1>8 DEF IInv, TypeOK

LEMMA StepReloadDevices == ASSUME IInv, ReloadDevices PROVE IInv'
<1>1. DaemonTyped'
  BY Counted DEF ReloadDevices, Signal, Die, files, Limits, IInv, TypeOK, DaemonTyped,
       Running
<1>2. InputsTyped'
  BY DEF ReloadDevices, Signal, Count, files, Die, table, Empty, IInv, TypeOK,
       InputsTyped
<1>3. TableTyped'
  BY Emptied DEF ReloadDevices, Signal, Die, table, IInv, TypeOK, TableTyped
<1>4. KeysTyped'
  BY DEF ReloadDevices, Signal, Count, files, Die, table, Empty, IInv, TypeOK,
       KeysTyped
<1>5. PidKnown' /\ FileKnown' /\ InSync'
  BY DEF ReloadDevices, Signal, Count, files, Die, table, Empty, IInv, PidKnown,
       FileKnown, InSync, Running
<1>6. TableKnown' /\ ListingKnown'
  BY Emptied DEF ReloadDevices, Signal, Die, table, IInv, TableKnown, ListingKnown,
       Listens
<1>7. EventsKnown'
  BY DEF ReloadDevices, Signal, Count, files, Die, table, Empty, IInv, EventsKnown,
       Listens
<1>8. OnceKnown' /\ SurvivesUnplug'
  BY SignalledOnce DEF ReloadDevices, IInv, SurvivesUnplug
<1> QED
  BY <1>1, <1>2, <1>3, <1>4, <1>5, <1>6, <1>7, <1>8 DEF IInv, TypeOK

-----------------------------------------------------------------------------
(* Buttons.                                                                *)

LEMMA StepReadEvent == ASSUME IInv, NEW f \in Fd, ReadEvent(f) PROVE IInv'
<1>1. DaemonTyped'
  BY DEF ReadEvent, NowPressed, NowChords, Event, KeysOf, Commands, Single, files,
       inputs, Means, IInv, TypeOK, DaemonTyped, Running, Limits
<1>2. InputsTyped'
  BY DEF ReadEvent, NowPressed, NowChords, Event, KeysOf, Commands, Single, files,
       inputs, Means, IInv, TypeOK, InputsTyped
<1>3. TableTyped'
  BY DEF ReadEvent, NowPressed, NowChords, Event, KeysOf, Commands, Single, files,
       inputs, Means, IInv, TypeOK, TableTyped
<1>4. KeysTyped'
  <2> DEFINE single == Single(Event(f)[1])
             begun == NowChords(f) \ chords[f]
             ended == chords[f] \ NowChords(f)
  <2>1. single \subseteq Mapping /\ begun \subseteq Mapping
    BY DEF Single, NowChords
  <2>2. KeysOf(single \cup begun) \subseteq Key
    BY <2>1, KeysAreKeys DEF IInv, TypeOK
  <2>3. down' \subseteq down \cup KeysOf(single \cup begun)
    BY DEF ReadEvent
  <2>4. ran' \subseteq Mapping /\ completed' \subseteq Mapping
    BY <2>1 DEF ReadEvent, Commands, IInv, TypeOK, KeysTyped
  <2> QED
    BY <2>2, <2>3, <2>4 DEF ReadEvent, IInv, TypeOK, KeysTyped
<1>5. PidKnown' /\ FileKnown' /\ InSync'
  BY DEF ReadEvent, NowPressed, NowChords, Event, KeysOf, Commands, Single, files,
       inputs, Means, IInv, PidKnown, FileKnown, InSync, Running
<1>6. TableKnown' /\ ListingKnown'
  BY DEF ReadEvent, NowPressed, NowChords, Event, KeysOf, Commands, Single, files,
       inputs, Means, IInv, TableKnown, ListingKnown, Listens
<1>7. EventsKnown'
  BY DEF ReadEvent, NowPressed, NowChords, Event, KeysOf, Commands, Single, files,
       inputs, Means, IInv, EventsKnown, Listens
<1>8. OnceKnown' /\ SurvivesUnplug'
  BY DEF ReadEvent, NowPressed, NowChords, Event, KeysOf, Commands, Single, files,
       inputs, Means, IInv, OnceKnown, Expected, Listens, SurvivesUnplug
<1> QED
  BY <1>1, <1>2, <1>3, <1>4, <1>5, <1>6, <1>7, <1>8 DEF IInv, TypeOK

LEMMA StepPress == ASSUME IInv, NEW d \in Device, NEW b \in Button, Press(d, b) PROVE IInv'
<1>1. DaemonTyped'
  BY DEF Press, Count, Touch, files, past, IInv, TypeOK, DaemonTyped, Running,
       Limits
<1>2. InputsTyped'
  BY DEF Press, Count, Touch, files, past, IInv, TypeOK, InputsTyped
<1>3. TableTyped'
  BY Touched DEF Press, IInv, TypeOK
<1>4. KeysTyped'
  BY DEF Press, Count, Touch, files, past, IInv, TypeOK, KeysTyped
<1>5. PidKnown' /\ FileKnown' /\ InSync'
  BY DEF Press, Count, Touch, files, past, IInv, PidKnown, FileKnown, InSync,
       Running
<1>6. TableKnown' /\ ListingKnown'
  BY DEF Press, Count, Touch, files, past, IInv, TableKnown, ListingKnown, Listens
<1>7. EventsKnown'
  BY DEF Press, Count, Touch, files, past, IInv, EventsKnown, Listens
<1>8. OnceKnown' /\ SurvivesUnplug'
  BY DEF Press, Count, Touch, files, past, IInv, OnceKnown, Expected, Listens,
       SurvivesUnplug
<1> QED
  BY <1>1, <1>2, <1>3, <1>4, <1>5, <1>6, <1>7, <1>8 DEF IInv, TypeOK

LEMMA StepRelease == ASSUME IInv, NEW d \in Device, NEW b \in Button, Release(d, b) PROVE IInv'
<1>1. DaemonTyped'
  BY DEF Release, Touch, files, past, IInv, TypeOK, DaemonTyped, Running, Limits
<1>2. InputsTyped'
  BY DEF Release, Touch, files, past, IInv, TypeOK, InputsTyped
<1>3. TableTyped'
  BY Touched DEF Release, IInv, TypeOK
<1>4. KeysTyped'
  BY DEF Release, Touch, files, past, IInv, TypeOK, KeysTyped
<1>5. PidKnown' /\ FileKnown' /\ InSync'
  BY DEF Release, Touch, files, past, IInv, PidKnown, FileKnown, InSync, Running
<1>6. TableKnown' /\ ListingKnown'
  BY DEF Release, Touch, files, past, IInv, TableKnown, ListingKnown, Listens
<1>7. EventsKnown'
  BY DEF Release, Touch, files, past, IInv, EventsKnown, Listens
<1>8. OnceKnown' /\ SurvivesUnplug'
  BY DEF Release, Touch, files, past, IInv, OnceKnown, Expected, Listens,
       SurvivesUnplug
<1> QED
  BY <1>1, <1>2, <1>3, <1>4, <1>5, <1>6, <1>7, <1>8 DEF IInv, TypeOK

LEMMA StepShowPanel == ASSUME IInv, ShowPanel PROVE IInv'
<1>1. DaemonTyped'
  BY DEF ShowPanel, Count, KeysOf, files, inputs, table, Means, IInv, TypeOK,
       DaemonTyped, Running, Limits
<1>2. InputsTyped'
  BY DEF ShowPanel, Count, KeysOf, files, inputs, table, Means, IInv, TypeOK,
       InputsTyped
<1>3. TableTyped'
  BY DEF ShowPanel, Count, KeysOf, files, inputs, table, Means, IInv, TypeOK,
       TableTyped
<1>4. KeysTyped'
  BY DEF ShowPanel, Count, KeysOf, files, inputs, table, Means, IInv, TypeOK,
       KeysTyped
<1>5. PidKnown' /\ FileKnown' /\ InSync'
  BY DEF ShowPanel, Count, KeysOf, files, inputs, table, Means, IInv, PidKnown,
       FileKnown, InSync, Running
<1>6. TableKnown' /\ ListingKnown'
  BY DEF ShowPanel, Count, KeysOf, files, inputs, table, Means, IInv, TableKnown,
       ListingKnown, Listens
<1>7. EventsKnown'
  BY DEF ShowPanel, Count, KeysOf, files, inputs, table, Means, IInv, EventsKnown,
       Listens
<1>8. OnceKnown' /\ SurvivesUnplug'
  BY DEF ShowPanel, Count, KeysOf, files, inputs, table, Means, IInv, OnceKnown,
       Expected, Listens, SurvivesUnplug
<1> QED
  BY <1>1, <1>2, <1>3, <1>4, <1>5, <1>6, <1>7, <1>8 DEF IInv, TypeOK

-----------------------------------------------------------------------------
(* Listings.                                                               *)

LEMMA StepList == ASSUME IInv, List PROVE IInv'
<1>1. DaemonTyped'
  BY DEF List, Announced, files, inputs, table, IInv, TypeOK, DaemonTyped, Running,
       Limits
<1>2. InputsTyped'
  BY DEF List, Announced, files, inputs, table, IInv, TypeOK, InputsTyped
<1>3. TableTyped'
  BY DEF List, Announced, files, inputs, table, IInv, TypeOK, TableTyped
<1>4. KeysTyped'
  BY DEF List, Announced, files, inputs, table, IInv, TypeOK, KeysTyped
<1>5. PidKnown' /\ FileKnown' /\ InSync'
  BY DEF List, Announced, files, inputs, table, IInv, PidKnown, FileKnown, InSync,
       Running
<1>6. TableKnown' /\ ListingKnown'
  BY DEF List, Announced, files, inputs, table, IInv, TableKnown, ListingKnown,
       Listens
<1>7. EventsKnown'
  BY DEF List, Announced, files, inputs, table, IInv, EventsKnown, Listens
<1>8. OnceKnown' /\ SurvivesUnplug'
  <2>1. \A d \in Device : \A f \in Fd : fds'[f] # d
    BY HotkeyAssumption DEF List, table, IInv, ListingKnown
  <2>2. \A d \in Device \ raced' : d \in todo' => LeavesFirst(udev', d) /\ d \in there'
    BY DEF List, inputs, Announced, LeavesFirst
  <2> QED
    BY <2>1, <2>2 DEF List, IInv, OnceKnown, Expected, SurvivesUnplug
<1> QED
  BY <1>1, <1>2, <1>3, <1>4, <1>5, <1>6, <1>7, <1>8 DEF IInv, TypeOK

LEMMA StepEndListing == ASSUME IInv, EndListing PROVE IInv'
<1>1. DaemonTyped'
  BY DEF EndListing, files, inputs, table, past, IInv, TypeOK, DaemonTyped, Running,
       Limits
<1>2. InputsTyped'
  BY DEF EndListing, files, inputs, table, past, IInv, TypeOK, InputsTyped
<1>3. TableTyped'
  BY DEF EndListing, files, inputs, table, past, IInv, TypeOK, TableTyped
<1>4. KeysTyped'
  BY DEF EndListing, files, inputs, table, past, IInv, TypeOK, KeysTyped
<1>5. PidKnown' /\ FileKnown' /\ InSync'
  BY DEF EndListing, files, inputs, table, past, IInv, PidKnown, FileKnown, InSync,
       Running
<1>6. TableKnown' /\ ListingKnown'
  BY DEF EndListing, files, inputs, table, past, IInv, TableKnown, ListingKnown,
       Listens
<1>7. EventsKnown'
  BY DEF EndListing, files, inputs, table, past, IInv, EventsKnown, Listens
<1>8. OnceKnown' /\ SurvivesUnplug'
  BY DEF EndListing, files, inputs, table, past, IInv, OnceKnown, Expected, Listens,
       SurvivesUnplug
<1> QED
  BY <1>1, <1>2, <1>3, <1>4, <1>5, <1>6, <1>7, <1>8 DEF IInv, TypeOK

LEMMA StepReload == ASSUME IInv, Reload PROVE IInv'
<1>1. DaemonTyped'
  BY DEF Reload, Announced, files, inputs, table, IInv, TypeOK, DaemonTyped, Running,
       Limits
<1>2. InputsTyped'
  BY DEF Reload, Announced, files, inputs, table, IInv, TypeOK, InputsTyped
<1>3. TableTyped'
  BY DEF Reload, Announced, files, inputs, table, IInv, TypeOK, TableTyped
<1>4. KeysTyped'
  BY DEF Reload, Announced, files, inputs, table, IInv, TypeOK, KeysTyped
<1>5. PidKnown' /\ FileKnown' /\ InSync'
  BY DEF Reload, Announced, files, inputs, table, IInv, PidKnown, FileKnown, InSync,
       Running
<1>6. TableKnown' /\ ListingKnown'
  BY DEF Reload, Announced, files, inputs, table, IInv, TableKnown, ListingKnown,
       Listens
<1>7. EventsKnown'
  BY DEF Reload, Announced, files, inputs, table, IInv, EventsKnown, Listens
<1>8. OnceKnown' /\ SurvivesUnplug'
  <2> SUFFICES ASSUME NEW d \in Device \ raced'
               PROVE  /\ \A f \in Fd : fds'[f] = d => byPath'[d] = f /\ d \notin todo'
                      /\ Expected(d)' => /\ LeavesFirst(udev', d)
                                         /\ d \in there' \/ Leaves(udev', d)
    BY DEF Reload, IInv, OnceKnown, SurvivesUnplug
  <2>1. /\ \A f \in Fd : fds[f] = d => byPath[d] = f
        /\ Expected(d) => LeavesFirst(udev, d) /\ (d \in there \/ Leaves(udev, d))
    BY DEF Reload, IInv, OnceKnown, Listens
  <2>2. d \in todo' => LeavesFirst(udev', d) /\ d \in there' /\ byPath'[d] = NoFd
    BY DEF Reload, inputs, table, Announced, LeavesFirst
  <2> QED
    BY <2>1, <2>2, HotkeyAssumption DEF Reload, inputs, table, Expected
<1> QED
  BY <1>1, <1>2, <1>3, <1>4, <1>5, <1>6, <1>7, <1>8 DEF IInv, TypeOK

LEMMA StepAddListed == ASSUME IInv, NEW d \in Device, AddListed(d) PROVE IInv'
<1>1. DaemonTyped'
  <2>1. DaemonTyped /\ UNCHANGED <<context, file, pid, used, panel, client, reconfig>>
    BY DEF AddListed, Die, files, IInv, TypeOK
  <2>2. (pc' = pc \/ pc' = "dead") /\ hup' \in BOOLEAN
    BY <2>1 DEF AddListed, Die, DaemonTyped
  <2>3. /\ pc \in Running \cup {"off", "dead"} /\ reconfig \in BOOLEAN
        /\ context \in {Default, Game, NoContext} /\ file \in {Default, Game, "torn"}
        /\ pid \in {"none", "empty", "pid"} /\ used \in [Limits -> Nat] /\ panel \in BOOLEAN
        /\ client \in {"idle", "new", "write", "signal", "playing", "unsignalled"}
    BY <2>1 DEF DaemonTyped
  <2>4. pc' \in Running \cup {"off", "dead"}
    BY <2>2, <2>3, Zenon
  <2> QED
    BY <2>1, <2>2, <2>3, <2>4, Zenon DEF DaemonTyped
<1>2. InputsTyped'
  BY DEF AddListed, Die, AddDevice, files, Empty, IInv, TypeOK, InputsTyped
<1>3. TableTyped'
  BY Added, Emptied DEF AddListed, Die, IInv, TypeOK
<1>4. KeysTyped'
  BY DEF AddListed, Die, AddDevice, files, Empty, IInv, TypeOK, KeysTyped
<1>5. PidKnown' /\ FileKnown' /\ InSync'
  BY DEF AddListed, Die, AddDevice, files, Empty, IInv, PidKnown, FileKnown, InSync,
       Running
<1>6. TableKnown' /\ ListingKnown'
  <2>1. TableKnown'
    BY Added, Emptied DEF AddListed, Die, IInv, TypeOK
  <2>2. ListingKnown'
    BY Emptied DEF AddListed, Die, IInv, ListingKnown
  <2> QED
    BY <2>1, <2>2
<1>7. EventsKnown'
  BY DEF AddListed, Die, AddDevice, files, Empty, IInv, EventsKnown, Listens
<1>8. OnceKnown' /\ SurvivesUnplug'
  <2>1. CASE \E why : why # "key error" /\ Die(why)
    BY <2>1, Died DEF AddListed
  <2>2. CASE AddDevice(d) /\ todo' = todo \ {d} /\ UNCHANGED <<pc, udev, cause>>
    <3>1. PICK f \in Fd : /\ fds[f] = NoDevice /\ fds' = [fds EXCEPT ![f] = d]
                          /\ byPath' = [byPath EXCEPT ![d] = f]
      BY <2>2, Added DEF IInv, TypeOK
    <3>2. /\ fds \in [Fd -> Device \cup {NoDevice}]
          /\ byPath \in [Device -> Fd \cup {NoFd}]
      BY DEF IInv, TypeOK, TableTyped
    <3>3. d \in todo /\ UNCHANGED <<there, raced>>
      BY DEF AddListed
    <3> SUFFICES ASSUME NEW e \in Device \ raced
                 PROVE  /\ \A g \in Fd : fds'[g] = e => byPath'[e] = g /\ e \notin todo'
                        /\ Listens' /\ Expected(e)' =>
                             LeavesFirst(udev', e) /\ (e \in there' \/ Leaves(udev', e))
      BY <2>2, <3>3 DEF IInv, OnceKnown, SurvivesUnplug
    <3>4. /\ \A g \in Fd : fds[g] = e => byPath[e] = g /\ e \notin todo
          /\ Listens /\ Expected(e) =>
               LeavesFirst(udev, e) /\ (e \in there \/ Leaves(udev, e))
      BY DEF IInv, OnceKnown
    <3>5. Listens' = Listens
      BY <2>2 DEF Listens
    <3>6. \A g \in Fd : fds'[g] = e <=> IF e = d THEN g = f ELSE fds[g] = e
      BY <3>1, <3>2, <3>3, <3>4, HotkeyAssumption
    <3> QED
      BY <2>2, <3>1, <3>2, <3>3, <3>4, <3>5, <3>6 DEF Expected
  <2> QED
    BY <2>1, <2>2 DEF AddListed
<1> QED
  BY <1>1, <1>2, <1>3, <1>4, <1>5, <1>6, <1>7, <1>8 DEF IInv, TypeOK

-----------------------------------------------------------------------------
(* Devices that come and go.                                               *)

LEMMA StepPlug == ASSUME IInv, NEW d \in Device, Plug(d) PROVE IInv'
<1>1. DaemonTyped'
  BY DEF Plug, Count, Announce, files, table, past, Listens, IInv, TypeOK,
       DaemonTyped, Running, Limits
<1>2. InputsTyped'
  BY DEF Plug, Count, Announce, files, table, past, Listens, IInv, TypeOK,
       InputsTyped
<1>3. TableTyped'
  BY DEF Plug, Count, Announce, files, table, past, Listens, IInv, TypeOK,
       TableTyped
<1>4. KeysTyped'
  BY DEF Plug, Count, Announce, files, table, past, Listens, IInv, TypeOK, KeysTyped
<1>5. PidKnown' /\ FileKnown' /\ InSync'
  BY DEF Plug, Count, Announce, files, table, past, Listens, IInv, PidKnown,
       FileKnown, InSync, Running
<1>6. TableKnown' /\ ListingKnown'
  BY DEF Plug, Count, Announce, files, table, past, Listens, IInv, TableKnown,
       ListingKnown
<1>7. EventsKnown'
  <2> SUFFICES ASSUME Listens, NEW e \in Device
               PROVE  /\ Alternates(udev', e)
                      /\ e \notin there' => LeavesLast(udev', e)
    BY DEF Plug, Listens, EventsKnown
  <2>1. udev' = Append(udev, <<"add", d>>) /\ there' = there \cup {d}
    BY DEF Plug, Announce
  <2>2. udev \in Seq(Events) /\ <<"add", d>> \in Events
    BY DEF IInv, TypeOK, InputsTyped, Events
  <2>3. Alternates(udev, e) /\ (e \notin there => LeavesLast(udev, e))
    BY DEF IInv, EventsKnown
  <2>4. CASE e = d
    BY <2>1, <2>2, <2>3, <2>4, Comes DEF Plug
  <2>5. CASE e # d
    BY <2>1, <2>2, <2>3, <2>5, Appended
  <2> QED
    BY <2>4, <2>5
<1>8. OnceKnown' /\ SurvivesUnplug'
  <2> SUFFICES ASSUME Listens, NEW e \in Device \ raced, Expected(e)
               PROVE  LeavesFirst(udev', e) /\ (e \in there' \/ Leaves(udev', e))
    BY DEF Plug, files, table, past, IInv, OnceKnown, Expected, Listens, SurvivesUnplug
  <2>1. udev' = Append(udev, <<"add", d>>) /\ there' = there \cup {d}
    BY DEF Plug, Announce
  <2>2. udev \in Seq(Events) /\ <<"add", d>> \in Events
    BY DEF IInv, TypeOK, InputsTyped, Events
  <2>3. LeavesFirst(udev, e) /\ (e \in there \/ Leaves(udev, e))
    BY DEF IInv, OnceKnown
  <2>4. CASE e = d
    <3>1. Alternates(udev, e) /\ LeavesLast(udev, e) /\ Leaves(udev, e)
      BY <2>3, <2>4 DEF Plug, IInv, EventsKnown
    <3> QED
      BY <2>1, <2>2, <2>3, <2>4, <3>1, Comes
  <2>5. CASE e # d
    BY <2>1, <2>2, <2>3, <2>5, Appended
  <2> QED
    BY <2>4, <2>5
<1> QED
  BY <1>1, <1>2, <1>3, <1>4, <1>5, <1>6, <1>7, <1>8 DEF IInv, TypeOK

LEMMA StepUnplug == ASSUME IInv, NEW d \in Device, Unplug(d) PROVE IInv'
<1>1. DaemonTyped'
  BY DEF Unplug, Count, Announce, files, past, Listens, IInv, TypeOK, DaemonTyped,
       Running, Limits
<1>2. InputsTyped'
  BY DEF Unplug, Count, Announce, files, past, Listens, IInv, TypeOK, InputsTyped
<1>3. TableTyped'
  BY DEF Unplug, Count, Announce, files, past, Listens, IInv, TypeOK, TableTyped
<1>4. KeysTyped'
  BY DEF Unplug, Count, Announce, files, past, Listens, IInv, TypeOK, KeysTyped
<1>5. PidKnown' /\ FileKnown' /\ InSync'
  BY DEF Unplug, Count, Announce, files, past, Listens, IInv, PidKnown, FileKnown,
       InSync, Running
<1>6. TableKnown' /\ ListingKnown'
  BY HotkeyAssumption DEF Unplug, Announce, Listens, IInv, TableKnown, ListingKnown
<1>7. EventsKnown'
  <2> SUFFICES ASSUME Listens, NEW e \in Device
               PROVE  /\ Alternates(udev', e)
                      /\ e \notin there' => LeavesLast(udev', e)
    BY DEF Unplug, Listens, EventsKnown
  <2>1. udev' = Append(udev, <<"remove", d>>) /\ there' = there \ {d}
    BY DEF Unplug, Announce
  <2>2. udev \in Seq(Events) /\ <<"remove", d>> \in Events /\ <<"remove", d>> # <<"add", e>>
    BY DEF IInv, TypeOK, InputsTyped, Events
  <2>3. Alternates(udev, e) /\ (e \notin there => LeavesLast(udev, e))
    BY DEF IInv, EventsKnown
  <2>4. Alternates(udev', e) /\ (LeavesLast(udev, e) => LeavesLast(udev', e))
    BY <2>1, <2>2, <2>3, Appended
  <2>5. LeavesLast(udev', d)
    BY <2>1, <2>2, Goes
  <2> QED
    BY <2>1, <2>3, <2>4, <2>5
<1>8. OnceKnown' /\ SurvivesUnplug'
  <2> SUFFICES ASSUME Listens, NEW e \in Device \ raced, Expected(e)
               PROVE  LeavesFirst(udev', e) /\ (e \in there' \/ Leaves(udev', e))
    BY DEF Unplug, files, past, IInv, OnceKnown, Expected, Listens, SurvivesUnplug
  <2>1. udev' = Append(udev, <<"remove", d>>) /\ there' = there \ {d}
    BY DEF Unplug, Announce
  <2>2. udev \in Seq(Events) /\ <<"remove", d>> \in Events /\ <<"remove", d>> # <<"add", e>>
    BY DEF IInv, TypeOK, InputsTyped, Events
  <2>3. LeavesFirst(udev, e) /\ (e \in there \/ Leaves(udev, e))
    BY DEF IInv, OnceKnown
  <2>4. LeavesFirst(udev', e) /\ (Leaves(udev, e) => Leaves(udev', e))
    BY <2>1, <2>2, <2>3, Appended
  <2>5. Leaves(udev', d)
    BY <2>1, <2>2, Goes
  <2> QED
    BY <2>1, <2>3, <2>4, <2>5
<1> QED
  BY <1>1, <1>2, <1>3, <1>4, <1>5, <1>6, <1>7, <1>8 DEF IInv, TypeOK

LEMMA StepReceiveDevice == ASSUME IInv, ReceiveDevice PROVE IInv'
<1>1. DaemonTyped'
  BY DEF ReceiveDevice, AddDevice, Close, files, table, IInv, TypeOK, DaemonTyped,
       Running, Limits
<1>2. InputsTyped'
  BY DEF ReceiveDevice, AddDevice, Close, files, table, IInv, TypeOK, InputsTyped
<1>3. TableTyped'
  <2> DEFINE d == Head(udev)[2]
  <2>1. d \in Device
    BY Received DEF ReceiveDevice, IInv, TypeOK, InputsTyped, Events
  <2> QED
    BY <2>1, ReceivedTable DEF IInv, TypeOK
<1>4. KeysTyped'
  BY DEF ReceiveDevice, AddDevice, Close, files, table, IInv, TypeOK, KeysTyped
<1>5. PidKnown' /\ FileKnown' /\ InSync'
  BY DEF ReceiveDevice, AddDevice, Close, files, table, IInv, PidKnown, FileKnown,
       InSync, Running
<1>6. TableKnown' /\ ListingKnown'
  <2>1. Head(udev)[2] \in Device
    BY Received DEF ReceiveDevice, IInv, TypeOK, InputsTyped, Events
  <2>2. TableKnown'
    BY <2>1, ReceivedTable DEF IInv, TypeOK
  <2>3. ListingKnown'
    BY DEF ReceiveDevice, IInv, ListingKnown
  <2> QED
    BY <2>2, <2>3
<1>7. EventsKnown'
  <2> SUFFICES ASSUME NEW e \in Device
               PROVE  /\ Alternates(udev', e)
                      /\ e \notin there' => LeavesLast(udev', e)
    BY DEF EventsKnown
  <2>1. udev \in Seq(Events) /\ udev # <<>> /\ udev' = Tail(udev) /\ there' = there
    BY DEF ReceiveDevice, IInv, TypeOK, InputsTyped, Events
  <2>2. Alternates(udev, e) /\ (e \notin there => LeavesLast(udev, e))
    BY DEF ReceiveDevice, IInv, EventsKnown, Listens
  <2> QED
    BY <2>1, <2>2, Received
<1>8. OnceKnown' /\ SurvivesUnplug'
  <2> DEFINE d == Head(udev)[2]
  <2> SUFFICES ASSUME NEW e \in Device \ raced
               PROVE  /\ \A f \in Fd : fds'[f] = e => byPath'[e] = f /\ e \notin todo'
                      /\ Expected(e)' =>
                           LeavesFirst(udev', e) /\ (e \in there' \/ Leaves(udev', e))
    BY DEF ReceiveDevice, IInv, OnceKnown, SurvivesUnplug
  <2>1. /\ udev \in Seq(Events) /\ udev # <<>> /\ udev' = Tail(udev)
        /\ todo' = {} /\ todo = {} /\ there' = there
    BY DEF ReceiveDevice, IInv, TypeOK, InputsTyped, ListingKnown, Events
  <2>2. /\ d \in Device /\ Head(udev) \in {<<"add", d>>, <<"remove", d>>}
    BY <2>1, Received DEF Events
  <2>3. /\ \A f \in Fd : fds[f] = e => byPath[e] = f
        /\ Expected(e) => LeavesFirst(udev, e) /\ (e \in there \/ Leaves(udev, e))
        /\ Alternates(udev, e)
    BY DEF ReceiveDevice, IInv, OnceKnown, EventsKnown, Listens
  <2>4. Expected(e)' <=> \E f \in Fd : fds'[f] = e
    BY <2>1 DEF Expected
  <2>5. CASE e # d
    <3>1. /\ \A f \in Fd : fds'[f] = e <=> fds[f] = e
          /\ byPath'[e] = byPath[e]
      BY <2>2, <2>5, ReceivedTable DEF IInv, TypeOK
    <3>2. Head(udev) # <<"remove", e>>
      BY <2>2, <2>5
    <3> QED
      BY <2>1, <2>3, <2>4, <3>1, <3>2, Received DEF Expected
  <2>6. CASE e = d /\ Head(udev) = <<"add", d>>
    <3>1. ~Expected(d)
      BY <2>1, <2>3, <2>6, Received
    <3>2. LeavesFirst(udev', d)
      BY <2>1, <2>3, <2>6, Received
    <3>3. CASE d \in there /\ AddDevice(d)
      <4>1. PICK f \in Fd : /\ fds' = [fds EXCEPT ![f] = d]
                            /\ byPath' = [byPath EXCEPT ![d] = f]
        BY <2>2, <3>3, Added DEF IInv, TypeOK
      <4>2. /\ fds \in [Fd -> Device \cup {NoDevice}]
            /\ byPath \in [Device -> Fd \cup {NoFd}]
        BY DEF IInv, TypeOK, TableTyped
      <4> QED
        BY <2>1, <2>2, <2>6, <3>1, <3>2, <3>3, <4>1, <4>2 DEF Expected
    <3>4. CASE UNCHANGED table
      BY <2>4, <2>6, <3>1, <3>4 DEF table, Expected
    <3> QED
      BY <2>6, <3>3, <3>4 DEF ReceiveDevice
  <2>7. CASE e = d /\ Head(udev) = <<"remove", d>>
    <3>1. \A f \in Fd : fds'[f] # d
      <4>1. CASE byPath[d] # NoFd /\ Close(byPath[d], d)
        BY <2>2, <2>3, <2>7, <4>1, ClosedFd, HotkeyAssumption DEF IInv, TypeOK
      <4>2. CASE byPath[d] = NoFd /\ UNCHANGED table
        BY <2>3, <2>7, <4>2, HotkeyAssumption DEF table
      <4> QED
        BY <2>7, <4>1, <4>2 DEF ReceiveDevice
    <3> QED
      BY <2>4, <2>7, <3>1
  <2> QED
    BY <2>2, <2>5, <2>6, <2>7
<1> QED
  BY <1>1, <1>2, <1>3, <1>4, <1>5, <1>6, <1>7, <1>8 DEF IInv, TypeOK

LEMMA StepReadError == ASSUME IInv, NEW f \in Fd, ReadError(f) PROVE IInv'
<1>1. DaemonTyped'
  BY DEF ReadError, Die, Close, files, Empty, IInv, TypeOK, DaemonTyped, Running,
       Limits
<1>2. InputsTyped'
  BY DEF ReadError, Die, Close, files, Empty, IInv, TypeOK, InputsTyped
<1>3. TableTyped'
  BY FailedTable DEF IInv, TypeOK
<1>4. KeysTyped'
  BY DEF ReadError, Die, Close, files, Empty, IInv, TypeOK, KeysTyped
<1>5. PidKnown' /\ FileKnown' /\ InSync'
  <2>1. /\ pc' = "dead" \/ (pc' = pc /\ hup' = hup)
        /\ pc = "loop"
        /\ UNCHANGED <<context, file, pid, client, missed>>
    BY DEF ReadError, Close, Die, files
  <2> QED
    BY <2>1 DEF IInv, PidKnown, FileKnown, InSync, Running
<1>6. TableKnown' /\ ListingKnown'
  <2>1. TableKnown' /\ (pc' # pc => \A g \in Fd : fds'[g] = NoDevice)
    BY FailedTable DEF IInv, TypeOK
  <2>2. pc = "loop" /\ pc' \in {"loop", "dead"} /\ UNCHANGED <<todo, udev>>
    BY DEF ReadError, Close, Die
  <2> QED
    BY <2>1, <2>2 DEF IInv, ListingKnown
<1>7. EventsKnown'
  BY DEF ReadError, Die, Close, files, Empty, IInv, EventsKnown, Listens
<1>8. OnceKnown' /\ SurvivesUnplug'
  <2> DEFINE d == fds[f]
  <2>1. d \in Device /\ UNCHANGED <<there, todo, raced, udev>> /\ pc = "loop"
    BY DEF ReadError, Die, IInv, TypeOK, TableTyped, TableKnown
  <2>2. CASE byPath[d] # NoFd /\ Close(f, d) /\ UNCHANGED <<pc, cause>>
    <3>1. /\ \A g \in Fd : fds'[g] = IF g = f THEN NoDevice ELSE fds[g]
          /\ \A e \in Device : byPath'[e] = IF e = d THEN NoFd ELSE byPath[e]
      BY <2>2 DEF Close, IInv, TypeOK, TableTyped
    <3>2. \A e \in Device \ raced : \A g \in Fd : fds'[g] = e => fds[g] = e /\ e # d
      BY <3>1, HotkeyAssumption DEF IInv, OnceKnown
    <3>3. \A e \in Device \ raced : Expected(e)' => Expected(e)
      BY <2>1, <3>2 DEF Expected
    <3>4. OnceKnown'
      BY <2>1, <2>2, <3>1, <3>2, <3>3 DEF IInv, OnceKnown, Listens
    <3> QED
      BY <2>1, <2>2, <3>4 DEF IInv, SurvivesUnplug
  <2>3. CASE byPath[d] = NoFd /\ Die("key error")
    <3>1. d \in raced
      BY <2>1, <2>3, HotkeyAssumption DEF IInv, OnceKnown
    <3> QED
      BY <2>1, <2>3, <3>1, Died
  <2> QED
    BY <2>2, <2>3 DEF ReadError
<1> QED
  BY <1>1, <1>2, <1>3, <1>4, <1>5, <1>6, <1>7, <1>8 DEF IInv, TypeOK

-----------------------------------------------------------------------------
(* The theorems.                                                           *)

LEMMA Initially == ASSUME Init PROVE IInv
<1>1. DaemonTyped
  BY DEF Init, DaemonTyped, Running, Limits
<1>2. InputsTyped
  BY DEF Init, InputsTyped
<1>3. TableTyped
  BY DEF Init, TableTyped
<1>4. KeysTyped
  BY DEF Init, KeysTyped
<1>5. PidKnown /\ FileKnown
  BY DEF Init, PidKnown, FileKnown, Default
<1>8. InSync
  BY DEF Init, InSync, Running
<1>6. TableKnown /\ ListingKnown /\ EventsKnown
  BY DEF Init, TableKnown, ListingKnown, EventsKnown, Listens
<1>7. OnceKnown /\ SurvivesUnplug
  BY HotkeyAssumption DEF Init, OnceKnown, Expected, SurvivesUnplug
<1> QED
  BY <1>1, <1>2, <1>3, <1>4, <1>5, <1>6, <1>7, <1>8 DEF IInv, TypeOK

LEMMA Stuttering == ASSUME IInv, UNCHANGED vars PROVE IInv'
<1> USE DEF vars, files, inputs, table, past, IInv
<1>1. TypeOK'
  <2>1. DaemonTyped'
    BY DEF TypeOK, DaemonTyped
  <2>2. InputsTyped'
    BY DEF TypeOK, InputsTyped
  <2>3. TableTyped'
    BY DEF TypeOK, TableTyped
  <2>4. KeysTyped'
    BY DEF TypeOK, KeysTyped
  <2> QED
    BY <2>1, <2>2, <2>3, <2>4 DEF TypeOK
<1>2. PidKnown' /\ FileKnown' /\ InSync'
  BY DEF PidKnown, FileKnown, InSync
<1>3. TableKnown' /\ ListingKnown' /\ EventsKnown'
  BY DEF TableKnown, ListingKnown, EventsKnown, Listens
<1>4. OnceKnown' /\ SurvivesUnplug'
  BY DEF OnceKnown, Expected, Listens, SurvivesUnplug
<1> QED
  BY <1>1, <1>2, <1>3, <1>4

LEMMA Stepping == ASSUME IInv, Next PROVE IInv'
<1>1. CASE Daemon
  BY <1>1, StepReadContext, StepWritePid, StepStartMonitor, StepList, StepEndListing,
     StepHandleSighup, StepReload, StepReceiveDevice, StepAddListed, StepReadError,
     StepReadEvent DEF Daemon
<1>2. CASE ShowPanel \/ Ensure \/ SaveContext \/ SignalContext \/ ReloadDevices
  BY <1>2, StepShowPanel, StepEnsure, StepSaveContext, StepSignalContext,
     StepReloadDevices
<1>3. CASE \E d \in Device : \/ Plug(d) \/ Unplug(d)
                            \/ \E b \in Button : Press(d, b) \/ Release(d, b)
  BY <1>3, StepPlug, StepUnplug, StepPress, StepRelease
<1> QED
  BY <1>1, <1>2, <1>3 DEF Next

(* The inductive invariant: who may be between the file and its signal,    *)
(* and what udev still has to say of every device that is read             *)
(* (Daemon.run, __handle_actions).                                         *)
THEOREM Invariance == Spec => []IInv
<1>1. IInv /\ [Next]_vars => IInv'
  BY Stepping, Stuttering
<1> QED
  BY <1>1, Initially, PTL DEF Spec

(* A context that was written and signalled is the one in use, whatever    *)
(* steps of the daemon the write and the signal fell between               *)
(* (__handle_sighup, save_context).                                        *)
THEOREM Fresh == Spec => []ContextFresh
<1>1. IInv => ContextFresh
  BY DEF IInv, InSync, ContextFresh, Running
<1> QED
  BY <1>1, Invariance, PTL

(* However devices are plugged and listed, one that no listing raced for   *)
(* has one descriptor (__handle_actions, __reload_devices_configs).        *)
THEOREM Once == Spec => []ReadOnce
<1>1. ASSUME IInv PROVE ReadOnce
  <2> SUFFICES ASSUME NEW d \in Device \ raced
               PROVE  Cardinality({f \in Fd \ dead : fds[f] = d}) <= 1
    BY DEF ReadOnce
  <2> DEFINE S == {f \in Fd \ dead : fds[f] = d}
  <2>1. S \subseteq {byPath[d]}
    BY <1>1 DEF IInv, OnceKnown
  <2>2. S = {} \/ S = {byPath[d]}
    BY <2>1
  <2>3. Cardinality({}) = 0 /\ Cardinality({byPath[d]}) = 1
    BY FS_EmptySet, FS_Singleton
  <2> HIDE DEF S
  <2>4. Cardinality(S) <= 1
    BY <2>2, <2>3
  <2> QED
    BY <2>4 DEF S
<1> QED
  BY <1>1, Invariance, PTL

(* The KeyError of a device that goes ends the daemon only where a listing *)
(* raced the word of it (the handler of ENODEV in __handle_events).        *)
THEOREM Surviving == Spec => []SurvivesUnplug
<1>1. IInv => SurvivesUnplug
  BY DEF IInv
<1> QED
  BY <1>1, Invariance, PTL

-----------------------------------------------------------------------------
(* No key is stuck.                                                        *)

LEMMA KeyOf ==
  ASSUME NEW k, NEW ms
  PROVE  k \in KeysOf(ms) <=> \E m \in ms : k \in KeysOf({m})
BY DEF KeysOf

LEMMA NothingPressed ==
  ASSUME NEW m \in Mapping PROVE ~(m.buttons \subseteq {})
BY HotkeyAssumption DEF HotkeyAssumption

LEMMA SameMeaning ==
  ASSUME UNCHANGED <<panel, context>>
  PROVE  \A ms : KeysOf(ms)' = KeysOf(ms)
<1>1. \A a : Means(a)' = Means(a)
  BY DEF Means
<1> QED
  BY <1>1 DEF KeysOf

(* Steps that leave the devices alone, and the keys and their meaning too. *)
LEMMA SamePressed ==
  ASSUME PressedKnown, UNCHANGED <<table, held>> PROVE PressedKnown'
<1> USE DEF table
<1>1. \A f \in Fd : Chorded(f)' = Chorded(f)
  BY DEF Chorded, IsChord
<1>2. \A f, b, i : WillRelease(f, b, i)' <=> WillRelease(f, b, i)
  BY DEF WillRelease
<1> QED
  BY <1>1, <1>2 DEF PressedKnown

LEMMA SameKeys ==
  ASSUME KeysKnown, PressedKnown, UNCHANGED <<table, held, down, panel, context>>,
         orphans' = orphans, pc' \in {"off", "dead", "boot"} => down = {}
  PROVE  KeysKnown' /\ PressedKnown'
<1>1. KeysKnown'
  BY SameMeaning DEF KeysKnown, table
<1>2. PressedKnown'
  BY SamePressed
<1> QED
  BY <1>1, <1>2

(* A daemon without devices.                                               *)
LEMMA NoKeys ==
  ASSUME Empty, down' = {} PROVE KeysKnown' /\ PressedKnown'
<1>1. KeysKnown'
  BY DEF KeysKnown
<1>2. PressedKnown'
  BY NothingPressed DEF Empty, PressedKnown, Chorded
<1> QED
  BY <1>1, <1>2

(* A descriptor that is opened or closed has nothing pressed.              *)
LEMMA FreshFd ==
  ASSUME TableTyped, PressedKnown, NEW f \in Fd, NEW d \in Device \cup {NoDevice},
         fds' = [fds EXCEPT ![f] = d], queue' = [queue EXCEPT ![f] = <<>>],
         dead' = dead \ {f}, pressed' = [pressed EXCEPT ![f] = {}],
         chords' = [chords EXCEPT ![f] = {}], UNCHANGED held
  PROVE  PressedKnown'
<1> SUFFICES ASSUME NEW g \in Fd
             PROVE  /\ chords'[g] = Chorded(g)'
                    /\ fds'[g] = NoDevice => pressed'[g] = {}
                    /\ fds'[g] # NoDevice /\ g \notin dead' =>
                         \A b \in Button \ held'[fds'[g]] :
                           /\ b \in pressed'[g] => WillRelease(g, b, 0)'
                           /\ \A i \in 1 .. Len(queue'[g]) :
                                queue'[g][i] = <<b, TRUE>> => WillRelease(g, b, i)'
  BY DEF PressedKnown
<1>1. CASE g = f
  <2>1. chords'[g] = {} /\ pressed'[g] = {} /\ queue'[g] = <<>>
    BY <1>1 DEF TableTyped
  <2>2. Chorded(g)' = {}
    BY <2>1, NothingPressed DEF Chorded
  <2>3. Len(queue'[g]) = 0
    BY <2>1
  <2>4. \A i \in 1 .. Len(queue'[g]) : FALSE
    BY <2>3
  <2> QED
    BY <2>1, <2>2, <2>4
<1>2. CASE g # f
  <2>1. /\ fds'[g] = fds[g] /\ queue'[g] = queue[g] /\ (g \in dead' <=> g \in dead)
        /\ pressed'[g] = pressed[g] /\ chords'[g] = chords[g] /\ held' = held
    BY <1>2 DEF TableTyped
  <2>2. Chorded(g)' = Chorded(g)
    BY <2>1 DEF Chorded, IsChord
  <2>3. \A b, i : WillRelease(g, b, i)' <=> WillRelease(g, b, i)
    BY <2>1 DEF WillRelease
  <2> QED
    BY <2>1, <2>2, <2>3 DEF PressedKnown
<1> QED
  BY <1>1, <1>2

LEMMA AddKeys ==
  ASSUME TableTyped, KeysKnown, PressedKnown, NEW d \in Device, AddDevice(d),
         UNCHANGED <<pc, held, down, panel, context, orphans>>
  PROVE  KeysKnown' /\ PressedKnown'
<1> DEFINE f == CHOOSE g \in Free : TRUE
<1>1. f \in Fd /\ fds[f] = NoDevice
  BY DEF AddDevice, Free
<1>2. /\ fds' = [fds EXCEPT ![f] = d]
      /\ queue' = [queue EXCEPT ![f] = <<>>] /\ dead' = dead \ {f}
      /\ pressed' = [pressed EXCEPT ![f] = {}] /\ chords' = [chords EXCEPT ![f] = {}]
  BY DEF AddDevice
<1> HIDE DEF f
<1>3. pressed' = pressed
  BY <1>1, <1>2 DEF PressedKnown, TableTyped
<1>4. KeysKnown'
  BY <1>3, SameMeaning DEF KeysKnown
<1>5. PressedKnown'
  BY <1>1, <1>2, FreshFd
<1> QED
  BY <1>4, <1>5

(* What was down for a descriptor that is closed is nobody's any more.     *)
LEMMA CloseKeys ==
  ASSUME TableTyped, KeysKnown, PressedKnown, NEW d \in Device, NEW f \in Fd,
         Close(f, d), UNCHANGED <<pc, held, down, panel, context>>
  PROVE  KeysKnown' /\ PressedKnown'
<1>1. /\ fds' = [fds EXCEPT ![f] = NoDevice]
      /\ queue' = [queue EXCEPT ![f] = <<>>] /\ dead' = dead \ {f}
      /\ pressed' = [pressed EXCEPT ![f] = {}] /\ chords' = [chords EXCEPT ![f] = {}]
      /\ orphans' = IF pressed[f] = {} THEN orphans ELSE orphans \cup down
  BY DEF Close
<1>2. CASE pressed[f] = {}
  <2>1. pressed' = pressed /\ orphans' = orphans
    BY <1>1, <1>2 DEF TableTyped
  <2>2. KeysKnown'
    BY <2>1, SameMeaning DEF KeysKnown
  <2> QED
    BY <1>1, <2>2, FreshFd
<1>3. CASE pressed[f] # {}
  <2>1. down' \subseteq orphans'
    BY <1>1, <1>3
  <2>2. KeysKnown'
    BY <2>1 DEF KeysKnown
  <2> QED
    BY <1>1, <2>2, FreshFd
<1> QED
  BY <1>2, <1>3

-----------------------------------------------------------------------------
(* Steps that press and release no key.                                    *)

LEMMA IdleKeys ==
  ASSUME KInv, \/ WritePid \/ StartMonitor \/ List \/ EndListing \/ Reload
               \/ SaveContext \/ UNCHANGED vars
  PROVE  KeysKnown' /\ PressedKnown'
<1>1. UNCHANGED <<table, held, down, panel, context, orphans>>
  BY DEF WritePid, StartMonitor, List, EndListing, Reload, SaveContext, vars, inputs,
       past
<1>2. pc' = pc \/ pc' \in {"write", "monitor", "list", "adding", "loop", "reload"}
  BY DEF WritePid, StartMonitor, List, EndListing, Reload, SaveContext, vars
<1> QED
  BY <1>1, <1>2, SameKeys DEF KInv, KeysKnown

LEMMA PlugKeys ==
  ASSUME KInv, NEW d \in Device, Plug(d) PROVE KeysKnown' /\ PressedKnown'
<1>1. UNCHANGED <<pc, table, held, down, panel, context, orphans>>
  BY DEF Plug, past
<1> QED
  BY <1>1, SameKeys DEF KInv, KeysKnown

LEMMA EnsureKeys == ASSUME KInv, Ensure PROVE KeysKnown' /\ PressedKnown'
<1>1. CASE StartDaemon
  BY <1>1, NoKeys DEF StartDaemon
<1>2. CASE ~StartDaemon
  <2>1. UNCHANGED <<pc, table, held, down, panel, context, orphans>>
    BY <1>2 DEF Ensure, inputs, past
  <2> QED
    BY <2>1, SameKeys DEF KInv, KeysKnown
<1> QED
  BY <1>1, <1>2

LEMMA SignalKeys ==
  ASSUME KInv, SignalContext \/ ReloadDevices PROVE KeysKnown' /\ PressedKnown'
<1>1. Signal /\ UNCHANGED <<held, panel, context, orphans>>
  BY DEF SignalContext, ReloadDevices
<1>2. CASE Die("signal")
  BY <1>2, NoKeys DEF Die
<1>3. CASE UNCHANGED <<pc, table, down>>
  BY <1>1, <1>3, SameKeys DEF KInv, KeysKnown
<1> QED
  BY <1>1, <1>2, <1>3 DEF Signal

(* The context is read with no key down, or whatever is down is nobody's.  *)
LEMMA ContextKeys ==
  ASSUME KInv, ReadContext \/ HandleSighup PROVE KeysKnown' /\ PressedKnown'
<1>1. UNCHANGED <<table, held, down, panel>> /\ pc' \notin {"off", "dead", "boot"}
  BY DEF ReadContext, HandleSighup, inputs
<1>2. PressedKnown'
  BY <1>1, SamePressed DEF KInv
<1>3. down = {} \/ down' \subseteq orphans' \/ UNCHANGED <<context, orphans>>
  BY <1>1 DEF ReadContext, HandleSighup, KInv, KeysKnown
<1>4. CASE down = {} \/ down' \subseteq orphans'
  BY <1>1, <1>2, <1>4 DEF KeysKnown
<1>5. CASE UNCHANGED <<context, orphans>>
  BY <1>1, <1>5, SameKeys DEF KInv
<1> QED
  BY <1>3, <1>4, <1>5

LEMMA AddListedKeys ==
  ASSUME KInv, NEW d \in Device, AddListed(d) PROVE KeysKnown' /\ PressedKnown'
<1>1. CASE Die("vanished")
  BY <1>1, NoKeys DEF Die
<1>2. CASE AddDevice(d) /\ UNCHANGED <<pc, down>>
  BY <1>2, AddKeys DEF AddListed, KInv, IInv, TypeOK
<1> QED
  BY <1>1, <1>2 DEF AddListed

LEMMA ReceiveKeys == ASSUME KInv, ReceiveDevice PROVE KeysKnown' /\ PressedKnown'
<1> DEFINE d == Head(udev)[2]
<1>1. d \in Device
  <2>1. udev \in Seq(Events) /\ udev # <<>>
    BY DEF ReceiveDevice, KInv, IInv, TypeOK, InputsTyped, Events
  <2>2. Head(udev) \in Events
    BY <2>1
  <2> QED
    BY <2>2 DEF Events
<1>2. UNCHANGED <<pc, held, down, panel, context>>
  BY DEF ReceiveDevice
<1>3. CASE AddDevice(d) /\ UNCHANGED orphans
  BY <1>1, <1>2, <1>3, AddKeys DEF KInv, IInv, TypeOK
<1>4. CASE byPath[d] # NoFd /\ Close(byPath[d], d)
  BY <1>1, <1>2, <1>4, CloseKeys, ClosedFd DEF KInv, IInv, TypeOK
<1>5. CASE UNCHANGED <<table, orphans>>
  BY <1>2, <1>5, SameKeys DEF KInv, KeysKnown
<1> QED
  BY <1>3, <1>4, <1>5 DEF ReceiveDevice

LEMMA ErrorKeys ==
  ASSUME KInv, NEW f \in Fd, ReadError(f) PROVE KeysKnown' /\ PressedKnown'
<1>1. fds[f] \in Device
  BY DEF ReadError, KInv, IInv, TypeOK, TableTyped, TableKnown
<1>2. CASE Die("key error")
  BY <1>2, NoKeys DEF Die
<1>3. CASE Close(f, fds[f]) /\ UNCHANGED <<pc, down>>
  BY <1>1, <1>3, CloseKeys DEF ReadError, KInv, IInv, TypeOK
<1> QED
  BY <1>2, <1>3 DEF ReadError

(* A key of the exit that is down when the panel changes is nobody's.      *)
LEMMA PanelKeys == ASSUME KInv, ShowPanel PROVE KeysKnown' /\ PressedKnown'
<1>1. /\ UNCHANGED <<pc, table, held, down, context>> /\ orphans \subseteq orphans'
      /\ \A m \in Mapping : m.action = Exit => down \cap KeysOf({m}) \subseteq orphans'
  BY DEF ShowPanel, inputs
<1>2. PressedKnown'
  BY <1>1, SamePressed DEF KInv
<1>3. \A a : Means(a)' = Means(a)
  BY <1>1 DEF Means
<1>4. \A m \in Mapping : m.action # Exit => KeysOf({m})' = KeysOf({m})
  BY <1>3 DEF KeysOf
<1>5. ASSUME NEW k \in down' \ orphans'
      PROVE  \E f \in Fd, m \in Mapping : k \in KeysOf({m})' /\ m.buttons \subseteq pressed'[f]
  <2>1. PICK f \in Fd, m \in Mapping : k \in KeysOf({m}) /\ m.buttons \subseteq pressed[f]
    BY <1>1, <1>5 DEF KInv, KeysKnown
  <2>2. m.action # Exit
    BY <1>1, <1>5, <2>1
  <2> QED
    BY <1>1, <1>4, <2>1, <2>2 DEF table
<1>6. KeysKnown'
  BY <1>1, <1>5 DEF KInv, KeysKnown
<1> QED
  BY <1>2, <1>6

-----------------------------------------------------------------------------
(* Buttons.                                                                *)

(* What is read from a device that is unplugged is an error from here on.  *)
LEMMA UnplugKeys ==
  ASSUME KInv, NEW d \in Device, Unplug(d) PROVE KeysKnown' /\ PressedKnown'
<1>1. /\ UNCHANGED <<pc, context, fds, queue, pressed, chords, down, panel, orphans>>
      /\ held' = [held EXCEPT ![d] = {}]
      /\ dead' = dead \cup {f \in Fd : fds[f] = d}
  BY DEF Unplug, past
<1>2. KeysKnown'
  BY <1>1, SameMeaning DEF KInv, KeysKnown
<1>3. \A f \in Fd : Chorded(f)' = Chorded(f)
  BY <1>1 DEF Chorded, IsChord
<1>4. \A f, b, i : WillRelease(f, b, i)' <=> WillRelease(f, b, i)
  BY <1>1 DEF WillRelease
<1>5. \A f \in Fd : fds[f] # NoDevice /\ f \notin dead' =>
        f \notin dead /\ held'[fds[f]] = held[fds[f]]
  BY <1>1 DEF KInv, IInv, TypeOK, TableTyped, InputsTyped
<1>6. PressedKnown'
  BY <1>1, <1>3, <1>4, <1>5 DEF KInv, PressedKnown
<1> QED
  BY <1>2, <1>6

(* An event is the last to be read; what was to be released still is.      *)
LEMMA TouchedQueue ==
  ASSUME TableTyped, NEW d \in Device, NEW b \in Button, NEW on \in BOOLEAN,
         Touch(d, b, on), NEW f \in Fd
  PROVE  /\ \A c, i : WillRelease(f, c, i) => WillRelease(f, c, i)'
         /\ fds[f] # d \/ f \in dead => queue'[f] = queue[f]
         /\ fds[f] = d /\ f \notin dead =>
              /\ Len(queue[f]) \in Nat /\ Len(queue'[f]) = Len(queue[f]) + 1
              /\ queue'[f][Len(queue[f]) + 1] = <<b, on>>
              /\ \A i \in 1 .. Len(queue[f]) : queue'[f][i] = queue[f][i]
<1>1. /\ queue[f] \in Seq(Button \X BOOLEAN)
      /\ queue'[f] = IF fds[f] = d /\ f \notin dead
                       THEN Append(queue[f], <<b, on>>) ELSE queue[f]
  BY DEF TableTyped, Touch
<1>2. CASE fds[f] # d \/ f \in dead
  <2>1. queue'[f] = queue[f]
    BY <1>1, <1>2
  <2> QED
    BY <1>2, <2>1 DEF WillRelease
<1>3. CASE fds[f] = d /\ f \notin dead
  <2>1. /\ Len(queue[f]) \in Nat /\ Len(queue'[f]) = Len(queue[f]) + 1
        /\ queue'[f][Len(queue[f]) + 1] = <<b, on>>
        /\ \A i \in 1 .. Len(queue[f]) : queue'[f][i] = queue[f][i]
    BY <1>1, <1>3
  <2>2. 1 .. Len(queue[f]) \subseteq 1 .. Len(queue'[f])
    BY <2>1
  <2>3. \A c, i : WillRelease(f, c, i) => WillRelease(f, c, i)'
    BY <2>1, <2>2 DEF WillRelease
  <2> QED
    BY <1>3, <2>1, <2>3
<1> QED
  BY <1>2, <1>3

LEMMA TouchKeys ==
  ASSUME KInv, NEW d \in Device, NEW b \in Button, Press(d, b) \/ Release(d, b)
  PROVE  KeysKnown' /\ PressedKnown'
<1>1. PICK on \in BOOLEAN :
        /\ Touch(d, b, on)
        /\ held' = [held EXCEPT ![d] = IF on THEN @ \cup {b} ELSE @ \ {b}]
  BY DEF Press, Release
<1>2. UNCHANGED <<pc, context, fds, dead, pressed, chords, down, panel, orphans>>
  BY <1>1 DEF Touch, past
<1>3. KeysKnown'
  BY <1>2, SameMeaning DEF KInv, KeysKnown
<1>4. \A f \in Fd : Chorded(f)' = Chorded(f)
  BY <1>2 DEF Chorded, IsChord
<1>5. /\ held \in [Device -> SUBSET Button] /\ fds \in [Fd -> Device \cup {NoDevice}]
      /\ pressed \in [Fd -> SUBSET Button] /\ TableTyped
  BY DEF KInv, IInv, TypeOK, TableTyped, InputsTyped
<1>6. ASSUME NEW f \in Fd, fds[f] # NoDevice, f \notin dead,
             NEW c \in Button \ held'[fds[f]]
      PROVE  /\ c \in pressed[f] => WillRelease(f, c, 0)'
             /\ \A i \in 1 .. Len(queue'[f]) :
                  queue'[f][i] = <<c, TRUE>> => WillRelease(f, c, i)'
  <2>1. fds[f] \in Device
    BY <1>5, <1>6
  <2>2. c \notin held[fds[f]] =>
          /\ c \in pressed[f] => WillRelease(f, c, 0)
          /\ \A i \in 1 .. Len(queue[f]) :
               queue[f][i] = <<c, TRUE>> => WillRelease(f, c, i)
    BY <1>6 DEF KInv, PressedKnown
  <2>3. \A i : WillRelease(f, c, i) => WillRelease(f, c, i)'
    BY <1>1, <1>5, TouchedQueue
  <2>4. CASE fds[f] # d
    <3>1. held'[fds[f]] = held[fds[f]]
      BY <1>1, <1>5, <2>1, <2>4
    <3>2. queue'[f] = queue[f]
      BY <1>1, <1>5, <2>4, TouchedQueue
    <3> QED
      BY <1>6, <2>2, <2>3, <3>1, <3>2
  <2>5. CASE fds[f] = d
    <3> DEFINE n == Len(queue[f])
    <3>1. /\ n \in Nat /\ Len(queue'[f]) = n + 1
          /\ queue'[f][n + 1] = <<b, on>>
          /\ \A i \in 1 .. n : queue'[f][i] = queue[f][i]
      BY <1>1, <1>5, <1>6, <2>5, TouchedQueue
    <3>2. \A i \in 1 .. Len(queue'[f]) : i \in 1 .. n \/ i = n + 1
      BY <3>1
    <3>3. held'[d] = IF on THEN held[d] \cup {b} ELSE held[d] \ {b}
      BY <1>1, <1>5
    <3> HIDE DEF n
    <3>4. CASE c = b
      <4>1. on = FALSE
        BY <1>6, <2>5, <3>3, <3>4
      <4>2. /\ n + 1 \in 1 .. Len(queue'[f]) /\ 0 < n + 1
            /\ \A i \in 1 .. n : i < n + 1
        BY <3>1
      <4>3. \A i \in {0} \cup 1 .. n : WillRelease(f, c, i)'
        BY <3>1, <3>4, <4>1, <4>2 DEF WillRelease
      <4>4. queue'[f][n + 1] # <<c, TRUE>>
        <5>1. <<b, FALSE>> # <<c, TRUE>>
          OBVIOUS
        <5> QED
          BY <3>1, <4>1, <5>1
      <4> QED
        BY <3>2, <4>3, <4>4
    <3>5. CASE c # b
      <4>1. c \notin held[fds[f]]
        BY <1>6, <2>5, <3>3, <3>5
      <4>2. queue'[f][n + 1] # <<c, TRUE>>
        BY <3>1, <3>5, <<b, on>>[1] = b, <<c, TRUE>>[1] = c
      <4> QED
        BY <2>2, <2>3, <3>1, <3>2, <4>1, <4>2 DEF n
    <3> QED
      BY <3>4, <3>5
  <2> QED
    BY <2>4, <2>5
<1>7. PressedKnown'
  BY <1>2, <1>4, <1>6 DEF KInv, PressedKnown
<1> QED
  BY <1>3, <1>7

(* What one button alone stands for is no chord.                           *)
LEMMA OneButton ==
  ASSUME NEW m \in Mapping, ~IsChord(m), NEW b \in m.buttons
  PROVE  m \in Single(b)
<1> DEFINE S == m.buttons
<1>1. IsFiniteSet(S)
  BY HotkeyAssumption
<1>2. /\ Cardinality(S) \in Nat /\ IsFiniteSet(S \ {b})
      /\ Cardinality(S \ {b}) = Cardinality(S) - 1
      /\ Cardinality(S \ {b}) \in Nat
  BY <1>1, FS_CardinalityType, FS_RemoveElement
<1>3. Cardinality(S \ {b}) = 0
  BY <1>2 DEF IsChord
<1>4. S \ {b} = {}
  BY <1>2, <1>3, FS_EmptySet
<1> QED
  BY <1>4 DEF Single

(* The event is the first of those that were to be read.                   *)
LEMMA ReadPressed ==
  ASSUME KInv, NEW f \in Fd, ReadEvent(f) PROVE PressedKnown'
<1> DEFINE q == queue[f]
           t == queue'[f]
<1>1. /\ UNCHANGED <<held, fds, dead>> /\ fds[f] # NoDevice /\ f \notin dead
      /\ queue' = [queue EXCEPT ![f] = Tail(@)]
      /\ pressed' = [pressed EXCEPT ![f] = NowPressed(f)]
      /\ chords' = [chords EXCEPT ![f] = NowChords(f)]
      /\ q # <<>>
  BY DEF ReadEvent, inputs
<1>2. /\ queue \in [Fd -> Seq(Button \X BOOLEAN)] /\ chords \in [Fd -> SUBSET Mapping]
      /\ pressed \in [Fd -> SUBSET Button] /\ q \in Seq(Button \X BOOLEAN)
  BY DEF KInv, IInv, TypeOK, TableTyped
<1>3. /\ t = Tail(q) /\ pressed'[f] = NowPressed(f) /\ chords'[f] = NowChords(f)
      /\ \A g \in Fd \ {f} : /\ queue'[g] = queue[g] /\ pressed'[g] = pressed[g]
                            /\ chords'[g] = chords[g]
  BY <1>1, <1>2
<1>4. /\ Len(q) \in Nat \ {0} /\ Len(t) = Len(q) - 1 /\ Event(f) = q[1]
      /\ \A i \in 1 .. Len(t) : i + 1 \in 1 .. Len(q) /\ t[i] = q[i + 1]
  BY <1>1, <1>2, <1>3 DEF Event
<1> HIDE DEF q, t
(* A release that is not the event itself is still to be read.             *)
<1>5. ASSUME NEW c, NEW i \in Nat, \E j \in 1 .. Len(q) : i + 1 < j /\ q[j] = <<c, FALSE>>
      PROVE  WillRelease(f, c, i)'
  <2>1. PICK j \in 1 .. Len(q) : i + 1 < j /\ q[j] = <<c, FALSE>>
    BY <1>5
  <2>2. j - 1 \in 1 .. Len(t) /\ i < j - 1 /\ (j - 1) + 1 = j
    BY <1>4, <2>1
  <2>3. t[j - 1] = <<c, FALSE>>
    BY <1>4, <2>1, <2>2
  <2> QED
    BY <2>2, <2>3 DEF WillRelease, t
<1>6. ASSUME NEW c \in Button \ held[fds[f]]
      PROVE  /\ c \in pressed'[f] => WillRelease(f, c, 0)'
             /\ \A i \in 1 .. Len(t) : t[i] = <<c, TRUE>> => WillRelease(f, c, i)'
  <2>1. /\ c \in pressed[f] => WillRelease(f, c, 0)
        /\ \A i \in 1 .. Len(q) : q[i] = <<c, TRUE>> => WillRelease(f, c, i)
    BY <1>1, <1>6 DEF KInv, PressedKnown, q
  <2>2. ASSUME c \in pressed'[f] PROVE WillRelease(f, c, 0)'
    <3>1. CASE q[1] = <<c, TRUE>>
      <4>1. 1 \in 1 .. Len(q)
        BY <1>4
      <4>2. \E j \in 1 .. Len(q) : 0 + 1 < j /\ q[j] = <<c, FALSE>>
        <5>1. WillRelease(f, c, 1)
          BY <2>1, <3>1, <4>1
        <5>2. 0 + 1 = 1
          OBVIOUS
        <5> QED
          BY <5>1, <5>2 DEF WillRelease, q
      <4> QED
        BY <1>5, <4>2
    <3>2. CASE q[1] # <<c, TRUE>>
      <4>1. q[1] \in Button \X BOOLEAN
        BY <1>2, <1>4
      <4>2. c \in pressed[f] /\ q[1] # <<c, FALSE>>
        <5>1. /\ Event(f) = q[1] /\ pressed'[f] = NowPressed(f)
              /\ q[1] = <<q[1][1], q[1][2]>> /\ q[1][2] \in BOOLEAN
          BY <1>3, <1>4, <4>1
        <5>2. CASE q[1][2] = TRUE
          <6>1. q[1][1] # c /\ NowPressed(f) = pressed[f] \cup {q[1][1]}
            BY <3>2, <5>1, <5>2 DEF NowPressed
          <6>2. q[1] # <<c, FALSE>>
            BY <5>1, <5>2, <6>1, <<q[1][1], q[1][2]>>[1] = q[1][1], <<c, FALSE>>[1] = c
          <6> QED
            BY <2>2, <5>1, <6>1, <6>2
        <5>3. CASE q[1][2] = FALSE
          <6>1. NowPressed(f) = pressed[f] \ {q[1][1]}
            BY <5>1, <5>3 DEF NowPressed
          <6>2. q[1][1] # c /\ c \in pressed[f]
            BY <2>2, <5>1, <6>1
          <6>3. q[1] # <<c, FALSE>>
            BY <5>1, <6>2, <<q[1][1], q[1][2]>>[1] = q[1][1], <<c, FALSE>>[1] = c
          <6> QED
            BY <6>2, <6>3
        <5> QED
          BY <5>1, <5>2, <5>3
      <4>3. PICK j \in 1 .. Len(q) : 0 < j /\ q[j] = <<c, FALSE>>
        BY <2>1, <4>2 DEF WillRelease, q
      <4>4. j # 1
        BY <4>2, <4>3
      <4>5. 0 + 1 < j
        BY <1>4, <4>3, <4>4
      <4> QED
        BY <1>5, <4>3, <4>5
    <3> QED
      BY <3>1, <3>2
  <2>3. ASSUME NEW i \in 1 .. Len(t), t[i] = <<c, TRUE>> PROVE WillRelease(f, c, i)'
    <3>1. i + 1 \in 1 .. Len(q) /\ q[i + 1] = <<c, TRUE>>
      BY <1>4, <2>3
    <3>3. i \in Nat
      BY <1>4
    <3>2. \E j \in 1 .. Len(q) : i + 1 < j /\ q[j] = <<c, FALSE>>
      BY <2>1, <3>1 DEF WillRelease, q
    <3> QED
      BY <1>5, <3>2, <3>3
  <2> QED
    BY <2>2, <2>3
<1>7. chords'[f] = Chorded(f)'
  BY <1>3 DEF NowChords, Chorded, IsChord
<1>8. \A g \in Fd \ {f} : /\ Chorded(g)' = Chorded(g)
                          /\ \A c, i : WillRelease(g, c, i)' <=> WillRelease(g, c, i)
  BY <1>3 DEF Chorded, IsChord, WillRelease
<1>9. ASSUME NEW g \in Fd
      PROVE  /\ chords'[g] = Chorded(g)'
             /\ fds'[g] = NoDevice => pressed'[g] = {}
             /\ fds'[g] # NoDevice /\ g \notin dead' =>
                  \A c \in Button \ held'[fds'[g]] :
                    /\ c \in pressed'[g] => WillRelease(g, c, 0)'
                    /\ \A i \in 1 .. Len(queue'[g]) :
                         queue'[g][i] = <<c, TRUE>> => WillRelease(g, c, i)'
  <2>1. CASE g = f
    BY <1>1, <1>6, <1>7, <2>1 DEF t
  <2>2. CASE g # f
    BY <1>1, <1>3, <1>8, <2>2 DEF KInv, PressedKnown
  <2> QED
    BY <2>1, <2>2
<1> QED
  BY <1>9 DEF PressedKnown

(* A release sends up every key that loses what it was pressed for.        *)
LEMMA ReadKeys ==
  ASSUME KInv, NEW f \in Fd, ReadEvent(f) PROVE KeysKnown'
<1> DEFINE b == Event(f)[1]
           begun == NowChords(f) \ chords[f]
           ended == chords[f] \ NowChords(f)
<1>1. /\ UNCHANGED <<pc, context, panel, orphans>> /\ pc = "loop"
      /\ pressed' = [pressed EXCEPT ![f] = NowPressed(f)]
      /\ down' = IF Event(f)[2] THEN down \cup KeysOf(Single(b) \cup begun)
                                ELSE down \ KeysOf(Single(b) \cup ended)
  BY DEF ReadEvent
<1>2. /\ pressed \in [Fd -> SUBSET Button] /\ chords[f] = Chorded(f)
      /\ \A k \in down \ orphans : \E g \in Fd, m \in Mapping :
           k \in KeysOf({m}) /\ m.buttons \subseteq pressed[g]
  BY DEF KInv, IInv, TypeOK, TableTyped, KeysKnown, PressedKnown
<1>3. \A g \in Fd : pressed'[g] = IF g = f THEN NowPressed(f) ELSE pressed[g]
  BY <1>1, <1>2
<1>4. SUFFICES ASSUME NEW k \in down' \ orphans
               PROVE  \E g \in Fd, m \in Mapping :
                         k \in KeysOf({m}) /\ m.buttons \subseteq pressed'[g]
  <2>1. \A m : KeysOf({m})' = KeysOf({m})
    BY <1>1, SameMeaning
  <2> QED
    BY <1>1, <2>1 DEF KeysKnown
<1> HIDE DEF b, begun, ended
<1>5. CASE Event(f)[2]
  <2>1. pressed[f] \subseteq NowPressed(f) /\ b \in NowPressed(f)
    BY <1>5 DEF NowPressed, b
  <2>2. CASE k \in down
    BY <1>2, <1>3, <1>4, <2>1, <2>2
  <2>3. CASE k \in KeysOf(Single(b) \cup begun)
    <3>1. PICK m \in Single(b) \cup begun : k \in KeysOf({m})
      BY <2>3, KeyOf
    <3>2. m \in Mapping /\ m.buttons \subseteq NowPressed(f)
      BY <2>1 DEF Single, begun, NowChords
    <3> QED
      BY <1>3, <3>1, <3>2
  <2> QED
    BY <1>1, <1>4, <1>5, <2>2, <2>3
<1>6. CASE ~Event(f)[2]
  <2>1. k \in down /\ k \notin KeysOf(Single(b) \cup ended)
    BY <1>1, <1>4, <1>6
  <2>2. PICK g \in Fd, m \in Mapping : k \in KeysOf({m}) /\ m.buttons \subseteq pressed[g]
    BY <1>2, <1>4, <2>1
  <2>3. m \notin Single(b) /\ m \notin ended
    BY <2>1, <2>2, KeyOf
  <2>4. CASE g = f
    <3>1. CASE IsChord(m)
      <4>1. m \in chords[f]
        BY <1>2, <2>2, <2>4, <3>1 DEF Chorded
      <4>2. m \in NowChords(f)
        BY <2>3, <4>1 DEF ended
      <4> QED
        BY <1>3, <2>2, <2>4, <4>2 DEF NowChords
    <3>2. CASE ~IsChord(m)
      <4>1. b \notin m.buttons
        BY <2>3, <3>2, OneButton
      <4> QED
        BY <1>3, <1>6, <2>2, <2>4, <4>1 DEF NowPressed, b
    <3> QED
      BY <3>1, <3>2
  <2>5. CASE g # f
    BY <1>3, <2>2, <2>5
  <2> QED
    BY <2>4, <2>5
<1> QED
  BY <1>5, <1>6

LEMMA KeysStart == ASSUME Init PROVE KInv
<1>1. IInv
  BY Initially
<1>2. KeysKnown
  BY DEF Init, KeysKnown
<1>3. PressedKnown
  BY NothingPressed DEF Init, PressedKnown, Chorded
<1> QED
  BY <1>1, <1>2, <1>3 DEF KInv

LEMMA KeysStep == ASSUME KInv, [Next]_vars PROVE KInv'
<1> DEFINE P == KeysKnown' /\ PressedKnown'
<1>1. IInv'
  BY Stepping, Stuttering DEF KInv
<1>2. /\ WritePid \/ StartMonitor \/ List \/ EndListing \/ Reload => P
      /\ SaveContext \/ UNCHANGED vars => P
  BY IdleKeys
<1>3. ReadContext \/ HandleSighup => P
  BY ContextKeys
<1>4. SignalContext \/ ReloadDevices => P
  BY SignalKeys
<1>5. (ReceiveDevice => P) /\ (ShowPanel => P) /\ (Ensure => P)
  BY ReceiveKeys, PanelKeys, EnsureKeys
<1>6. \A d \in Device : (AddListed(d) => P) /\ (Plug(d) => P) /\ (Unplug(d) => P)
  BY AddListedKeys, PlugKeys, UnplugKeys
<1>7. \A f \in Fd : (ReadError(f) => P) /\ (ReadEvent(f) => P)
  BY ErrorKeys, ReadPressed, ReadKeys
<1>8. \A d \in Device : \A b \in Button : Press(d, b) \/ Release(d, b) => P
  BY TouchKeys
<1> HIDE DEF P
<1>9. Daemon => P
  BY <1>2, <1>3, <1>5, <1>6, <1>7 DEF Daemon
<1>10. P
  BY <1>2, <1>4, <1>5, <1>6, <1>8, <1>9 DEF Next
<1> QED
  BY <1>1, <1>10 DEF P, KInv

(* With every button up and every event read no key stays down, for any    *)
(* mapping of buttons and chords to actions, but for those whose device,   *)
(* context or panel changed while they were (Daemon.run, __handle_event).  *)
THEOREM Unstuck == Spec => []NoStuckKey
<1>1. ASSUME KInv PROVE NoStuckKey
  <2> SUFFICES ASSUME Quiet, NEW k \in down \ orphans PROVE FALSE
    BY DEF NoStuckKey
  <2>1. PICK f \in Fd, m \in Mapping : m.buttons \subseteq pressed[f]
    BY <1>1 DEF KInv, KeysKnown
  <2>2. PICK b : b \in pressed[f]
    BY <2>1, NothingPressed
  <2>3. /\ fds[f] # NoDevice /\ f \notin dead /\ fds[f] \in Device
        /\ b \in Button \ held[fds[f]]
    <3>1. /\ fds[f] # NoDevice /\ dead = {} /\ pressed[f] \subseteq Button
          /\ fds[f] \in Device
      BY <1>1, <2>2 DEF Quiet, KInv, PressedKnown, IInv, TypeOK, TableTyped
    <3> QED
      BY <2>2, <3>1 DEF Quiet
  <2>4. WillRelease(f, b, 0)
    BY <1>1, <2>2, <2>3 DEF KInv, PressedKnown
  <2>5. Len(queue[f]) = 0
    BY DEF Quiet
  <2> QED
    BY <2>4, <2>5 DEF WillRelease
<1> QED
  BY <1>1, KeysStart, KeysStep, PTL DEF Spec
=============================================================================
