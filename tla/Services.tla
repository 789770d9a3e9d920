------------------------------ MODULE Services ------------------------------
(***************************************************************************)
(* The list of enabled services, one setting of batocera.conf:             *)
(* batocera-services gets it, changes it and sets it, and S99userservices  *)
(* makes a service of an old custom.sh and starts what is enabled.         *)
(***************************************************************************)
EXTENDS SettingsStore, Naturals, Sequences, FiniteSets

CONSTANTS Name,      \* the names of files in the folders of services
          Valid,     \* those that is_valid_service_name accepts
          Custom,    \* custom_service
          Boot,      \* the process of S99userservices
          list       \* system.services

Elems(s) == {s[i] : i \in DOMAIN s}

(* The loop of do_disable over a list.                                     *)
Without(s, name) ==
  LET kept[i \in 0 .. Len(s)] ==
        IF i = 0 THEN <<>>
        ELSE IF s[i] # name THEN Append(kept[i - 1], s[i]) ELSE kept[i - 1]
  IN kept[Len(s)]

(* No name twice, and none that S99userservices could not export.          *)
GoodList(s) == Elems(s) \subseteq Valid /\ Len(s) = Cardinality(Elems(s))

(* The setting can hold what the commands make of a good list.  This is    *)
(* stated where it is used, so that what holds of SettingsStore for any    *)
(* keys and values does not rest on it.                                    *)
ServicesAssumption ==
  /\ Valid \subseteq Name /\ Custom \in Valid
  /\ Boot \in Writer /\ Key = {list}
  /\ Value \subseteq Seq(Name) /\ <<>> \in Value
  /\ \A s \in Value : GoodList(s) =>
       /\ \A t \in Valid \ Elems(s) : Append(s, t) \in Value
       /\ \A t \in Elems(s) : Without(s, t) \in Value

VARIABLES
  custom,    \* where the user's script is: "custom.sh", "service" or "none"
  boot,      \* the next step of S99userservices
  started,   \* the services started in this boot
  doing,     \* history: the command of each process, <<verb, name>>
  wanted,    \* history: the services enabled and not disabled since
  overlap,   \* history: two commands have run at the same time
  cut,       \* history: the migration of custom.sh was interrupted
  off        \* history: the user has disabled custom_service

own  == <<custom, boot, started>>
hist == <<doing, wanted, overlap, cut, off>>
serviceVars == <<vars, own, hist>>

(* batocera-settings-get prints nothing for a key that is not there.       *)
ListIn(file) == IF Setting(file, list) = Unset THEN <<>> ELSE Setting(file, list)
Enabled == ListIn(conf)

(* Types; the list written stays one of those a command may be given.      *)
ServicesTypeOK ==
  /\ TypeOK
  /\ custom \in {"custom.sh", "service", "none"}
  /\ boot \in {"migrate", "move", "enable", "run", "done"}
  /\ started \subseteq Name
  /\ doing \in [Writer -> ({"enable", "disable"} \X Name) \cup {None}]
  /\ wanted \subseteq Name
  /\ overlap \in BOOLEAN /\ cut \in BOOLEAN /\ off \in BOOLEAN

ServicesInit ==
  /\ Init /\ conf # Garbage
  /\ custom \in {"custom.sh", "none"} /\ boot = "migrate" /\ started = {}
  /\ doing = [w \in Writer |-> None]
  /\ wanted = {} /\ overlap = FALSE /\ cut = FALSE /\ off = FALSE

-----------------------------------------------------------------------------
(* batocera-services: the list is read without the lock, and set as a      *)
(* whole by a batocera-settings-set of its own.                            *)
Command(w, verb, s, new) ==
  /\ Begin(w, [set |-> [k \in {list} |-> new], validate |-> FALSE])
  /\ doing' = [doing EXCEPT ![w] = <<verb, s>>]
  /\ overlap' = (overlap \/ \E v \in Writer \ {w} : pc[v] # "idle")

(* Mutant: no test of the name.                                            *)
EnableAny(w, s) ==
  /\ s \notin Elems(Enabled)
  /\ Command(w, "enable", s, Append(Enabled, s))

do_enable(w, s) ==
  /\ s \in Valid /\ s \notin Elems(Enabled)
  /\ Command(w, "enable", s, Append(Enabled, s))

(* Mutant: what is kept is the name that was to go.                        *)
DisableOthers(w, s) ==
  /\ s \in Elems(Enabled)
  /\ Command(w, "disable", s, SelectSeq(Enabled, LAMBDA t : t = s))

do_disable(w, s) ==
  /\ s \in Elems(Enabled)
  /\ Command(w, "disable", s, Without(Enabled, s))

UserCommand(w, s) ==
  /\ w # Boot
  /\ \/ do_enable(w, s) /\ UNCHANGED off
     \/ do_disable(w, s) /\ off' = (off \/ s = Custom)
  /\ UNCHANGED <<own, wanted, cut>>

(* One step of batocera-settings-set, for whoever runs it.                 *)
SetStep(w) ==
  /\ WriteStep(w) \/ Kill(w)
  /\ wanted' = IF pc'[w] # "sync" THEN wanted
               ELSE IF doing[w][1] = "enable" THEN wanted \cup {doing[w][2]}
               ELSE wanted \ {doing[w][2]}
  /\ doing' = [doing EXCEPT ![w] = IF pc'[w] = "idle" THEN None ELSE @]
  /\ cut' = (\/ cut
             \/ w = Boot /\ pc[w] \notin {"sync", "unlock"} /\ pc'[w] = "idle")
  /\ UNCHANGED <<own, overlap, off>>

-----------------------------------------------------------------------------
(* S99userservices.                                                        *)

(* Mutant: the script is moved and not enabled.                            *)
MoveOnly ==
  /\ boot = "migrate" /\ boot' = "run"
  /\ custom' = IF custom = "custom.sh" THEN "service" ELSE custom
  /\ UNCHANGED <<vars, started, hist>>

(* custom.sh becomes a service, unless there is one already.               *)
MoveCustom ==
  /\ boot = "migrate"
  /\ IF custom = "custom.sh"
     THEN custom' = "service" /\ boot' = "enable"
     ELSE boot' = "run" /\ UNCHANGED custom
  /\ UNCHANGED <<vars, started, hist>>

EnableCustom ==
  /\ boot = "enable" /\ boot' = "run"
  /\ IF Custom \in Elems(Enabled)
     THEN UNCHANGED <<vars, doing, overlap>>
     ELSE do_enable(Boot, Custom)
  /\ UNCHANGED <<custom, started, wanted, cut, off>>

(* Every file whose name is in the list is started.                        *)
StartServices ==
  /\ boot = "run" /\ pc[Boot] = "idle"
  /\ boot' = "done"
  /\ started' = Elems(Enabled) \cap
                (Valid \ (IF custom = "service" THEN {} ELSE {Custom}))
  /\ UNCHANGED <<vars, custom, hist>>

BootStep == MoveCustom \/ EnableCustom \/ StartServices

(* The next boot runs S99userservices again.                               *)
Restart ==
  /\ PowerLoss
  /\ boot' = "migrate" /\ started' = {}
  /\ doing' = [w \in Writer |-> None]
  /\ wanted' = Elems(ListIn(conf'))
  /\ cut' = (\/ cut
             \/ custom = "service" /\ Custom \notin Elems(ListIn(conf')))
  /\ UNCHANGED <<custom, overlap, off>>

ServicesNext ==
  \/ \E w \in Writer : SetStep(w) \/ \E s \in Name : UserCommand(w, s)
  \/ Writeback /\ UNCHANGED <<own, hist>>
  \/ BootStep \/ Restart

ServicesSpec == ServicesInit /\ [][ServicesNext]_serviceVars

-----------------------------------------------------------------------------
(* However commands interleave, no list names a service twice or has a     *)
(* name that S99userservices could not export (17-20, 87-101): each is a   *)
(* list some command made from a list of that kind.                        *)
ListsAreGood ==
  /\ \A file \in durable \cup {conf} : GoodList(ListIn(file))
  /\ \A w \in Writer : ask[w] # None => GoodList(ask[w].set[list])

(* Commands that do not overlap do what they say: the list has the         *)
(* services enabled and not disabled since, through kills, failures and    *)
(* power cuts (79-128).                                                    *)
SerialCommands == ~overlap => Elems(Enabled) = wanted

(* The same for all commands: "enable myservice" enables it.               *)
EnableSticks == wanted \subseteq Elems(Enabled)

(* The user's script is started by a boot that completes.                  *)
CustomStillRuns == boot = "done" /\ custom = "service" /\ ~off => Custom \in started

(* The user's custom.sh, once it is a service, is started by every boot    *)
(* until the user disables it, unless the migration was interrupted or     *)
(* overlapped by another command (S99userservices 48-70).                  *)
CustomStarted == ~cut /\ ~overlap => CustomStillRuns

(* Why.  Until two commands have run at once at most one process is busy,  *)
(* so that what it is about to write is what its command makes of the list *)
(* there is.                                                               *)
Done(w) == IF doing[w][1] = "enable" THEN wanted \cup {doing[w][2]}
                                     ELSE wanted \ {doing[w][2]}
OneAtATime ==
  /\ conf # Garbage /\ Garbage \notin durable
  /\ ~overlap =>
       \A w \in Writer : pc[w] # "idle" =>
         /\ \A v \in Writer \ {w} : pc[v] = "idle"
         /\ pc[w] \notin {"sync", "unlock"} => Elems(ask[w].set[list]) = Done(w)

(* The script is in the list, or on its way, from its migration on.        *)
CustomKnown ==
  /\ \A w \in Writer : pc[w] # "idle" =>
       /\ doing[w] \in {"enable", "disable"} \X Name
       /\ doing[w] = <<"disable", Custom>> => off
       /\ w = Boot => doing[w] = <<"enable", Custom>>
  /\ boot \in {"migrate", "enable"} => pc[Boot] = "idle"
  /\ custom = "service" /\ ~cut /\ ~overlap /\ ~off =>
       /\ boot = "migrate" => Custom \in wanted
       /\ boot = "run" => \/ Custom \in wanted
                          \/ pc[Boot] \notin {"idle", "sync", "unlock"}
       /\ boot = "done" => Custom \in started
  /\ boot = "enable" => custom = "service"

ServicesInv ==
  /\ IInv /\ ServicesTypeOK /\ ListsAreGood
  /\ OneAtATime /\ SerialCommands /\ CustomKnown
=============================================================================
