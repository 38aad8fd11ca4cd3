------------------------------ MODULE HubStart ------------------------------
(***************************************************************************)
(* What the hub does between its start and its first request (main.py,     *)
(* lifespan; store.py, init_store): it copies its files to .bak or         *)
(* restores them from there, bootstraps the administrator, and, when its   *)
(* version is a new one, tells every approved spoke to update.  Then it    *)
(* saves files whenever a request asks for it, and may update itself.      *)
(*                                                                         *)
(* The process may stop between any two steps, and inside a write: files   *)
(* are truncated and filled in place (_write_json, shutil.copy2).          *)
(***************************************************************************)
EXTENDS Naturals, FiniteSets

CONSTANTS
  Updatable,  \* the spokes of the one tenant
  Updater,    \* threads of the self-update
  Remains,    \* what a write that is cut off may leave: "blank", "torn"
  MaxVersion, \* bound: versions of the hub
  MaxFault    \* bound: faults that nobody asked for, and files the mount loses

ASSUME StartAssumption ==
  /\ Remains \subseteq {"blank", "torn"}
  /\ MaxVersion \in Nat \ {0} /\ MaxFault \in Nat
  /\ "admin" \notin Updatable /\ "tenant" \notin Updatable

VARIABLES
  phase,      \* how far lifespan has come
  stored,     \* users.json, tenants.json, the tenant's spokes.json
  copy,       \* their .bak copies
  copied,     \* history: files copied at some start, and not torn since then
  image,      \* the VERSION file of the image
  lastSeen,   \* .last_hub_version
  todo,       \* spokes still to be told by this start
  told,       \* how often a spoke was told of the current version
  updater,    \* threads of the self-update
  inProgress, \* _hub_update_state["in_progress"]
  faults      \* faults that nobody asked for, files lost

startVars == <<phase, stored, copy, copied, image, lastSeen, todo, told,
               updater, inProgress, faults>>
fileVars == <<stored, copy, copied>>
upgradeVars == <<image, lastSeen, todo, told>>
selfUpdateVars == <<updater, inProgress>>

File == {"users", "tenants", "spokes"}

\* A file is missing, empty, unreadable, or holds rows.
Absent == [is |-> "absent", rows |-> {}]
Left(r) == [is |-> r, rows |-> {}]
Holding(R) == [is |-> "json", rows |-> R]
RowsOf(f) == CASE f = "users" -> {"admin"} [] f = "tenants" -> {"tenant"}
               [] f = "spokes" -> Updatable
Content(f) == {Absent, Left("blank"), Left("torn")}
                \cup {Holding(R) : R \in SUBSET RowsOf(f)}

\* stat().st_size > 2: more than "[]".  Unreadable text counts, unlike rows.
Big(c) == c.is = "torn" \/ c.rows # {}
Exists(c) == c.is # "absent"
HasRows(c) == c.rows # {}

\* The versions are numbered; the recorded one may also be missing, or an
\* empty text, which equals no version.
NoVersion == 0
Garbled == MaxVersion + 1
Version == 1 .. MaxVersion

Order == <<"users", "tenants", "spokes", "migrate", "admin", "version">>
StartPhase == {"down", "telling", "up"} \cup {Order[i] : i \in DOMAIN Order}
After(p) == Order[1 + CHOOSE i \in 1 .. 5 : Order[i] = p]

StartTypeOK ==
  /\ phase \in StartPhase
  /\ stored \in [File -> UNION {Content(f) : f \in File}]
  /\ copy \in [File -> UNION {Content(f) : f \in File}]
  /\ \A f \in File : stored[f] \in Content(f) /\ copy[f] \in Content(f)
  /\ copied \subseteq File
  /\ image \in Version /\ lastSeen \in Version \cup {NoVersion, Garbled}
  /\ todo \subseteq Updatable
  /\ told \in [Updatable -> Nat]
  /\ updater \in [Updater -> {"idle", "asked", "working", "pulled", "restarting"}]
  /\ inProgress \in BOOLEAN
  /\ faults \in 0 .. MaxFault

\* A fresh data directory.
StartInit ==
  /\ phase = "down"
  /\ stored = [f \in File |-> Absent] /\ copy = stored
  /\ copied = {}
  /\ image = 1 /\ lastSeen = NoVersion
  /\ todo = {} /\ told = [s \in Updatable |-> 0]
  /\ updater = [u \in Updater |-> "idle"] /\ inProgress = FALSE
  /\ faults = 0

-----------------------------------------------------------------------------
(* The process stops: its memory is lost.                                  *)

Stopped ==
  /\ phase' = "down" /\ todo' = {}
  /\ updater' = [u \in Updater |-> "idle"] /\ inProgress' = FALSE

Fault == faults < MaxFault /\ faults' = faults + 1

StopsByItself == Fault /\ Stopped

Crash ==
  /\ phase # "down"
  /\ StopsByItself
  /\ UNCHANGED <<fileVars, image, lastSeen, told>>

\* A write of c over f, and the step p that follows; or the write is cut off.
Write(f, c, p) ==
  \/ /\ stored' = [stored EXCEPT ![f] = c]
     /\ phase' = p
     /\ UNCHANGED <<todo, selfUpdateVars, faults>>
  \/ /\ \E r \in Remains : stored' = [stored EXCEPT ![f] = Left(r)]
     /\ StopsByItself

\* A copy of a torn file takes the place of the one with rows.
WriteCopy(f, p) ==
  \/ /\ copy' = [copy EXCEPT ![f] = stored[f]]
     /\ copied' = IF stored[f].is = "torn" THEN copied \ {f} ELSE copied \cup {f}
     /\ phase' = p
     /\ UNCHANGED <<todo, selfUpdateVars, faults>>
  \/ /\ \E r \in Remains : copy' = [copy EXCEPT ![f] = Left(r)]
     /\ copied' = IF stored[f].is = "torn" THEN copied \ {f} ELSE copied
     /\ StopsByItself

Skip(p) == phase' = p /\ UNCHANGED <<fileVars, todo, selfUpdateVars, faults>>

-----------------------------------------------------------------------------
(* The start.                                                              *)

StartHub == /\ phase = "down"
         /\ Skip("users")
         /\ UNCHANGED <<image, lastSeen, told>>

\* A new image is deployed while the process is down.
Deploy ==
  /\ phase = "down" /\ image < MaxVersion
  /\ image' = image + 1
  /\ told' = [s \in Updatable |-> 0]
  /\ UNCHANGED <<phase, fileVars, lastSeen, todo, selfUpdateVars, faults>>

\* When a start restores f from its copy: tenants.json if it is missing,
\* spokes.json also if it is as good as empty, users.json never.
Restores(f) ==
  CASE f = "users" -> FALSE
    [] f = "tenants" -> ~Exists(stored[f])
    [] f = "spokes" -> TRUE

\* (mutant) a copy is made of whatever is there
KeepAnything(f) ==
  /\ phase = f
  /\ \/ Exists(stored[f]) /\ WriteCopy(f, After(f)) /\ UNCHANGED stored
     \/ ~Exists(stored[f]) /\ Skip(After(f))
  /\ UNCHANGED <<image, lastSeen, told>>

Keep(f) ==
  /\ phase = f
  /\ \/ Big(stored[f]) /\ WriteCopy(f, After(f)) /\ UNCHANGED stored
     \/ /\ ~Big(stored[f]) /\ Big(copy[f]) /\ Restores(f)
        /\ Write(f, copy[f], After(f))
        /\ UNCHANGED <<copy, copied>>
     \/ /\ ~Big(stored[f]) /\ ~(Big(copy[f]) /\ Restores(f))
        /\ Skip(After(f))
  /\ UNCHANGED <<image, lastSeen, told>>

\* Rows in the format with telemetry are rewritten without it.
MigrateSpokes ==
  /\ phase = "migrate"
  /\ \/ Skip("admin")
     \/ /\ stored["spokes"].rows # {}
        /\ Write("spokes", stored["spokes"], "admin")
        /\ UNCHANGED <<copy, copied>>
  /\ UNCHANGED <<image, lastSeen, told>>

\* The administrator is created on a first run only, that is if neither
\* users.json nor any other data is there; a password set in the environment
\* is written at each start.
PriorData == Exists(stored["tenants"]) \/ Exists(stored["spokes"])
EnsureAdmin ==
  /\ phase = "admin"
  /\ \/ /\ stored["users"].rows = {}
        /\ IF Exists(stored["users"]) \/ PriorData
             THEN Skip("version")
             ELSE Write("users", Holding({"admin"}), "version") /\ UNCHANGED <<copy, copied>>
     \/ /\ stored["users"].rows # {}
        /\ \/ Skip("version")
           \/ Write("users", stored["users"], "version") /\ UNCHANGED <<copy, copied>>
  /\ UNCHANGED <<image, lastSeen, told>>

\* (mutant) the spokes are told, and the version is not recorded
TellUnrecorded ==
  /\ phase = "version"
  /\ IF lastSeen \in {image, NoVersion}
       THEN /\ phase' = "up" /\ lastSeen' = image /\ UNCHANGED <<todo, selfUpdateVars, faults>>
       ELSE /\ phase' = "telling" /\ UNCHANGED <<lastSeen, selfUpdateVars, faults>>
            /\ todo' = IF stored["tenants"].rows = {} THEN {} ELSE stored["spokes"].rows
  /\ UNCHANGED <<fileVars, image, told>>

\* The new version is recorded first.  Cut off, that write leaves an empty
\* file, which is no version but is not a first run either.
RecordVersion ==
  /\ phase = "version"
  /\ \/ /\ lastSeen = image
        /\ phase' = "up"
        /\ UNCHANGED <<lastSeen, todo, selfUpdateVars, faults>>
     \/ /\ lastSeen # image
        /\ lastSeen' = image
        /\ IF lastSeen = NoVersion
             THEN phase' = "up" /\ UNCHANGED todo
             ELSE /\ phase' = "telling"
                  /\ todo' = IF stored["tenants"].rows = {} THEN {} ELSE stored["spokes"].rows
        /\ UNCHANGED <<selfUpdateVars, faults>>
     \/ /\ lastSeen # image
        /\ lastSeen' = Garbled
        /\ StopsByItself
  /\ UNCHANGED <<fileVars, image, told>>

\* Both update commands of one spoke are queued.
TellSpoke(s) ==
  /\ phase = "telling" /\ s \in todo
  /\ told' = [told EXCEPT ![s] = @ + 1]
  /\ todo' = todo \ {s}
  /\ UNCHANGED <<phase, fileVars, image, lastSeen, selfUpdateVars, faults>>

AllTold ==
  /\ phase = "telling" /\ todo = {}
  /\ Skip("up")
  /\ UNCHANGED <<image, lastSeen, told>>
-----------------------------------------------------------------------------
(* The hub runs.                                                           *)

\* What a load of f finds: tenants.json is restored whenever it is missing.
Loaded(f) ==
  IF f = "tenants" /\ ~Exists(stored[f]) /\ Exists(copy[f]) THEN copy[f] ELSE stored[f]

\* Each change of a file loads it, changes rows and writes it whole; a file
\* that cannot be read counts as one without rows.
SaveRow(f, r) ==
  /\ phase = "up" /\ r \in RowsOf(f)
  /\ Write(f, Holding(Loaded(f).rows \cup {r}), "up")
  /\ UNCHANGED <<copy, copied, image, lastSeen, told>>

DeleteRow(f, r) ==
  /\ phase = "up" /\ r \in Loaded(f).rows
  /\ Write(f, Holding(Loaded(f).rows \ {r}), "up")
  /\ UNCHANGED <<copy, copied, image, lastSeen, told>>

LoadTenants ==
  /\ phase = "up" /\ Loaded("tenants") # stored["tenants"]
  /\ Write("tenants", copy["tenants"], "up")
  /\ UNCHANGED <<copy, copied, image, lastSeen, told>>

\* The mount loses a file.
Vanish(f) ==
  /\ phase = "up" /\ Exists(stored[f])
  /\ Fault
  /\ stored' = [stored EXCEPT ![f] = Absent]
  /\ UNCHANGED <<phase, copy, copied, upgradeVars, selfUpdateVars>>

-----------------------------------------------------------------------------
(* The self-update: a request tests in_progress, the thread that it starts *)
(* sets it.                                                                *)

SelfUpdate(u, from, to, busy) ==
  /\ phase = "up" /\ updater[u] \in from
  /\ updater' = [updater EXCEPT ![u] = to]
  /\ inProgress' = busy

TriggerSelfUpdate(u) ==
  /\ ~inProgress
  /\ SelfUpdate(u, {"idle"}, "asked", inProgress)
  /\ UNCHANGED <<phase, fileVars, upgradeVars, faults>>

BeginUpdate(u) ==
  /\ SelfUpdate(u, {"asked"}, "working", TRUE)
  /\ UNCHANGED <<phase, fileVars, upgradeVars, faults>>

\* git pull, which may bring a new version; then pip install.
Pull(u) ==
  /\ SelfUpdate(u, {"working"}, "pulled", inProgress)
  /\ \/ UNCHANGED <<image, told>>
     \/ /\ image < MaxVersion
        /\ image' = image + 1 /\ told' = [s \in Updatable |-> 0]
  /\ UNCHANGED <<phase, fileVars, lastSeen, todo, faults>>

FailUpdate(u) ==
  /\ SelfUpdate(u, {"working", "pulled"}, "idle", FALSE)
  /\ UNCHANGED <<phase, fileVars, upgradeVars, faults>>

FinishUpdate(u) ==
  /\ SelfUpdate(u, {"pulled"}, "restarting", FALSE)
  /\ UNCHANGED <<phase, fileVars, upgradeVars, faults>>

\* Three seconds later systemd restarts the hub.
Restart(u) ==
  /\ phase = "up" /\ updater[u] = "restarting"
  /\ Stopped
  /\ UNCHANGED <<fileVars, image, lastSeen, told, faults>>

-----------------------------------------------------------------------------
StartNext ==
  \/ Crash \/ StartHub \/ Deploy
  \/ \E f \in File : Keep(f)
  \/ MigrateSpokes \/ EnsureAdmin \/ RecordVersion
  \/ \E s \in Updatable : TellSpoke(s)
  \/ AllTold
  \/ \E f \in File : \E r \in RowsOf(f) : SaveRow(f, r) \/ DeleteRow(f, r)
  \/ LoadTenants
  \/ \E f \in File : Vanish(f)
  \/ \E u \in Updater :
       \/ TriggerSelfUpdate(u) \/ BeginUpdate(u) \/ Pull(u)
       \/ FailUpdate(u) \/ FinishUpdate(u) \/ Restart(u)

StartSpec == StartInit /\ [][StartNext]_startVars

-----------------------------------------------------------------------------
(* Properties.                                                             *)

\* No spoke is told twice to update to one version, however often the hub is
\* restarted or stops while it tells them: _trigger_spoke_updates_on_hub_upgrade
\* records the version before it queues the first command.
ToldOnce == \A s \in Updatable : told[s] <= 1

\* Once init_store has copied a file with rows, the file and its copy are
\* never both without rows, whatever stops inside which write, as long as no
\* start finds the file torn: init_store takes more than two bytes for rows,
\* and copies the unreadable rest of a write over the copy that has them.
SnapshotSurvives == \A f \in copied : HasRows(stored[f]) \/ HasRows(copy[f])

=============================================================================
