----------------------------- MODULE HubProofs -----------------------------
(***************************************************************************)
(* Theorems about what the hub does by itself, for every number of spokes: *)
(* its start and self-update (HubStart), for every number of versions and  *)
(* faults, its timed loops (FleetTimers), for every period, and the        *)
(* updates of a whole fleet (FleetUpdate).                                 *)
(***************************************************************************)
EXTENDS HubStart, FleetTimers, FleetUpdate, SequenceTheorems,
        FiniteSetTheorems, TLAPS

-----------------------------------------------------------------------------
(* HubStart: types.                                                        *)

\* The steps of a start, in their order.
LEMMA AfterFacts ==
  /\ After("users") = "tenants"
  /\ After("tenants") = "spokes"
  /\ After("spokes") = "migrate"
  /\ StartPhase = {"down", "telling", "up", "users", "tenants", "spokes",
                   "migrate", "admin", "version"}
<1>1. /\ Order[1] = "users" /\ Order[2] = "tenants" /\ Order[3] = "spokes"
      /\ Order[4] = "migrate" /\ Order[5] = "admin" /\ Order[6] = "version"
      /\ DOMAIN Order = 1 .. 6
  BY DEF Order
<1>2. \A i \in 1 .. 5 : i = 1 \/ i = 2 \/ i = 3 \/ i = 4 \/ i = 5
  OBVIOUS
<1>3. (CHOOSE i \in 1 .. 5 : Order[i] = "users") = 1
  BY <1>1, <1>2
<1>4. (CHOOSE i \in 1 .. 5 : Order[i] = "tenants") = 2
  BY <1>1, <1>2
<1>5. (CHOOSE i \in 1 .. 5 : Order[i] = "spokes") = 3
  BY <1>1, <1>2
<1>6. {Order[i] : i \in DOMAIN Order} =
        {"users", "tenants", "spokes", "migrate", "admin", "version"}
  <2>1. \A i \in 1 .. 6 : i = 1 \/ i = 2 \/ i = 3 \/ i = 4 \/ i = 5 \/ i = 6
    OBVIOUS
  <2> QED
    BY <1>1, <2>1
<1> QED
  BY <1>1, <1>3, <1>4, <1>5, <1>6 DEF After, StartPhase

\* What a file may hold.
LEMMA ContentFacts ==
  ASSUME NEW f \in File
  PROVE  /\ Absent \in Content(f)
         /\ \A r \in Remains : Left(r) \in Content(f)
         /\ \A c \in Content(f) : c.rows \in SUBSET RowsOf(f)
         /\ \A R \in SUBSET RowsOf(f) : Holding(R) \in Content(f)
         /\ ~Big(Absent)
<1>1. Absent \in Content(f)
  BY DEF Content
<1>2. \A r \in Remains : Left(r) \in Content(f)
  BY StartAssumption DEF Content
<1>3. \A R \in SUBSET RowsOf(f) : Holding(R) \in Content(f)
  BY DEF Content
<1>4. ASSUME NEW c \in Content(f) PROVE c.rows \in SUBSET RowsOf(f)
  <2>1. CASE c \in {Absent, Left("blank"), Left("torn")}
    BY <2>1 DEF Absent, Left
  <2>2. CASE \E R \in SUBSET RowsOf(f) : c = Holding(R)
    BY <2>2 DEF Holding
  <2> QED
    BY <1>4, <2>1, <2>2 DEF Content
<1>5. ~Big(Absent)
  BY DEF Big, Absent
<1> QED
  BY <1>1, <1>2, <1>3, <1>4, <1>5

\* The file functions, as sets of functions.
Files == [File -> UNION {Content(f) : f \in File}]
FilesOK(g) == g \in Files /\ \A f \in File : g[f] \in Content(f)

\* A write of what a file may hold, over that file.
LEMMA FilesWrite ==
  ASSUME NEW g, FilesOK(g), NEW f \in File, NEW c \in Content(f)
  PROVE  FilesOK([g EXCEPT ![f] = c])
  BY DEF FilesOK, Files

\* The type invariant, with the files put together.
UpdaterStep == {"idle", "asked", "working", "pulled", "restarting"}
TypeParts ==
  /\ phase \in StartPhase
  /\ FilesOK(stored) /\ FilesOK(copy)
  /\ copied \subseteq File
  /\ image \in Version /\ lastSeen \in Version \cup {NoVersion, Garbled}
  /\ todo \subseteq Updatable
  /\ told \in [Updatable -> Nat]
  /\ updater \in [Updater -> UpdaterStep]
  /\ inProgress \in BOOLEAN
  /\ faults \in 0 .. MaxFault

\* It is the type invariant.
LEMMA TypePartsSame == StartTypeOK <=> TypeParts
  BY DEF StartTypeOK, TypeParts, FilesOK, Files, UpdaterStep

\* A process that stops leaves well-typed memory.
LEMMA StopsType ==
  ASSUME TypeParts, StopsByItself
  PROVE  /\ phase' \in StartPhase /\ todo' \subseteq Updatable
         /\ updater' \in [Updater -> UpdaterStep]
         /\ inProgress' \in BOOLEAN /\ faults' \in 0 .. MaxFault
<1>1. faults' \in 0 .. MaxFault
  BY StartAssumption DEF TypeParts, StopsByItself, Fault
<1>2. /\ phase' = "down" /\ todo' = {} /\ inProgress' = FALSE
      /\ updater' = [u \in Updater |-> "idle"]
  BY DEF StopsByItself, Stopped
<1>3. updater' \in [Updater -> UpdaterStep]
  BY <1>2 DEF UpdaterStep
<1> QED
  BY <1>1, <1>2, <1>3, AfterFacts

\* A write, whole or cut off, keeps the types and changes one file.
LEMMA WriteType ==
  ASSUME TypeParts, NEW f \in File, NEW c \in Content(f), NEW p \in StartPhase,
         Write(f, c, p)
  PROVE  /\ FilesOK(stored')
         /\ phase' \in StartPhase /\ todo' \subseteq Updatable
         /\ updater' \in [Updater -> UpdaterStep]
         /\ inProgress' \in BOOLEAN /\ faults' \in 0 .. MaxFault
         /\ \A g \in File \ {f} : stored'[g] = stored[g]
         /\ phase' \in {p, "down"}
<1>1. FilesOK(stored)
  BY DEF TypeParts
<1>2. PICK d \in Content(f) : stored' = [stored EXCEPT ![f] = d]
  BY ContentFacts DEF Write
<1>3. FilesOK(stored') /\ \A g \in File \ {f} : stored'[g] = stored[g]
  BY <1>1, <1>2, FilesWrite DEF FilesOK, Files
<1>4. CASE phase' = p /\ UNCHANGED <<todo, selfUpdateVars, faults>>
  BY <1>3, <1>4 DEF TypeParts, selfUpdateVars
<1>5. CASE StopsByItself
  BY <1>3, <1>5, StopsType DEF StopsByItself, Stopped
<1> QED
  BY <1>4, <1>5 DEF Write

\* So does a copy, whole or cut off.
LEMMA CopyType ==
  ASSUME TypeParts, NEW f \in File, NEW p \in StartPhase, WriteCopy(f, p)
  PROVE  /\ FilesOK(copy') /\ copied' \subseteq File
         /\ phase' \in StartPhase /\ todo' \subseteq Updatable
         /\ updater' \in [Updater -> UpdaterStep]
         /\ inProgress' \in BOOLEAN /\ faults' \in 0 .. MaxFault
         /\ \A g \in File \ {f} : copy'[g] = copy[g]
         /\ copied' \subseteq copied \cup {f}
<1>1. FilesOK(copy) /\ stored[f] \in Content(f)
  BY DEF TypeParts, FilesOK
<1>2. PICK d \in Content(f) : copy' = [copy EXCEPT ![f] = d]
  BY <1>1, ContentFacts DEF WriteCopy
<1>3. FilesOK(copy') /\ \A g \in File \ {f} : copy'[g] = copy[g]
  BY <1>1, <1>2, FilesWrite DEF FilesOK, Files
<1>4. copied' \subseteq copied \cup {f} /\ copied' \subseteq File
  BY DEF WriteCopy, TypeParts
<1>5. CASE phase' = p /\ UNCHANGED <<todo, selfUpdateVars, faults>>
  BY <1>3, <1>4, <1>5 DEF TypeParts, selfUpdateVars
<1>6. CASE StopsByItself
  BY <1>3, <1>4, <1>6, StopsType
<1> QED
  BY <1>5, <1>6 DEF WriteCopy

\* Every step keeps the types.
LEMMA StartTypeStep == TypeParts /\ [StartNext]_startVars => TypeParts'
<1> SUFFICES ASSUME TypeParts, [StartNext]_startVars PROVE TypeParts'
  OBVIOUS
<1>a. /\ \A f \in File : stored[f] \in Content(f) /\ copy[f] \in Content(f)
      /\ \A f \in File : stored[f].rows \in SUBSET RowsOf(f)
      /\ RowsOf("users") = {"admin"} /\ RowsOf("spokes") = Updatable
      /\ MaxVersion \in Nat
  BY ContentFacts, StartAssumption DEF TypeParts, FilesOK, RowsOf
<1>1. CASE Crash
  BY <1>1, StopsType DEF Crash, TypeParts, fileVars, FilesOK
<1>2. CASE StartHub
  BY <1>2, AfterFacts DEF StartHub, Skip, TypeParts, fileVars, selfUpdateVars, FilesOK
<1>3. CASE Deploy
  BY <1>3, <1>a DEF Deploy, TypeParts, fileVars, selfUpdateVars, FilesOK, Version
<1>4. ASSUME NEW f \in File, Keep(f) PROVE TypeParts'
  <2>1. After(f) \in StartPhase
    BY AfterFacts DEF File
  <2>2. CASE WriteCopy(f, After(f)) /\ UNCHANGED stored
    BY <1>4, <2>1, <2>2, CopyType DEF Keep, TypeParts, FilesOK
  <2>3. CASE Write(f, copy[f], After(f)) /\ UNCHANGED <<copy, copied>>
    BY <1>4, <1>a, <2>1, <2>3, WriteType DEF Keep, TypeParts, FilesOK
  <2>4. CASE Skip(After(f))
    BY <1>4, <2>1, <2>4 DEF Keep, Skip, TypeParts, fileVars, selfUpdateVars, FilesOK
  <2> QED
    BY <1>4, <2>2, <2>3, <2>4 DEF Keep
<1>5. CASE MigrateSpokes
  <2>1. CASE Skip("admin")
    BY <1>5, <2>1, AfterFacts
    DEF MigrateSpokes, Skip, TypeParts, fileVars, selfUpdateVars, FilesOK
  <2>2. CASE Write("spokes", stored["spokes"], "admin") /\ UNCHANGED <<copy, copied>>
    <3>1. "spokes" \in File /\ "admin" \in StartPhase
      BY AfterFacts DEF File
    <3> QED
      BY <1>5, <1>a, <2>2, <3>1, WriteType DEF MigrateSpokes, TypeParts, FilesOK
  <2> QED
    BY <1>5, <2>1, <2>2 DEF MigrateSpokes
<1>6. CASE EnsureAdmin
  <2>1. CASE Skip("version")
    BY <1>6, <2>1, AfterFacts
    DEF EnsureAdmin, Skip, TypeParts, fileVars, selfUpdateVars, FilesOK
  <2>2. ASSUME NEW c \in Content("users"), Write("users", c, "version"),
               UNCHANGED <<copy, copied>>
        PROVE  TypeParts'
    <3>1. "users" \in File /\ "version" \in StartPhase
      BY AfterFacts DEF File
    <3> QED
      BY <1>6, <2>2, <3>1, WriteType DEF EnsureAdmin, TypeParts, FilesOK
  <2>3. Holding({"admin"}) \in Content("users") /\ stored["users"] \in Content("users")
    BY <1>a, ContentFacts DEF File
  <2> QED
    BY <1>6, <2>1, <2>2, <2>3 DEF EnsureAdmin
<1>7. CASE RecordVersion
  <2>1. stored["spokes"].rows \subseteq Updatable
    BY <1>a DEF File
  <2>2. CASE StopsByItself /\ lastSeen' = Garbled
    BY <1>7, <2>2, StopsType DEF RecordVersion, TypeParts, fileVars, FilesOK
  <2>3. CASE /\ lastSeen' \in {lastSeen, image} /\ UNCHANGED <<selfUpdateVars, faults>>
             /\ phase' \in {"up", "telling"}
             /\ todo' \in {todo, {}, stored["spokes"].rows}
    <3>1. phase' \in StartPhase /\ todo' \subseteq Updatable
      BY <2>1, <2>3, AfterFacts DEF TypeParts
    <3>2. UNCHANGED <<stored, copy, copied, image, told, updater, inProgress, faults>>
      BY <1>7, <2>3 DEF RecordVersion, fileVars, selfUpdateVars
    <3> QED
      BY <2>3, <3>1, <3>2 DEF TypeParts, FilesOK
  <2> QED
    BY <1>7, <2>2, <2>3 DEF RecordVersion
<1>8. ASSUME NEW s \in Updatable, TellSpoke(s) PROVE TypeParts'
  BY <1>8 DEF TellSpoke, TypeParts, fileVars, selfUpdateVars, FilesOK
<1>9. CASE AllTold
  BY <1>9, AfterFacts DEF AllTold, Skip, TypeParts, fileVars, selfUpdateVars, FilesOK
<1>10. ASSUME NEW f \in File, NEW R \in SUBSET RowsOf(f),
              Write(f, Holding(R), "up"),
              UNCHANGED <<copy, copied, image, lastSeen, told>>
       PROVE  TypeParts'
  <2>1. "up" \in StartPhase /\ Holding(R) \in Content(f)
    BY AfterFacts, ContentFacts
  <2> QED
    BY <1>10, <2>1, WriteType DEF TypeParts, FilesOK
<1>11. \A f \in File : Loaded(f).rows \in SUBSET RowsOf(f)
  BY <1>a, ContentFacts DEF Loaded
<1>12. ASSUME NEW f \in File, NEW r \in RowsOf(f), SaveRow(f, r) PROVE TypeParts'
  <2>1. Loaded(f).rows \cup {r} \in SUBSET RowsOf(f)
    BY <1>11
  <2> QED
    BY <1>10, <1>12, <2>1 DEF SaveRow
<1>13. ASSUME NEW f \in File, NEW r \in RowsOf(f), DeleteRow(f, r) PROVE TypeParts'
  <2>1. Loaded(f).rows \ {r} \in SUBSET RowsOf(f)
    BY <1>11
  <2> QED
    BY <1>10, <1>13, <2>1 DEF DeleteRow
<1>14. CASE LoadTenants
  <2>1. "tenants" \in File /\ "up" \in StartPhase
    BY AfterFacts DEF File
  <2> QED
    BY <1>14, <1>a, <2>1, WriteType DEF LoadTenants, TypeParts, FilesOK
<1>15. ASSUME NEW f \in File, Vanish(f) PROVE TypeParts'
  <2>1. FilesOK(stored')
    BY <1>15, ContentFacts, FilesWrite DEF Vanish, TypeParts
  <2> QED
    BY <1>15, <2>1, StartAssumption
    DEF Vanish, Fault, TypeParts, upgradeVars, selfUpdateVars, FilesOK
<1>16. ASSUME NEW u \in Updater,
              \/ TriggerSelfUpdate(u) \/ BeginUpdate(u) \/ FailUpdate(u)
              \/ FinishUpdate(u)
       PROVE  TypeParts'
  BY <1>16 DEF TriggerSelfUpdate, BeginUpdate, FailUpdate, FinishUpdate, SelfUpdate,
               TypeParts, fileVars, upgradeVars, UpdaterStep, FilesOK
<1>17. ASSUME NEW u \in Updater, Pull(u) PROVE TypeParts'
  BY <1>17, <1>a DEF Pull, SelfUpdate, TypeParts, fileVars, UpdaterStep, Version, FilesOK
<1>18. ASSUME NEW u \in Updater, Restart(u) PROVE TypeParts'
  BY <1>18, AfterFacts
  DEF Restart, Stopped, TypeParts, fileVars, UpdaterStep, FilesOK
<1>19. CASE UNCHANGED startVars
  BY <1>19 DEF startVars, TypeParts, FilesOK
<1> QED
  BY <1>1, <1>2, <1>3, <1>4, <1>5, <1>6, <1>7, <1>8, <1>9, <1>12, <1>13, <1>14,
     <1>15, <1>16, <1>17, <1>18, <1>19 DEF StartNext

\* A fresh data directory is well typed.
LEMMA StartTypeInit == StartInit => TypeParts
<1> SUFFICES ASSUME StartInit PROVE TypeParts
  OBVIOUS
<1>1. /\ phase \in StartPhase /\ image \in Version
      /\ lastSeen \in Version \cup {NoVersion, Garbled}
      /\ faults \in 0 .. MaxFault
  BY StartAssumption, AfterFacts DEF StartInit, Version
<1>2. FilesOK(stored) /\ FilesOK(copy)
  BY ContentFacts DEF StartInit, FilesOK, Files
<1>3. /\ todo \subseteq Updatable /\ told \in [Updatable -> Nat]
      /\ updater \in [Updater -> UpdaterStep] /\ inProgress \in BOOLEAN
      /\ copied \subseteq File
  BY DEF StartInit, UpdaterStep
<1> QED
  BY <1>1, <1>2, <1>3 DEF TypeParts

\* The variables of a start keep their types, whatever stops when (init_store,
\* lifespan, the saves of store.py and the thread of the self-update).
THEOREM StartTypeCorrect == StartSpec => []StartTypeOK
<1>1. StartSpec => []TypeParts
  BY StartTypeInit, StartTypeStep, PTL DEF StartSpec
<1> QED
  BY <1>1, TypePartsSame, PTL

-----------------------------------------------------------------------------
(* HubStart: no spoke is told twice of one version.                        *)

\* A spoke still to be told has not been told of the version the hub runs,
\* and none has as long as that version is not the recorded one, which it is
\* while the spokes are told.
ToldInv ==
  /\ ToldOnce
  /\ \A s \in todo : told[s] = 0
  /\ lastSeen # image => \A s \in Updatable : told[s] = 0
  /\ phase = "telling" => lastSeen = image

\* Nobody has been told of a new image.
LEMMA NewImage ==
  ASSUME TypeParts, ToldInv, phase # "telling", image' = image + 1,
         told' = [s \in Updatable |-> 0], UNCHANGED <<todo, phase>>
  PROVE  ToldInv'
  BY DEF TypeParts, ToldInv, ToldOnce

\* Steps that leave the versions alone, and add no spoke to those to be told.
LEMMA SameVersion ==
  ASSUME ToldInv, UNCHANGED <<image, lastSeen, told>>,
         todo' \subseteq todo, phase' = "telling" => phase = "telling"
  PROVE  ToldInv'
  BY DEF ToldInv, ToldOnce

\* Every step of the hub keeps the invariant.
LEMMA ToldStep == TypeParts /\ ToldInv /\ [StartNext]_startVars => ToldInv'
<1> SUFFICES ASSUME TypeParts, ToldInv, [StartNext]_startVars PROVE ToldInv'
  OBVIOUS
<1>a. ASSUME NEW f \in {"users", "tenants", "spokes"}
      PROVE  After(f) # "telling"
  BY AfterFacts
<1>1. CASE Crash
  BY <1>1, SameVersion DEF Crash, StopsByItself, Stopped
<1>2. CASE StartHub
  BY <1>2, SameVersion DEF StartHub, Skip
<1>3. CASE Deploy
  BY <1>3, NewImage DEF Deploy
<1>4. ASSUME NEW f \in File, Keep(f) PROVE ToldInv'
  BY <1>4, <1>a, SameVersion
  DEF Keep, WriteCopy, Write, Skip, StopsByItself, Stopped, File
<1>5. CASE MigrateSpokes
  BY <1>5, SameVersion DEF MigrateSpokes, Write, Skip, StopsByItself, Stopped
<1>6. CASE EnsureAdmin
  BY <1>6, SameVersion DEF EnsureAdmin, Write, Skip, StopsByItself, Stopped
<1>7. CASE RecordVersion
  <2>1. CASE lastSeen = image
    BY <1>7, <2>1, SameVersion DEF RecordVersion
  <2>2. CASE lastSeen # image
    <3>1. \A s \in Updatable : told'[s] = 0
      BY <1>7, <2>2 DEF RecordVersion, ToldInv
    <3>2. todo' \subseteq Updatable
      BY <1>7, StartTypeStep DEF TypeParts
    <3>3. phase' = "telling" => lastSeen' = image'
      BY <1>7, <2>2 DEF RecordVersion, StopsByItself, Stopped
    <3> QED
      BY <3>1, <3>2, <3>3 DEF ToldInv, ToldOnce
  <2> QED
    BY <2>1, <2>2
<1>8. ASSUME NEW s \in Updatable, TellSpoke(s) PROVE ToldInv'
  BY <1>8 DEF TellSpoke, ToldInv, ToldOnce, TypeParts
<1>9. CASE AllTold
  BY <1>9, SameVersion DEF AllTold, Skip
<1>10. ASSUME NEW f \in File, NEW r \in RowsOf(f), SaveRow(f, r) \/ DeleteRow(f, r)
       PROVE  ToldInv'
  BY <1>10, SameVersion DEF SaveRow, DeleteRow, Write, StopsByItself, Stopped
<1>11. CASE LoadTenants
  BY <1>11, SameVersion DEF LoadTenants, Write, StopsByItself, Stopped
<1>12. ASSUME NEW f \in File, Vanish(f) PROVE ToldInv'
  BY <1>12, SameVersion DEF Vanish, upgradeVars
<1>13. ASSUME NEW u \in Updater,
              \/ TriggerSelfUpdate(u) \/ BeginUpdate(u) \/ FailUpdate(u)
              \/ FinishUpdate(u)
       PROVE  ToldInv'
  BY <1>13, SameVersion
  DEF TriggerSelfUpdate, BeginUpdate, FailUpdate, FinishUpdate, upgradeVars
<1>14. ASSUME NEW u \in Updater, Pull(u) PROVE ToldInv'
  <2>1. phase = "up"
    BY <1>14 DEF Pull, SelfUpdate
  <2>2. UNCHANGED <<todo, phase, lastSeen>>
    BY <1>14 DEF Pull
  <2> QED
    BY <1>14, <2>1, <2>2, NewImage, SameVersion DEF Pull
<1>15. ASSUME NEW u \in Updater, Restart(u) PROVE ToldInv'
  BY <1>15, SameVersion DEF Restart, Stopped
<1>16. CASE UNCHANGED startVars
  BY <1>16, SameVersion DEF startVars
<1> QED
  BY <1>1, <1>2, <1>3, <1>4, <1>5, <1>6, <1>7, <1>8, <1>9, <1>10, <1>11, <1>12,
     <1>13, <1>14, <1>15, <1>16 DEF StartNext

\* For any number of spokes, versions and crashes, no spoke is told twice to
\* update to one version: the version is recorded before the first command
\* (_trigger_spoke_updates_on_hub_upgrade).
THEOREM ToldOnceCorrect == StartSpec => []ToldOnce
<1>1. StartInit => ToldInv
  BY DEF StartInit, ToldInv, ToldOnce
<1>2. ToldInv => ToldOnce
  BY DEF ToldInv
<1> QED
  BY <1>1, <1>2, StartTypeInit, StartTypeStep, ToldStep, PTL DEF StartSpec

-----------------------------------------------------------------------------
(* HubStart: what was copied survives.                                     *)

\* The steps of a start after f was looked at, and those of the running hub.
Past(f) ==
  CASE f = "users"   -> phase \notin {"down", "users"}
    [] f = "tenants" -> phase \notin {"down", "users", "tenants"}
    [] f = "spokes"  -> phase \notin {"down", "users", "tenants", "spokes"}

\* A file that was copied has rows, or its copy does; and its copy does once a
\* start has passed it, when the file may be written again.
SnapInv ==
  /\ SnapshotSurvives
  /\ \A f \in copied : Past(f) => HasRows(copy[f])

\* A step that writes no copy, at a time when no file or only files that the
\* start has passed may be written.
LEMMA CopiesStay ==
  ASSUME TypeParts, SnapInv, UNCHANGED <<copy, copied>>,
         \A f \in copied : Past(f)' => Past(f),
         \A f \in copied : Past(f) \/ stored'[f] = stored[f]
  PROVE  SnapInv'
<1>1. ASSUME NEW f \in copied
      PROVE  /\ HasRows(stored'[f]) \/ HasRows(copy[f])
             /\ Past(f)' => HasRows(copy[f])
  BY <1>1 DEF SnapInv, SnapshotSurvives
<1>2. copied' = copied /\ copy' = copy
  OBVIOUS
<1>3. /\ \A f \in copied' : HasRows(stored'[f]) \/ HasRows(copy'[f])
      /\ \A f \in copied' : Past(f)' => HasRows(copy'[f])
  BY <1>1, <1>2
<1> QED
  BY <1>3 DEF SnapInv, SnapshotSurvives, HasRows

\* Once a start is past its copies, every file is passed.
LEMMA PastAll ==
  ASSUME phase \in {"migrate", "admin", "version", "telling", "up"}, NEW f \in File
  PROVE  Past(f)
  BY DEF Past, File

\* Each step of a start looks at one file.
LEMMA PastAfter ==
  ASSUME NEW f \in File, phase = f, phase' = After(f), NEW g \in File
  PROVE  /\ Past(g)' => g = f \/ Past(g)
         /\ ~Past(f)
  BY AfterFacts DEF Past, File

\* Every step of the hub keeps the invariant.
LEMMA SnapStep == TypeParts /\ SnapInv /\ [StartNext]_startVars => SnapInv'
<1> SUFFICES ASSUME TypeParts, SnapInv, [StartNext]_startVars PROVE SnapInv'
  OBVIOUS
<1>a. copied \subseteq File
  BY DEF TypeParts
<1>b. phase' = "down" => \A f \in File : ~Past(f)'
  BY DEF Past, File
<1>1. CASE Crash
  BY <1>1, <1>a, <1>b, CopiesStay DEF Crash, StopsByItself, Stopped, fileVars
<1>2. CASE StartHub
  <2>1. \A f \in File : ~Past(f)'
    BY <1>2 DEF StartHub, Skip, Past, File
  <2> QED
    BY <1>2, <1>a, <2>1, CopiesStay DEF StartHub, Skip, fileVars
<1>3. CASE Deploy
  BY <1>3, CopiesStay DEF Deploy, fileVars, Past
<1>4. ASSUME NEW f \in File, Keep(f) PROVE SnapInv'
  <2>1. phase = f
    BY <1>4 DEF Keep
  <2>2. FilesOK(stored) /\ FilesOK(copy)
    BY DEF TypeParts
  <2>3. CASE Big(stored[f]) /\ WriteCopy(f, After(f)) /\ UNCHANGED stored
    <3>1. copied' \subseteq copied \cup {f} /\ \A g \in File \ {f} : copy'[g] = copy[g]
      BY <2>2, <2>3 DEF WriteCopy, FilesOK, Files
    <3>2. \/ copy'[f] = stored[f] /\ phase' = After(f)
          \/ phase' = "down"
      BY <2>2, <2>3 DEF WriteCopy, FilesOK, Files, StopsByItself, Stopped
    <3>3. ASSUME NEW g \in copied', g # f
          PROVE  /\ HasRows(stored'[g]) \/ HasRows(copy'[g])
                 /\ Past(g)' => HasRows(copy'[g])
      <4>1. g \in copied /\ g \in File /\ stored'[g] = stored[g] /\ copy'[g] = copy[g]
        BY <1>a, <2>3, <3>1, <3>3
      <4>2. Past(g)' => Past(g)
        BY <1>b, <2>1, <3>2, <3>3, <4>1, PastAfter
      <4> QED
        BY <4>1, <4>2 DEF SnapInv, SnapshotSurvives, HasRows
    <3>4. f \in copied' => stored[f].is # "torn"
      BY <2>3 DEF WriteCopy
    <3>5. f \in copied' => HasRows(stored[f])
      BY <2>3, <3>4 DEF Big, HasRows
    <3>6. ASSUME f \in copied'
          PROVE  /\ HasRows(stored'[f])
                 /\ Past(f)' => HasRows(copy'[f])
      BY <1>b, <2>3, <3>2, <3>5, <3>6 DEF HasRows
    <3> QED
      BY <3>3, <3>6 DEF SnapInv, SnapshotSurvives, HasRows
  <2>4. CASE /\ ~Big(stored[f]) /\ Big(copy[f]) /\ Write(f, copy[f], After(f))
             /\ UNCHANGED <<copy, copied>>
    <3>1. \A g \in File \ {f} : stored'[g] = stored[g]
      BY <2>2, <2>4 DEF Write, FilesOK, Files
    <3>2. phase' = After(f) \/ phase' = "down"
      BY <2>4 DEF Write, StopsByItself, Stopped
    <3>3. ASSUME NEW g \in copied, g # f
          PROVE  /\ HasRows(stored'[g]) \/ HasRows(copy'[g])
                 /\ Past(g)' => HasRows(copy'[g])
      <4>1. Past(g)' => Past(g)
        BY <1>a, <1>b, <2>1, <3>2, <3>3, PastAfter
      <4> QED
        BY <1>a, <2>4, <3>1, <3>3, <4>1 DEF SnapInv, SnapshotSurvives, HasRows
    <3>4. f \in copied => HasRows(copy[f])
      BY <2>4 DEF SnapInv, SnapshotSurvives, Big, HasRows
    <3> QED
      BY <2>4, <3>3, <3>4 DEF SnapInv, SnapshotSurvives, HasRows
  <2>5. CASE ~Big(stored[f]) /\ Skip(After(f))
    <3>1. UNCHANGED <<stored, copy, copied>> /\ phase' = After(f)
      BY <2>5 DEF Skip, fileVars
    <3>2. ASSUME NEW g \in copied PROVE Past(g)' => HasRows(copy[g])
      <4>1. g \in File /\ (Past(g)' => g = f \/ Past(g))
        BY <1>a, <2>1, <3>1, PastAfter
      <4>2. f \in copied => HasRows(copy[f])
        BY <2>5 DEF SnapInv, SnapshotSurvives, Big, HasRows
      <4> QED
        BY <4>1, <4>2 DEF SnapInv
    <3> QED
      BY <3>1, <3>2 DEF SnapInv, SnapshotSurvives, HasRows
  <2> QED
    BY <1>4, <2>3, <2>4, <2>5 DEF Keep
<1>5. CASE /\ phase \in {"migrate", "admin", "version", "telling", "up"}
           /\ UNCHANGED <<copy, copied>>
  BY <1>5, <1>a, PastAll, CopiesStay
<1>6. MigrateSpokes => UNCHANGED <<copy, copied>> /\ phase = "migrate"
  BY DEF MigrateSpokes, Skip, fileVars
<1>7. EnsureAdmin => UNCHANGED <<copy, copied>> /\ phase = "admin"
  BY DEF EnsureAdmin, Skip, fileVars
<1>8. RecordVersion => UNCHANGED <<copy, copied>> /\ phase = "version"
  BY DEF RecordVersion, fileVars
<1>9. /\ AllTold => UNCHANGED <<copy, copied>> /\ phase = "telling"
      /\ \A s \in Updatable : TellSpoke(s) => UNCHANGED <<copy, copied>> /\ phase = "telling"
  BY DEF AllTold, TellSpoke, Skip, fileVars
<1>10. /\ \A f \in File : \A r \in RowsOf(f) :
            SaveRow(f, r) \/ DeleteRow(f, r) => UNCHANGED <<copy, copied>> /\ phase = "up"
       /\ LoadTenants => UNCHANGED <<copy, copied>> /\ phase = "up"
       /\ \A f \in File : Vanish(f) => UNCHANGED <<copy, copied>> /\ phase = "up"
  BY DEF SaveRow, DeleteRow, LoadTenants, Vanish
<1>11. ASSUME NEW u \in Updater,
              \/ TriggerSelfUpdate(u) \/ BeginUpdate(u) \/ Pull(u)
              \/ FailUpdate(u) \/ FinishUpdate(u) \/ Restart(u)
       PROVE  UNCHANGED <<copy, copied>> /\ phase = "up"
  BY <1>11 DEF TriggerSelfUpdate, BeginUpdate, Pull, FailUpdate, FinishUpdate, Restart,
         SelfUpdate, fileVars
<1>12. CASE UNCHANGED startVars
  BY <1>12, CopiesStay DEF startVars, Past
<1>13. \/ Crash \/ StartHub \/ Deploy \/ (\E f \in File : Keep(f))
       \/ UNCHANGED startVars
       \/ /\ phase \in {"migrate", "admin", "version", "telling", "up"}
          /\ UNCHANGED <<copy, copied>>
  <2>1. CASE MigrateSpokes \/ EnsureAdmin \/ RecordVersion
    BY <1>6, <1>7, <1>8, <2>1
  <2>2. CASE (\E s \in Updatable : TellSpoke(s)) \/ AllTold
    BY <1>9, <2>2
  <2>3. CASE \/ \E f \in File : \E r \in RowsOf(f) : SaveRow(f, r) \/ DeleteRow(f, r)
             \/ LoadTenants
             \/ \E f \in File : Vanish(f)
    BY <1>10, <2>3
  <2>4. CASE \E u \in Updater :
               \/ TriggerSelfUpdate(u) \/ BeginUpdate(u) \/ Pull(u)
               \/ FailUpdate(u) \/ FinishUpdate(u) \/ Restart(u)
    BY <1>11, <2>4
  <2> QED
    BY <2>1, <2>2, <2>3, <2>4 DEF StartNext
<1> QED
  BY <1>1, <1>2, <1>3, <1>4, <1>5, <1>12, <1>13

\* Whatever stops inside whichever write, a file that a start has copied, and
\* its copy, are never both without rows, until a start copies the unreadable
\* rest of a write (init_store, _write_json).
THEOREM SnapshotSurvivesCorrect == StartSpec => []SnapshotSurvives
<1>1. StartInit => SnapInv
  BY DEF StartInit, SnapInv, SnapshotSurvives
<1>2. SnapInv => SnapshotSurvives
  BY DEF SnapInv
<1> QED
  BY <1>1, <1>2, StartTypeInit, StartTypeStep, SnapStep, PTL DEF StartSpec

-----------------------------------------------------------------------------
(* FleetTimers: a schedule fires once.                                     *)

\* What a quotient is.
LEMMA Quotient ==
  ASSUME NEW a \in Nat, NEW b \in Nat \ {0}
  PROVE  /\ a \div b \in Nat
         /\ b * (a \div b) <= a /\ a < b * (a \div b) + b
  OBVIOUS

\* The clock moves by a unit, or back to the first minute from another one.
LEMMA NextUnit ==
  ASSUME NEW c \in 0 .. Minute * Day - 1
  PROVE  LET next == (c + 1) % (Minute * Day)
         IN /\ next \in 0 .. Minute * Day - 1
            /\ next = c + 1 \/ MinuteOf(next) # MinuteOf(c)
<1>1. Minute \in Nat \ {0} /\ Day \in Nat /\ Day > 1
  BY TimersAssumption
<1>2. PICK m \in Nat : m = Minute * Day
  BY <1>1
<1>3. m >= 2 * Minute
  BY <1>1, <1>2
<1>4. CASE c + 1 < m
  <2>1. (c + 1) % m = c + 1
    BY <1>1, <1>2, <1>4
  <2> QED
    BY <1>1, <1>2, <1>4, <2>1
<1>5. CASE c + 1 = m
  <2>1. (c + 1) % m = 0
    BY <1>1, <1>2, <1>3, <1>5
  <2>2. 0 \div Minute = 0
    BY <1>1
  <2>3. c \div Minute # 0
    <3>1. c < Minute * (c \div Minute) + Minute
      BY <1>1, <1>2, Quotient
    <3> QED
      BY <1>1, <1>2, <1>3, <1>5, <3>1
  <2> QED
    BY <1>1, <1>2, <1>3, <1>5, <2>1, <2>2, <2>3 DEF MinuteOf
<1> QED
  BY <1>1, <1>2, <1>4, <1>5

\* What the clock and the loop of the schedules are at.  A spoke whose schedule
\* has fired was served by a pass in this minute, and the next pass is not
\* before the next one: the loop sleeps a minute or more.
ClockInv ==
  /\ up \in BOOLEAN
  /\ clock \in 0 .. Minute * Day - 1
  /\ sleep \in [Loop -> Nat]
  /\ fired \in [Spoke -> Nat]
FiredInv ==
  /\ ScheduledOnce
  /\ \A s \in Spoke : up /\ fired[s] = 1 =>
       sleep["schedule"] + clock >= Minute * MinuteOf(clock) + Minute

\* The loops and their periods.
LEMMA LoopFacts ==
  /\ Loop = {"schedule", "recovery", "purge"}
  /\ Period \in [Loop -> Nat \ {0}] /\ Period["schedule"] = Minute
  BY TimersAssumption DEF Loop, Period

\* A loop that sleeps again sleeps its period or more.
LEMMA SleepsType ==
  ASSUME ClockInv, NEW l \in Loop, Sleeps(l)
  PROVE  /\ sleep' \in [Loop -> Nat] /\ sleep'[l] >= Period[l]
         /\ \A k \in Loop \ {l} : sleep'[k] = sleep[k]
  BY LoopFacts DEF ClockInv, Sleeps, Delay

\* Every step keeps the clock's types.
LEMMA ClockStep == ClockInv /\ [TimersNext]_timersVars => ClockInv'
<1> SUFFICES ASSUME ClockInv, [TimersNext]_timersVars PROVE ClockInv'
  OBVIOUS
<1>1. CASE Tick
  <2>1. clock' \in 0 .. Minute * Day - 1
    BY <1>1, NextUnit DEF Tick, ClockInv
  <2>2. sleep' \in [Loop -> Nat]
    BY <1>1 DEF Tick, ClockInv
  <2>3. fired' \in [Spoke -> Nat]
    BY <1>1 DEF Tick, ClockInv
  <2> QED
    BY <1>1, <2>1, <2>2, <2>3 DEF Tick, ClockInv
<1>2. CASE RecoverSilent
  BY <1>2, LoopFacts, SleepsType DEF RecoverSilent, ClockInv
<1>3. CASE CheckSchedules
  <2>1. fired' \in [Spoke -> Nat]
    BY <1>3 DEF CheckSchedules, ClockInv
  <2> QED
    BY <1>3, <2>1, LoopFacts, SleepsType DEF CheckSchedules, ClockInv
<1>4. CASE PurgeExpired
  BY <1>4, LoopFacts, SleepsType DEF PurgeExpired, ClockInv
<1>5. ASSUME NEW s \in Spoke, ReportAgain(s) \/ SetSchedule(s) PROVE ClockInv'
  BY <1>5 DEF ReportAgain, SetSchedule, ClockInv
<1>6. CASE GoDown
  BY <1>6 DEF GoDown, ClockInv
<1>7. CASE ComeUp
  BY <1>7, LoopFacts DEF ComeUp, ClockInv
<1>8. CASE UNCHANGED timersVars
  BY <1>8 DEF timersVars, ClockInv
<1> QED
  BY <1>1, <1>2, <1>3, <1>4, <1>5, <1>6, <1>7, <1>8 DEF TimersNext

\* Every step keeps the distance between a firing and the next pass.
LEMMA FiredStep == ClockInv /\ FiredInv /\ [TimersNext]_timersVars => FiredInv'
<1> SUFFICES ASSUME ClockInv, FiredInv, [TimersNext]_timersVars PROVE FiredInv'
  OBVIOUS
<1>a. /\ Minute \in Nat \ {0} /\ clock \in Nat /\ MinuteOf(clock) \in Nat
      /\ Minute * MinuteOf(clock) \in Nat
      /\ Minute * MinuteOf(clock) <= clock
      /\ clock < Minute * MinuteOf(clock) + Minute
      /\ "schedule" \in Loop /\ sleep["schedule"] \in Nat
  <2>1. Minute \in Nat \ {0} /\ clock \in Nat
    BY TimersAssumption DEF ClockInv
  <2>2. MinuteOf(clock) \in Nat
    BY <2>1, Quotient DEF MinuteOf
  <2> QED
    BY <2>1, <2>2, Quotient, LoopFacts DEF MinuteOf, ClockInv
<1>b. ASSUME UNCHANGED <<clock, fired>>, up' => up,
             sleep'["schedule"] = sleep["schedule"]
      PROVE  FiredInv'
  BY <1>b DEF FiredInv, ScheduledOnce, MinuteOf
<1>1. CASE Tick
  <2> DEFINE turns == MinuteOf(clock') # MinuteOf(clock)
  <2>1. clock' = (clock + 1) % (Minute * Day)
    BY <1>1 DEF Tick
  <2>2. clock' = clock + 1 \/ turns
    BY <2>1, NextUnit DEF ClockInv
  <2>3. \A s \in Spoke : fired'[s] = IF turns THEN 0 ELSE fired[s]
    BY <1>1, <2>1 DEF Tick
  <2>4. CASE turns
    BY <2>3, <2>4 DEF FiredInv, ScheduledOnce
  <2>5. CASE ~turns
    <3>1. clock' = clock + 1 /\ MinuteOf(clock') = MinuteOf(clock) /\ up' = up
      BY <1>1, <2>2, <2>5 DEF Tick
    <3>2. \A s \in Spoke : fired'[s] = fired[s]
      BY <2>3, <2>5
    <3>3. up => sleep'["schedule"] + clock' = sleep["schedule"] + clock
      <4>1. up => sleep'["schedule"] = sleep["schedule"] - 1
        BY <1>1, <1>a DEF Tick
      <4> QED
        BY <1>a, <3>1, <4>1
    <3>4. /\ \A s \in Spoke : fired'[s] <= 1
          /\ \A s \in Spoke : up' /\ fired'[s] = 1 =>
               sleep'["schedule"] + clock' >= Minute * MinuteOf(clock') + Minute
      BY <3>1, <3>2, <3>3 DEF FiredInv, ScheduledOnce
    <3> QED
      BY <3>4 DEF FiredInv, ScheduledOnce, MinuteOf
  <2> QED
    BY <2>4, <2>5
<1>2. CASE RecoverSilent \/ PurgeExpired
  BY <1>2, <1>b, LoopFacts, SleepsType DEF RecoverSilent, PurgeExpired
<1>3. CASE CheckSchedules
  <2>1. up /\ sleep["schedule"] = 0
    BY <1>3 DEF CheckSchedules, Due
  <2>2. \A s \in Spoke : fired[s] = 0
    <3>1. \A s \in Spoke : fired[s] \in Nat /\ fired[s] <= 1
      BY DEF FiredInv, ScheduledOnce, ClockInv
    <3>2. \A s \in Spoke : fired[s] # 1
      BY <1>a, <2>1 DEF FiredInv
    <3> QED
      BY <3>1, <3>2
  <2>3. \A s \in Spoke : fired'[s] \in {0, 1}
    BY <1>3, <2>2 DEF CheckSchedules, ClockInv
  <2>4. clock' = clock /\ sleep'["schedule"] \in Nat /\ sleep'["schedule"] >= Minute
    BY <1>3, <1>a, LoopFacts, SleepsType DEF CheckSchedules
  <2>5. sleep'["schedule"] + clock' >= Minute * MinuteOf(clock) + Minute
    BY <1>a, <2>4
  <2> QED
    BY <2>3, <2>4, <2>5 DEF FiredInv, ScheduledOnce, MinuteOf
<1>4. ASSUME NEW s \in Spoke, ReportAgain(s) \/ SetSchedule(s) PROVE FiredInv'
  BY <1>4, <1>b DEF ReportAgain, SetSchedule
<1>5. CASE GoDown
  BY <1>5, <1>b DEF GoDown
<1>6. CASE ComeUp
  <2>1. sleep'["schedule"] = Minute /\ clock' = clock /\ fired' = fired
    BY <1>6, LoopFacts DEF ComeUp
  <2>2. sleep'["schedule"] + clock' >= Minute * MinuteOf(clock) + Minute
    BY <1>a, <2>1
  <2> QED
    BY <2>1, <2>2 DEF FiredInv, ScheduledOnce, MinuteOf
<1>7. CASE UNCHANGED timersVars
  BY <1>7, <1>b DEF timersVars
<1> QED
  BY <1>1, <1>2, <1>3, <1>4, <1>5, <1>6, <1>7 DEF TimersNext

\* So it is at the start.
LEMMA TimersStart == TimersInit => ClockInv /\ FiredInv
<1> SUFFICES ASSUME TimersInit PROVE ClockInv /\ FiredInv
  OBVIOUS
<1>1. clock \in 0 .. Minute * Day - 1
  <2>1. Minute \in Nat \ {0} /\ Day \in Nat \ {0}
    BY TimersAssumption
  <2>2. Minute * Day \in Nat \ {0}
    BY <2>1
  <2> QED
    BY <2>2 DEF TimersInit
<1> QED
  BY <1>1, LoopFacts DEF TimersInit, ClockInv, FiredInv, ScheduledOnce

\* For any periods and number of spokes, a schedule fires once in its minute,
\* however often the hub is restarted within it and forgets
\* _last_schedule_trigger (schedule_check).
THEOREM ScheduledOnceCorrect == TimersSpec => []ScheduledOnce
<1>1. FiredInv => ScheduledOnce
  BY DEF FiredInv
<1> QED
  BY <1>1, TimersStart, ClockStep, FiredStep, PTL DEF TimersSpec

-----------------------------------------------------------------------------
(* FleetTimers: rows for a silent spoke stay bounded.                      *)

\* Rows are a pass apart, but that ages are not told apart beyond a life.
Spaced(r) ==
  \A i, j \in DOMAIN r :
    i < j => r[i] = Life \/ r[j] + Recovery * (j - i) <= r[i]
AllYoung(r) == \A i \in DOMAIN r : Young(r[i])
Latest(r) == r[Len(r)]

\* What a row's list is at: the last row and the sleep that is left make a pass.
RowsInv(s) ==
  /\ recovery[s] \in Seq(0 .. Life)
  /\ Spaced(recovery[s])
  /\ Len(recovery[s]) <= MaxRows
  /\ up /\ recovery[s] # <<>> =>
       \/ Latest(recovery[s]) = Life
       \/ Recovery <= Latest(recovery[s]) + sleep["recovery"]
RecoveryInv == /\ recovery \in [Spoke -> Seq(0 .. Life)]
               /\ \A s \in Spoke : RowsInv(s)

\* The constants that matter here.
LEMMA RecoveryFacts ==
  /\ Life \in Nat /\ 1 <= Life /\ Recovery \in Nat /\ 1 <= Recovery
  /\ Period["recovery"] = Recovery /\ "recovery" \in Loop
BY TimersAssumption DEF Period, Loop

\* A product grows with its factor.
LEMMA MoreIsMore ==
  ASSUME NEW a \in Nat, NEW b \in Nat, NEW m \in Nat, a <= b
  PROVE  m * a \in Nat /\ m * b \in Nat /\ m * a <= m * b
<1>1. PICK k \in Nat : b = a + k
  <2>1. b - a \in Nat /\ b = a + (b - a)
    OBVIOUS
  <2>. QED
    BY <2>1
<1>2. m * b = m * a + m * k
  BY <1>1
<1>3. m * a \in Nat /\ m * k \in Nat /\ m * b \in Nat
  OBVIOUS
<1>. QED
  BY <1>2, <1>3

\* A range tells its length.
LEMMA SameRange ==
  ASSUME NEW m \in Nat, NEW n \in Nat, 1 .. m = 1 .. n
  PROVE  m = n
<1>1. CASE m = 0 \/ n = 0
  BY <1>1
<1>2. CASE m # 0 /\ n # 0
  <2>1. m \in 1 .. n /\ n \in 1 .. m
    BY <1>2
  <2>. QED
    BY <2>1
<1>. QED
  BY <1>1, <1>2

\* A sequence of ages as a function.
LEMMA Ages ==
  ASSUME NEW r \in Seq(0 .. Life)
  PROVE  /\ Len(r) \in Nat /\ DOMAIN r = 1 .. Len(r)
         /\ \A i \in DOMAIN r : r[i] \in 0 .. Life /\ r[i] \in Nat
         /\ r # <<>> => Len(r) \in DOMAIN r /\ 1 \in DOMAIN r
         /\ r = <<>> => Len(r) = 0
<1>1. /\ Len(r) \in Nat /\ DOMAIN r = 1 .. Len(r)
      /\ r \in [1 .. Len(r) -> 0 .. Life]
  BY LenProperties
<1>2. \A i \in DOMAIN r : r[i] \in 0 .. Life /\ r[i] \in Nat
  BY <1>1, RecoveryFacts
<1>3. r # <<>> <=> Len(r) # 0
  BY EmptySeq
<1>. QED
  BY <1>1, <1>2, <1>3

\* An older row comes first.
LEMMA OldestFirst ==
  ASSUME NEW r \in Seq(0 .. Life), Spaced(r),
         NEW i \in DOMAIN r, NEW j \in DOMAIN r, i <= j
  PROVE  r[j] <= r[i]
<1>1. /\ Len(r) \in Nat /\ DOMAIN r = 1 .. Len(r)
      /\ r[i] \in 0 .. Life /\ r[j] \in 0 .. Life /\ Life \in Nat
  BY Ages, RecoveryFacts
<1>2. CASE i = j \/ r[i] = Life
  BY <1>1, <1>2
<1>3. CASE i < j /\ r[j] + Recovery * (j - i) <= r[i]
  <2>1. Recovery * (j - i) \in Nat
    BY <1>1, <1>3, RecoveryFacts
  <2>. QED
    BY <1>1, <1>3, <2>1
<1>. QED
  BY <1>1, <1>2, <1>3 DEF Spaced

\* So the ones that are too old are the first so many.
LEMMA OldAreFirst ==
  ASSUME NEW r \in Seq(0 .. Life), Spaced(r)
  PROVE  \E n \in 0 .. Len(r) : \A i \in DOMAIN r : Young(r[i]) <=> n < i
<1> DEFINE Aged == {i \in DOMAIN r : ~Young(r[i])}
           n == Cardinality(Aged)
<1>1. Len(r) \in Nat /\ DOMAIN r = 1 .. Len(r) /\ \A i \in DOMAIN r : r[i] \in Nat
  BY Ages
<1>2. ASSUME NEW i \in DOMAIN r, NEW j \in DOMAIN r, i <= j, ~Young(r[j])
      PROVE  ~Young(r[i])
  <2>1. r[j] <= r[i]
    BY <1>2, OldestFirst
  <2>. QED
    BY <1>1, <1>2, <2>1, RecoveryFacts DEF Young
<1>3. ASSUME NEW k \in Nat
      PROVE  IsFiniteSet(1 .. k) /\ Cardinality(1 .. k) = k
  <2>1. /\ IsFiniteSet(1 .. k)
        /\ Cardinality(1 .. k) = IF 1 > k THEN 0 ELSE k - 1 + 1
    BY FS_Interval
  <2>. QED
    BY <2>1
<1>4. Aged \in SUBSET (1 .. Len(r))
  BY <1>1
<1>5. IsFiniteSet(Aged) /\ n \in Nat /\ n <= Len(r)
  <2>1. IsFiniteSet(1 .. Len(r)) /\ Cardinality(1 .. Len(r)) = Len(r)
    BY <1>1, <1>3
  <2>. QED
    BY <1>4, <2>1, FS_Subset, FS_CardinalityType
<1>6. ASSUME NEW i \in DOMAIN r, Young(r[i])
      PROVE  n < i
  <2>1. i \in Nat /\ 1 <= i /\ i - 1 \in Nat
    BY <1>1
  <2>2. Aged \in SUBSET (1 .. i - 1)
    BY <1>1, <1>2, <1>6
  <2>3. n <= i - 1
    BY <1>3, <2>1, <2>2, FS_Subset
  <2>. QED
    BY <1>5, <2>1, <2>3
<1>7. ASSUME NEW i \in DOMAIN r, ~Young(r[i])
      PROVE  ~(n < i)
  <2>1. i \in Nat
    BY <1>1
  <2>2. (1 .. i) \in SUBSET Aged
    BY <1>1, <1>2, <1>7
  <2>3. Cardinality(1 .. i) = i
    BY <1>3, <2>1
  <2>4. Cardinality(1 .. i) <= Cardinality(Aged)
    BY <1>5, <2>2, FS_Subset
  <2>. QED
    BY <1>5, <2>1, <2>3, <2>4
<1> HIDE DEF n
<1>8. n \in 0 .. Len(r)
  BY <1>1, <1>5
<1>. QED
  BY <1>6, <1>7, <1>8

\* What is left when they have gone: the end of the list.
LEMMA FreshRows ==
  ASSUME NEW r \in Seq(0 .. Life), Spaced(r)
  PROVE  /\ Fresh(r) \in Seq(0 .. Life)
         /\ Len(Fresh(r)) <= Len(r)
         /\ Spaced(Fresh(r)) /\ AllYoung(Fresh(r))
         /\ Fresh(r) # <<>> => r # <<>> /\ Latest(Fresh(r)) = Latest(r)
<1> DEFINE d == CHOOSE n \in 0 .. Len(r) :
                  \A i \in DOMAIN r : Young(r[i]) <=> n < i
           f == Fresh(r)
<1>1. d \in 0 .. Len(r) /\ \A i \in DOMAIN r : Young(r[i]) <=> d < i
  BY OldAreFirst
<1>2. f = SubSeq(r, d + 1, Len(r))
  BY DEF Fresh
<1>3. /\ Len(r) \in Nat /\ DOMAIN r = 1 .. Len(r)
      /\ \A i \in DOMAIN r : r[i] \in 0 .. Life
  BY Ages
<1> HIDE DEF d
<1>4. d \in Nat /\ d <= Len(r) /\ d + 1 \in Int
  BY <1>1, <1>3
<1>5. /\ f \in Seq(0 .. Life)
      /\ Len(f) = Len(r) - d
      /\ \A i \in 1 .. Len(r) - d : f[i] = r[i + d]
  <2>1. \A i \in d + 1 .. Len(r) : r[i] \in 0 .. Life
    BY <1>3, <1>4
  <2>2. /\ f \in Seq(0 .. Life)
        /\ Len(f) = IF d + 1 <= Len(r) THEN Len(r) - (d + 1) + 1 ELSE 0
        /\ \A i \in 1 .. Len(r) - (d + 1) + 1 : f[i] = r[(d + 1) + i - 1]
    <3> HIDE DEF f
    <3>. QED
      BY <1>2, <1>3, <1>4, <2>1, SubSeqProperties
  <2> HIDE DEF f
  <2>3. Len(f) = Len(r) - d
    <3>1. Len(f) = IF d + 1 <= Len(r) THEN Len(r) - (d + 1) + 1 ELSE 0
      BY <2>2
    <3>2. PICK m \in Nat : m = Len(r)
      BY <1>3
    <3>3. d \in Nat /\ d <= m
      BY <1>4, <3>2
    <3>4. Len(f) = IF d + 1 <= m THEN m - (d + 1) + 1 ELSE 0
      BY <3>1, <3>2
    <3>5. CASE d + 1 <= m
      BY <3>2, <3>3, <3>4, <3>5
    <3>6. CASE ~(d + 1 <= m)
      BY <3>2, <3>3, <3>4, <3>6
    <3>. QED
      BY <3>5, <3>6
  <2>4. ASSUME NEW i \in 1 .. Len(r) - d
        PROVE  f[i] = r[i + d]
    <3>1. i \in 1 .. Len(r) - (d + 1) + 1 /\ (d + 1) + i - 1 = i + d
      BY <1>3, <1>4
    <3>2. f[i] = r[(d + 1) + i - 1]
      BY <2>2, <3>1
    <3>. QED
      BY <3>1, <3>2
  <2>. QED
    BY <2>2, <2>3, <2>4
<1> HIDE DEF f
<1>6. DOMAIN f = 1 .. Len(r) - d
  BY <1>5, Ages
<1>7. \A i \in DOMAIN f : /\ i + d \in DOMAIN r /\ d < i + d /\ i \in Nat
                          /\ f[i] = r[i + d]
  BY <1>3, <1>4, <1>5, <1>6
<1>8. AllYoung(f)
  BY <1>1, <1>7 DEF AllYoung
<1>9. Spaced(f)
  <2> SUFFICES ASSUME NEW i \in DOMAIN f, NEW j \in DOMAIN f, i < j
               PROVE  f[i] = Life \/ f[j] + Recovery * (j - i) <= f[i]
    BY DEF Spaced
  <2>1. i + d < j + d /\ (j + d) - (i + d) = j - i
    BY <1>4, <1>7
  <2>2. r[i + d] = Life \/ r[j + d] + Recovery * ((j + d) - (i + d)) <= r[i + d]
    BY <1>7, <2>1 DEF Spaced
  <2>. QED
    BY <1>7, <2>1, <2>2
<1>10. ASSUME f # <<>>
       PROVE  r # <<>> /\ Latest(f) = Latest(r)
  <2>1. Len(f) \in DOMAIN f
    BY <1>5, <1>10, Ages
  <2>2. Len(f) + d = Len(r) /\ f[Len(f)] = r[Len(f) + d]
    BY <1>3, <1>4, <1>5, <1>7, <2>1
  <2>3. r # <<>>
    BY <1>7, <2>1, EmptySeq
  <2>. QED
    BY <2>2, <2>3 DEF Latest
<1>11. Len(f) <= Len(r)
  BY <1>3, <1>4, <1>5
<1>. QED
  BY <1>5, <1>8, <1>9, <1>10, <1>11 DEF f

\* A pass apart, young rows are no more than passes fit in a life, with room
\* for a new one.
LEMMA YoungAreFew ==
  ASSUME NEW f \in Seq(0 .. Life), Spaced(f), AllYoung(f),
         f # <<>> => Recovery <= Latest(f)
  PROVE  /\ \A i \in DOMAIN f : Recovery * (Len(f) + 1 - i) <= f[i]
         /\ Len(f) + 1 <= MaxRows
<1> DEFINE m == Len(f)
<1>1. /\ m \in Nat /\ DOMAIN f = 1 .. m
      /\ \A i \in DOMAIN f : f[i] \in Nat /\ f[i] < Life
      /\ f # <<>> => m \in DOMAIN f /\ 1 \in DOMAIN f
      /\ f = <<>> => m = 0
  BY Ages DEF AllYoung, Young
<1>2. Life \in Nat /\ 1 <= Life /\ Recovery \in Nat /\ 1 <= Recovery
  BY RecoveryFacts
<1>3. ASSUME NEW i \in DOMAIN f
      PROVE  Recovery * (m + 1 - i) <= f[i]
  <2>1. f # <<>> /\ i \in Nat /\ i <= m
    BY <1>1, EmptySeq
  <2>2. f[m] \in Nat /\ Recovery <= f[m] /\ f[i] \in Nat /\ f[i] < Life
    BY <1>1, <2>1 DEF Latest
  <2>3. CASE i = m
    BY <1>1, <1>2, <2>2, <2>3
  <2>4. CASE i < m
    <3> HIDE DEF m
    <3>1. f[i] = Life \/ f[m] + Recovery * (m - i) <= f[i]
      BY <1>1, <2>1, <2>4 DEF Spaced
    <3>2. PICK k \in Nat : k = m - i
      BY <1>1, <2>1, <2>4
    <3>3. Recovery * (m + 1 - i) = Recovery * k + Recovery /\ Recovery * k \in Nat
      <4>1. m + 1 - i = k + 1
        BY <1>1, <2>1, <3>2
      <4>2. Recovery * (k + 1) = Recovery * k + Recovery
        BY <1>2, <3>2
      <4>3. Recovery * k \in Nat
        BY <1>2, <3>2
      <4>. QED
        BY <4>1, <4>2, <4>3
    <3>4. f[m] + Recovery * k <= f[i]
      BY <1>2, <2>2, <3>1, <3>2
    <3>. QED
      BY <1>2, <2>2, <3>3, <3>4
  <2>. QED
    BY <1>1, <2>1, <2>3, <2>4
<1>4. m + 1 <= MaxRows
  <2> DEFINE q == (Life - 1) \div Recovery
  <2>1. /\ Life - 1 \in Nat /\ q \in Nat
        /\ Life - 1 < Recovery * q + Recovery
    BY <1>2, Quotient
  <2>2. Recovery * m <= Life - 1
    <3>1. CASE f = <<>>
      <4>1. m = 0 /\ Recovery * 0 = 0
        BY <1>1, <1>2, <3>1
      <4>. QED
        BY <2>1, <4>1
    <3>2. CASE f # <<>>
      <4>1. 1 \in DOMAIN f /\ f[1] \in Nat /\ f[1] < Life
        BY <1>1, <3>2
      <4>2. Recovery * (m + 1 - 1) <= f[1] /\ m + 1 - 1 = m
        BY <1>1, <1>3, <4>1
      <4>3. Recovery * m \in Nat
        BY <1>1, <1>2
      <4> HIDE DEF m
      <4>. QED
        BY <1>2, <4>1, <4>2, <4>3
    <3>. QED
      BY <3>1, <3>2
  <2> HIDE DEF q, m
  <2>3. ASSUME q + 1 <= m
        PROVE  FALSE
    <3>1. Recovery * (q + 1) <= Recovery * m
      BY <1>1, <1>2, <2>1, <2>3, MoreIsMore
    <3>2. Recovery * (q + 1) = Recovery * q + Recovery
      BY <1>2, <2>1
    <3>3. Recovery * q \in Nat /\ Recovery * m \in Nat
      BY <1>1, <1>2, <2>1
    <3>. QED
      BY <1>2, <2>1, <2>2, <3>1, <3>2, <3>3
  <2>4. m + 1 <= q + 1
    BY <1>1, <2>1, <2>3
  <2>. QED
    BY <2>4 DEF MaxRows, q
<1>. QED
  BY <1>3, <1>4

\* A pass adds its row to them.
LEMMA NewRow ==
  ASSUME NEW f \in Seq(0 .. Life), Spaced(f), AllYoung(f),
         f # <<>> => Recovery <= Latest(f)
  PROVE  LET r == Append(f, 0)
         IN /\ r \in Seq(0 .. Life) /\ Spaced(r)
            /\ Len(r) <= MaxRows /\ Latest(r) = 0
<1> DEFINE r == Append(f, 0)
<1>1. Len(f) \in Nat /\ DOMAIN f = 1 .. Len(f)
  BY Ages
<1>2. 0 \in 0 .. Life
  BY RecoveryFacts
<1>3. /\ r \in Seq(0 .. Life) /\ Len(r) = Len(f) + 1
      /\ \A i \in 1 .. Len(f) : r[i] = f[i]
      /\ r[Len(f) + 1] = 0
  BY <1>1, <1>2, AppendProperties
<1>4. DOMAIN r = 1 .. Len(f) + 1
  <2> HIDE DEF r
  <2>. QED
    BY <1>3, Ages
<1> HIDE DEF r
<1>5. Spaced(r)
  <2> SUFFICES ASSUME NEW i \in DOMAIN r, NEW j \in DOMAIN r, i < j
               PROVE  r[i] = Life \/ r[j] + Recovery * (j - i) <= r[i]
    BY DEF Spaced
  <2>1. i \in DOMAIN f /\ r[i] = f[i] /\ i \in Nat /\ j \in Nat
    BY <1>1, <1>3, <1>4
  <2>2. CASE j \in DOMAIN f
    BY <1>1, <1>3, <2>1, <2>2 DEF Spaced
  <2>3. CASE j = Len(f) + 1
    <3>1. Recovery * (Len(f) + 1 - i) <= f[i]
      BY <2>1, YoungAreFew
    <3>2. Recovery * (Len(f) + 1 - i) \in Int
      BY <1>1, <2>1, RecoveryFacts
    <3>. QED
      BY <1>3, <2>1, <2>3, <3>1, <3>2
  <2>. QED
    BY <1>1, <1>4, <2>2, <2>3
<1>6. Len(r) <= MaxRows
  BY <1>3, YoungAreFew
<1>. QED
  BY <1>3, <1>5, <1>6 DEF r, Latest

\* Time goes by for all rows alike.
LEMMA OlderRows ==
  ASSUME NEW r \in Seq(0 .. Life), Spaced(r)
  PROVE  LET q == [i \in DOMAIN r |-> Least(r[i] + 1, Life)]
         IN /\ q \in Seq(0 .. Life) /\ Spaced(q) /\ Len(q) = Len(r)
            /\ q # <<>> => r # <<>> /\ Latest(q) = Least(Latest(r) + 1, Life)
<1> DEFINE q == [i \in DOMAIN r |-> Least(r[i] + 1, Life)]
<1>1. /\ Len(r) \in Nat /\ DOMAIN r = 1 .. Len(r) /\ Life \in Nat
      /\ \A i \in DOMAIN r : r[i] \in 0 .. Life
  BY Ages, RecoveryFacts
<1>2. \A i \in DOMAIN r : q[i] = Least(r[i] + 1, Life) /\ q[i] \in 0 .. Life
  BY <1>1 DEF Least
<1>3. q \in [1 .. Len(r) -> 0 .. Life] /\ DOMAIN q = DOMAIN r
  BY <1>1, <1>2
<1> HIDE DEF q
<1>4. q \in Seq(0 .. Life)
  BY <1>1, <1>3, SeqDef
<1>5. Len(q) = Len(r)
  <2>1. DOMAIN q = 1 .. Len(q) /\ Len(q) \in Nat
    BY <1>4, Ages
  <2>. QED
    BY <1>1, <1>3, <2>1, SameRange
<1>6. Spaced(q)
  <2> SUFFICES ASSUME NEW i \in DOMAIN q, NEW j \in DOMAIN q, i < j
               PROVE  q[i] = Life \/ q[j] + Recovery * (j - i) <= q[i]
    BY DEF Spaced
  <2>1. /\ i \in DOMAIN r /\ j \in DOMAIN r /\ i \in Nat /\ j \in Nat
        /\ r[i] \in Nat /\ r[j] \in Nat /\ r[i] <= Life
    BY <1>1, <1>3
  <2>2. r[i] = Life \/ r[j] + Recovery * (j - i) <= r[i]
    BY <2>1 DEF Spaced
  <2>3. /\ q[i] = IF r[i] + 1 < Life THEN r[i] + 1 ELSE Life
        /\ q[j] = IF r[j] + 1 < Life THEN r[j] + 1 ELSE Life
    BY <1>2, <2>1 DEF Least
  <2>4. PICK x \in Int : x = Recovery * (j - i)
    BY <2>1, RecoveryFacts
  <2>5. r[i] = Life \/ r[j] + x <= r[i]
    BY <2>2, <2>4
  <2>6. q[i] = Life \/ q[j] + x <= q[i]
    BY <1>1, <2>1, <2>3, <2>5
  <2>. QED
    BY <2>4, <2>6
<1>7. ASSUME q # <<>>
      PROVE  r # <<>> /\ Latest(q) = Least(Latest(r) + 1, Life)
  <2>1. Len(q) \in DOMAIN q
    BY <1>4, <1>7, Ages
  <2>2. Len(r) \in DOMAIN r
    BY <1>3, <1>5, <2>1
  <2>. QED
    BY <1>2, <1>5, <2>2, EmptySeq DEF Latest
<1>. QED
  BY <1>4, <1>5, <1>6, <1>7 DEF q

\* Every step keeps the rows of a spoke a pass apart.
LEMMA RowsStep ==
  ASSUME ClockInv, RecoveryInv, [TimersNext]_timersVars, NEW s \in Spoke
  PROVE  RowsInv(s)'
<1> DEFINE r == recovery[s]
<1>1. /\ r \in Seq(0 .. Life) /\ Spaced(r) /\ Len(r) <= MaxRows
      /\ up /\ r # <<>> => \/ Latest(r) = Life
                           \/ Recovery <= Latest(r) + sleep["recovery"]
  BY DEF RecoveryInv, RowsInv
<1>2. /\ Life \in Nat /\ 1 <= Life /\ Recovery \in Nat /\ 1 <= Recovery
      /\ Period["recovery"] = Recovery /\ "recovery" \in Loop
      /\ sleep \in [Loop -> Nat] /\ sleep["recovery"] \in Nat
      /\ Len(r) \in Nat
  BY <1>1, RecoveryFacts, Ages DEF ClockInv
<1>3. r # <<>> => Latest(r) \in 0 .. Life
  BY <1>1, Ages DEF Latest
<1>4. MaxRows \in Nat
  <2>1. Life - 1 \in Nat /\ Recovery \in Nat \ {0}
    BY <1>2
  <2>. QED
    BY <2>1, Quotient DEF MaxRows
<1>5. /\ Fresh(r) \in Seq(0 .. Life) /\ Spaced(Fresh(r)) /\ AllYoung(Fresh(r))
      /\ Len(Fresh(r)) <= MaxRows
      /\ Fresh(r) # <<>> => r # <<>> /\ Latest(Fresh(r)) = Latest(r)
                            /\ Latest(r) # Life
  <2>1. /\ Fresh(r) \in Seq(0 .. Life) /\ Spaced(Fresh(r)) /\ AllYoung(Fresh(r))
        /\ Len(Fresh(r)) <= Len(r)
        /\ Fresh(r) # <<>> => r # <<>> /\ Latest(Fresh(r)) = Latest(r)
    BY <1>1, FreshRows
  <2>2. Len(Fresh(r)) \in Nat
    BY <2>1, Ages
  <2>3. ASSUME Fresh(r) # <<>>
        PROVE  Latest(Fresh(r)) # Life
    <3>1. Len(Fresh(r)) \in DOMAIN Fresh(r)
      BY <2>1, <2>3, Ages
    <3>. QED
      BY <1>2, <2>1, <3>1 DEF AllYoung, Young, Latest
  <2>. QED
    BY <1>1, <1>2, <1>4, <2>1, <2>2, <2>3
<1> HIDE DEF r
\* A step after which the list is what it was, or what is left of it, when the
\* loop sleeps on or anew.
<1>6. ASSUME recovery'[s] \in {r, Fresh(r)},
             \/ ~up'
             \/ up' = up /\ sleep'["recovery"] = sleep["recovery"]
             \/ sleep'["recovery"] = Recovery
      PROVE  RowsInv(s)'
  <2>1. /\ recovery'[s] \in Seq(0 .. Life) /\ Spaced(recovery'[s])
        /\ Len(recovery'[s]) <= MaxRows
    BY <1>1, <1>5, <1>6
  <2>2. recovery'[s] # <<>> => Latest(recovery'[s]) = Latest(r) /\ r # <<>>
    BY <1>5, <1>6
  <2>3. up' /\ recovery'[s] # <<>> =>
          \/ Latest(recovery'[s]) = Life
          \/ Recovery <= Latest(recovery'[s]) + sleep'["recovery"]
    <3>1. SUFFICES ASSUME up', recovery'[s] # <<>>
                   PROVE  \/ Latest(recovery'[s]) = Life
                          \/ Recovery <= Latest(recovery'[s]) + sleep'["recovery"]
      OBVIOUS
    <3>2. Latest(recovery'[s]) = Latest(r) /\ r # <<>> /\ Latest(r) \in 0 .. Life
      BY <1>3, <2>2, <3>1
    <3>3. CASE up' = up /\ sleep'["recovery"] = sleep["recovery"]
      BY <1>1, <3>1, <3>2, <3>3
    <3>4. CASE sleep'["recovery"] = Recovery
      <4>1. Latest(r) \in Nat
        BY <1>2, <3>2
      <4>. QED
        BY <1>2, <3>2, <3>4, <4>1
    <3>. QED
      BY <1>6, <3>1, <3>3, <3>4
  <2>. QED
    BY <2>1, <2>3 DEF RowsInv, Spaced, Latest
<1>7. CASE Tick
  <2> DEFINE q == [i \in DOMAIN r |-> Least(r[i] + 1, Life)]
  <2>1. recovery'[s] = q /\ up' = up
    BY <1>7 DEF Tick, r
  <2>2. up => sleep'["recovery"] = sleep["recovery"] - 1
    BY <1>2, <1>7 DEF Tick
  <2>3. /\ q \in Seq(0 .. Life) /\ Spaced(q) /\ Len(q) = Len(r)
        /\ q # <<>> => r # <<>> /\ Latest(q) = Least(Latest(r) + 1, Life)
    BY <1>1, OlderRows
  <2> HIDE DEF q
  <2>4. up' /\ q # <<>> => Latest(q) = Life \/ Recovery <= Latest(q) + sleep'["recovery"]
    BY <1>1, <1>2, <1>3, <2>1, <2>2, <2>3 DEF Least
  <2>. QED
    BY <1>1, <2>1, <2>3, <2>4 DEF RowsInv, Spaced, Latest
<1>8. CASE RecoverSilent
  <2>1. sleep["recovery"] = 0 /\ up
    BY <1>8 DEF RecoverSilent, Due
  <2>2. sleep'["recovery"] >= Recovery /\ sleep'["recovery"] \in Nat
    BY <1>2, <1>8, SleepsType DEF RecoverSilent
  <2>3. CASE silent[s] > Silent
    <3> DEFINE n == Append(Fresh(r), 0)
    <3>1. recovery'[s] = n
      BY <1>8, <2>3 DEF RecoverSilent, r
    <3>2. Fresh(r) # <<>> => Recovery <= Latest(Fresh(r))
      BY <1>1, <1>2, <1>3, <1>5, <2>1
    <3>3. n \in Seq(0 .. Life) /\ Spaced(n) /\ Len(n) <= MaxRows /\ Latest(n) = 0
      BY <1>5, <3>2, NewRow
    <3> HIDE DEF n
    <3>4. Recovery <= Latest(n) + sleep'["recovery"]
      BY <1>2, <2>2, <3>3
    <3>. QED
      BY <3>1, <3>3, <3>4 DEF RowsInv, Spaced, Latest
  <2>4. CASE ~(silent[s] > Silent)
    <3>1. recovery'[s] = r
      BY <1>8, <2>4 DEF RecoverSilent, r
    <3>2. r # <<>> => Recovery <= Latest(r) + sleep'["recovery"]
      BY <1>2, <1>3, <2>2
    <3>. QED
      BY <1>1, <3>1, <3>2 DEF RowsInv, Spaced, Latest
  <2>. QED
    BY <2>3, <2>4
<1>9. CASE CheckSchedules \/ PurgeExpired
  <2>1. recovery'[s] \in {r, Fresh(r)} /\ up' = up
    BY <1>9 DEF CheckSchedules, PurgeExpired, r
  <2>2. sleep'["recovery"] = sleep["recovery"]
    BY <1>2, <1>9, LoopFacts, SleepsType DEF CheckSchedules, PurgeExpired
  <2>. QED
    BY <1>6, <2>1, <2>2
<1>10. ASSUME NEW t \in Spoke, ReportAgain(t)
       PROVE  RowsInv(s)'
  <2>1. CASE t = s
    <3>1. recovery'[s] = <<>>
      BY <1>10, <2>1 DEF ReportAgain, RecoveryInv
    <3>2. <<>> \in Seq(0 .. Life) /\ Len(<<>>) = 0 /\ DOMAIN <<>> = {}
      BY EmptySeq
    <3>3. Spaced(<<>>)
      BY <3>2 DEF Spaced
    <3>. QED
      BY <1>4, <3>1, <3>2, <3>3 DEF RowsInv, Spaced
  <2>2. CASE t # s
    <3>1. recovery'[s] = r
      BY <1>10, <2>2 DEF ReportAgain, RecoveryInv, r
    <3>. QED
      BY <1>6, <1>10, <3>1 DEF ReportAgain
  <2>. QED
    BY <2>1, <2>2
<1>11. ASSUME NEW t \in Spoke, SetSchedule(t)
       PROVE  RowsInv(s)'
  BY <1>6, <1>11 DEF SetSchedule, r
<1>12. CASE GoDown
  BY <1>6, <1>12 DEF GoDown, r
<1>13. CASE ComeUp
  BY <1>2, <1>6, <1>13 DEF ComeUp, r
<1>14. CASE UNCHANGED timersVars
  BY <1>6, <1>14 DEF timersVars, r
<1>. QED
  BY <1>7, <1>8, <1>9, <1>10, <1>11, <1>12, <1>13, <1>14 DEF TimersNext

\* It is so at the start, and every step keeps it.
LEMMA RecoveryStart == TimersInit => RecoveryInv
<1> SUFFICES ASSUME TimersInit
             PROVE  RecoveryInv
  OBVIOUS
<1>1. <<>> \in Seq(0 .. Life) /\ Len(<<>>) = 0 /\ DOMAIN <<>> = {}
  BY EmptySeq
<1>2. Spaced(<<>>)
  BY <1>1 DEF Spaced
<1>3. 0 <= MaxRows
  <2>1. Life - 1 \in Nat /\ Recovery \in Nat \ {0}
    BY RecoveryFacts
  <2>2. (Life - 1) \div Recovery \in Nat
    BY <2>1, Quotient
  <2>. QED
    BY <2>2 DEF MaxRows
<1>4. recovery = [s \in Spoke |-> <<>>]
  BY DEF TimersInit
<1>. QED
  BY <1>1, <1>2, <1>3, <1>4 DEF RecoveryInv, RowsInv

\* Steps of the rows of all spokes.
LEMMA RecoveryStep == ClockInv /\ RecoveryInv /\ [TimersNext]_timersVars => RecoveryInv'
<1> SUFFICES ASSUME ClockInv, RecoveryInv, [TimersNext]_timersVars
             PROVE  RecoveryInv'
  OBVIOUS
<1>1. \A s \in Spoke : RowsInv(s)'
  BY RowsStep
<1>2. recovery' = [s \in Spoke |-> recovery'[s]]
  <2>1. CASE Tick
    BY <2>1 DEF Tick
  <2>2. CASE RecoverSilent \/ CheckSchedules \/ PurgeExpired
    BY <2>2 DEF RecoverSilent, CheckSchedules, PurgeExpired
  <2>3. ASSUME NEW s \in Spoke, ReportAgain(s) \/ SetSchedule(s)
        PROVE  recovery' = [t \in Spoke |-> recovery'[t]]
    BY <2>3 DEF ReportAgain, SetSchedule, RecoveryInv
  <2>4. CASE GoDown \/ ComeUp \/ UNCHANGED timersVars
    BY <2>4 DEF GoDown, ComeUp, timersVars, RecoveryInv
  <2>. QED
    BY <2>1, <2>2, <2>3, <2>4 DEF TimersNext
<1>3. \A s \in Spoke : recovery'[s] \in Seq(0 .. Life)
  BY <1>1 DEF RowsInv
<1>4. recovery' \in [Spoke -> Seq(0 .. Life)]
  BY <1>2, <1>3
<1>. QED
  BY <1>1, <1>4 DEF RecoveryInv

\* However long a spoke stays silent and however often the hub is restarted,
\* its auto_recovery rows are no more than passes fit in a row's life
\* (auto_recovery_check, enqueue_command), for any periods and number of spokes.
THEOREM RecoveryBoundedCorrect == TimersSpec => []RecoveryBounded
<1>1. RecoveryInv => RecoveryBounded
  BY DEF RecoveryInv, RowsInv, RecoveryBounded
<1>. QED
  BY <1>1, TimersStart, RecoveryStart, ClockStep, RecoveryStep, PTL DEF TimersSpec

\* What else the timers' variables are.
TimersRest ==
  /\ \A l \in Loop : sleep[l] <= Period[l] + 1
  /\ silent \in [Spoke -> 0 .. Silent + 1]
  /\ onSchedule \subseteq Spoke /\ triggered \subseteq Spoke

\* Every step keeps it.
LEMMA TimersRestStep == ClockInv /\ TimersRest /\ [TimersNext]_timersVars => TimersRest'
<1> SUFFICES ASSUME ClockInv, TimersRest, [TimersNext]_timersVars
             PROVE  TimersRest'
  OBVIOUS
<1>0. /\ Silent \in Nat /\ sleep \in [Loop -> Nat] /\ Period \in [Loop -> Nat \ {0}]
  BY TimersAssumption, LoopFacts DEF ClockInv
<1>1. ASSUME NEW l \in Loop, Sleeps(l)
      PROVE  \A k \in Loop : sleep'[k] <= Period[k] + 1
  <2>1. PICK d \in {Period[l], Period[l] + 1} : sleep' = [sleep EXCEPT ![l] = d]
    BY <1>1 DEF Sleeps, Delay
  <2>2. Period[l] \in Nat
    BY <1>0
  <2>. QED
    BY <1>0, <2>1, <2>2 DEF TimersRest
<1>2. CASE Tick
  <2>1. \A l \in Loop : sleep'[l] <= Period[l] + 1
    BY <1>0, <1>2 DEF Tick, TimersRest
  <2>2. silent' \in [Spoke -> 0 .. Silent + 1]
    <3>1. \A s \in Spoke : Least(silent[s] + 1, Silent + 1) \in 0 .. Silent + 1
      BY <1>0 DEF TimersRest, Least
    <3>. QED
      BY <1>2, <3>1 DEF Tick
  <2>. QED
    BY <1>2, <2>1, <2>2 DEF Tick, TimersRest
<1>3. CASE RecoverSilent \/ CheckSchedules \/ PurgeExpired
  BY <1>1, <1>3, LoopFacts DEF RecoverSilent, CheckSchedules, PurgeExpired, TimersRest
<1>4. ASSUME NEW s \in Spoke, ReportAgain(s) \/ SetSchedule(s)
      PROVE  TimersRest'
  <2>1. CASE ReportAgain(s)
    <3>1. silent' \in [Spoke -> 0 .. Silent + 1]
      BY <1>0, <2>1 DEF ReportAgain, TimersRest
    <3>. QED
      BY <2>1, <3>1 DEF ReportAgain, TimersRest
  <2>2. CASE SetSchedule(s)
    <3>1. onSchedule' \subseteq Spoke
      BY <2>2 DEF SetSchedule, TimersRest
    <3>. QED
      BY <2>2, <3>1 DEF SetSchedule, TimersRest
  <2>. QED
    BY <1>4, <2>1, <2>2
<1>5. CASE GoDown
  BY <1>5 DEF GoDown, TimersRest
<1>6. CASE ComeUp
  <2>1. \A l \in Loop : sleep'[l] <= Period[l] + 1
    BY <1>0, <1>6 DEF ComeUp
  <2>. QED
    BY <1>6, <2>1 DEF ComeUp, TimersRest
<1>7. CASE UNCHANGED timersVars
  BY <1>7 DEF timersVars, TimersRest
<1>. QED
  BY <1>2, <1>3, <1>4, <1>5, <1>6, <1>7 DEF TimersNext

\* The loops' clocks, sleeps, copies and rows keep their types, for any periods
\* and number of spokes.
THEOREM TimersTypeCorrect == TimersSpec => []TimersTypeOK
<1>1. TimersInit => ClockInv /\ TimersRest /\ RecoveryInv
  <2> SUFFICES ASSUME TimersInit
               PROVE  TimersRest
    BY TimersStart, RecoveryStart
  <2>1. Silent \in Nat /\ \A l \in Loop : Period[l] \in Nat
    BY TimersAssumption, LoopFacts
  <2>. QED
    BY <2>1 DEF TimersInit, TimersRest
<1>2. ClockInv /\ TimersRest /\ RecoveryInv => TimersTypeOK
  <2> SUFFICES ASSUME ClockInv, TimersRest, RecoveryInv
               PROVE  TimersTypeOK
    OBVIOUS
  <2>. QED
    BY DEF TimersTypeOK, ClockInv, TimersRest, RecoveryInv
<1>. QED
  BY <1>1, <1>2, ClockStep, TimersRestStep, RecoveryStep, PTL DEF TimersSpec

-----------------------------------------------------------------------------
(* FleetUpdate: types, and nobody is passed over.                          *)

EntryMap == [Host -> EntryValue \cup {NoEntry}]
JobRec == [step: {"none", "polling", "completed"}, polls: 0..JobPolls, entry: EntryMap]
JobsOK ==
  /\ approved \subseteq Host
  /\ version \in [Host -> Versions] /\ shown \in [Host -> Versions]
  /\ toUpdate \in [Host -> SUBSET {"proxmox_agent_update", "self_update"}]
  /\ updateJob \in [UpdateId -> JobRec]
  /\ selfTold \in [UpdateId -> [Host -> Nat]]
  /\ losses \in 0..MaxLoss

\* A spoke is told to update itself when its agent's part ends, and only then:
\* what was queued for it is what its entry says, until the job is completed.
ToldMatches(j) ==
  \A s \in Host :
    /\ ~In(j, s) => selfTold[j][s] = 0
    /\ In(j, s) /\ updateJob[j].entry[s].agent = "pending" => selfTold[j][s] = 0
    /\ In(j, s) /\ updateJob[j].entry[s].agent \in {"updated", "current"} => selfTold[j][s] = 1
    /\ selfTold[j][s] <= 1
NoTimeouts(j) ==
  updateJob[j].step = "polling" =>
    \A s \in Host : "timeout" \notin {updateJob[j].entry[s].agent, updateJob[j].entry[s].spoke}
NotStarted(j) == updateJob[j].step = "none" => \A s \in Host : ~In(j, s)

\* An entry, and what no entry is.
LEMMA EntryFacts ==
  /\ NoEntry \notin EntryValue
  /\ "timeout" \notin {NoEntry.agent, NoEntry.spoke}
  /\ \A e \in EntryValue : /\ e.agent \in {"pending", "updated", "current", "timeout"}
                           /\ e.spoke \in {"pending", "updated", "timeout"}
                           /\ e.before \in Versions /\ e.checks \in 0..AgentPolls
  BY DEF NoEntry, EntryValue

\* What a poll makes of an entry.
LEMMA LookedFacts ==
  ASSUME NEW e \in EntryValue, NEW s \in Host
  PROVE  /\ Looked(e, s) \in EntryValue
         /\ Looked(e, s).agent \in {e.agent, "updated", "current"}
         /\ e.agent # "pending" => Looked(e, s).agent = e.agent
         /\ Looked(e, s).spoke \in {e.spoke, "updated"}
<1>1. /\ AgentLooked(e, s) \in EntryValue
      /\ AgentLooked(e, s).agent \in {e.agent, "updated", "current"}
      /\ e.agent # "pending" => AgentLooked(e, s).agent = e.agent
      /\ AgentLooked(e, s).spoke = e.spoke
  BY UpdateAssumption DEF AgentLooked, EntryValue
<1>2. ASSUME NEW d \in EntryValue
      PROVE  /\ SpokeLooked(d, s) \in EntryValue
             /\ SpokeLooked(d, s).agent = d.agent
             /\ SpokeLooked(d, s).spoke \in {d.spoke, "updated"}
  BY DEF SpokeLooked, EntryValue
<1> QED
  BY <1>1, <1>2 DEF Looked

\* What the deadline makes of an entry, or of none.
LEMMA TimedOutFacts ==
  /\ \A e \in EntryValue :
       /\ TimedOut(e) \in EntryValue
       /\ TimedOut(e).agent = IF e.agent = "pending" THEN "timeout" ELSE e.agent
       /\ TimedOut(e).spoke = IF e.spoke = "pending" THEN "timeout" ELSE e.spoke
  /\ TimedOut(NoEntry) = NoEntry
  BY DEF TimedOut, EntryValue, NoEntry

\* What a start of a job does.
LEMMA UpdateAllFacts ==
  ASSUME JobsOK, NEW j \in UpdateId, UpdateAll(j)
  PROVE  /\ JobsOK'
         /\ updateJob'[j].step = "polling"
         /\ \A s \in Host : updateJob'[j].entry[s] = NoEntry \/
              /\ updateJob'[j].entry[s] \in EntryValue
              /\ updateJob'[j].entry[s].agent = "pending"
              /\ updateJob'[j].entry[s].spoke = "pending"
         /\ \A k \in UpdateId \ {j} : updateJob'[k] = updateJob[k]
<1>1. /\ Snapshot \in EntryMap
      /\ \A s \in Host : Snapshot[s] = NoEntry \/
           (Snapshot[s] \in EntryValue /\ Snapshot[s].agent = "pending" /\ Snapshot[s].spoke = "pending")
  BY UpdateAssumption DEF Snapshot, EntryMap, EntryValue, JobsOK
<1>2. [step |-> "polling", polls |-> 0, entry |-> Snapshot] \in JobRec
  BY <1>1, UpdateAssumption DEF JobRec
<1>3. updateJob' \in [UpdateId -> JobRec]
  BY <1>2 DEF UpdateAll, JobsOK
<1>4. toUpdate' \in [Host -> SUBSET {"proxmox_agent_update", "self_update"}]
  BY DEF UpdateAll, JobsOK
<1>5. /\ updateJob'[j] = [step |-> "polling", polls |-> 0, entry |-> Snapshot]
      /\ \A k \in UpdateId \ {j} : updateJob'[k] = updateJob[k]
  BY DEF UpdateAll, JobsOK
<1>6. JobsOK'
  BY <1>3, <1>4 DEF UpdateAll, JobsOK
<1> QED
  BY <1>1, <1>5, <1>6

\* What a poll does to the entries of its job, and whom it tells.
LEMMA PollFacts ==
  ASSUME JobsOK, NEW j \in UpdateId, PollUpdate(j)
  PROVE  /\ JobsOK'
         /\ updateJob[j].step = "polling" /\ approved' = approved
         /\ updateJob'[j].step \in {"polling", "completed"}
         /\ updateJob'[j].step = "completed" => AllDone(updateJob'[j].entry)
         /\ \A s \in Host :
              /\ updateJob'[j].entry[s] \in
                   {updateJob[j].entry[s]} \cup
                     (IF In(j, s) THEN {Looked(updateJob[j].entry[s], s)} ELSE {})
              /\ selfTold'[j][s] =
                   IF /\ In(j, s) /\ updateJob[j].entry[s].agent = "pending"
                      /\ updateJob'[j].entry[s].agent # "pending"
                   THEN selfTold[j][s] + 1 ELSE selfTold[j][s]
         /\ \A k \in UpdateId \ {j} :
              updateJob'[k] = updateJob[k] /\ selfTold'[k] = selfTold[k]
<1> DEFINE old == updateJob[j].entry
           E == [s \in Host |-> IF s \in approved /\ In(j, s) THEN Looked(old[s], s) ELSE old[s]]
           T == {s \in Host : In(j, s) /\ old[s].agent = "pending" /\ E[s].agent # "pending"}
           J == [step |-> IF AllDone(E) THEN "completed" ELSE "polling",
                 polls |-> updateJob[j].polls + 1, entry |-> E]
<1>1. /\ updateJob[j] \in JobRec /\ old \in EntryMap
      /\ updateJob[j].polls \in 0..JobPolls /\ updateJob[j].polls < JobPolls
  BY DEF JobsOK, JobRec, PollUpdate
<1>2. E \in EntryMap
  <2>1. \A s \in Host : In(j, s) => old[s] \in EntryValue
    BY <1>1 DEF In, EntryMap
  <2> QED
    BY <1>1, <2>1, LookedFacts DEF EntryMap
<1>3. J \in JobRec
  BY <1>1, <1>2, UpdateAssumption DEF JobRec
<1>4. /\ updateJob' = [updateJob EXCEPT ![j] = J]
      /\ toUpdate' = [s \in Host |-> IF s \in T THEN toUpdate[s] \cup {"self_update"}
                                     ELSE toUpdate[s]]
      /\ selfTold' = [selfTold EXCEPT ![j] =
                        [s \in Host |-> IF s \in T THEN selfTold[j][s] + 1 ELSE selfTold[j][s]]]
      /\ updateJob[j].step = "polling"
      /\ UNCHANGED <<approved, version, shown, losses>>
  BY DEF PollUpdate, JobsOK
<1> HIDE DEF J, T, E
<1>5. updateJob' \in [UpdateId -> JobRec]
  BY <1>3, <1>4 DEF JobsOK
<1>6. [s \in Host |-> IF s \in T THEN selfTold[j][s] + 1 ELSE selfTold[j][s]] \in [Host -> Nat]
  BY DEF JobsOK
<1>7. selfTold' \in [UpdateId -> [Host -> Nat]]
  BY <1>4, <1>6 DEF JobsOK
<1>8. toUpdate' \in [Host -> SUBSET {"proxmox_agent_update", "self_update"}]
  BY <1>4 DEF JobsOK
<1>9. JobsOK'
  BY <1>4, <1>5, <1>7, <1>8 DEF JobsOK
<1>10. /\ updateJob'[j] = J
       /\ \A s \in Host : selfTold'[j][s] = IF s \in T THEN selfTold[j][s] + 1 ELSE selfTold[j][s]
       /\ \A k \in UpdateId \ {j} : updateJob'[k] = updateJob[k] /\ selfTold'[k] = selfTold[k]
  BY <1>4 DEF JobsOK
<1>11. /\ updateJob'[j].entry = E
       /\ updateJob'[j].step = IF AllDone(E) THEN "completed" ELSE "polling"
  BY <1>10 DEF J
<1>12. \A s \in Host : E[s] = IF s \in approved /\ In(j, s) THEN Looked(old[s], s) ELSE old[s]
  BY DEF E
<1>13. \A s \in Host : s \in T <=> In(j, s) /\ old[s].agent = "pending" /\ E[s].agent # "pending"
  BY DEF T
<1>14. ASSUME NEW s \in Host
       PROVE  /\ updateJob'[j].entry[s] \in
                   {updateJob[j].entry[s]} \cup
                     (IF In(j, s) THEN {Looked(updateJob[j].entry[s], s)} ELSE {})
              /\ selfTold'[j][s] =
                   IF /\ In(j, s) /\ updateJob[j].entry[s].agent = "pending"
                      /\ updateJob'[j].entry[s].agent # "pending"
                   THEN selfTold[j][s] + 1 ELSE selfTold[j][s]
  BY <1>10, <1>11, <1>12, <1>13
<1>15. approved' = approved
  BY <1>4
<1>16. updateJob'[j].step = "completed" => AllDone(updateJob'[j].entry)
  BY <1>11
<1>17. updateJob'[j].step \in {"polling", "completed"}
  BY <1>11
<1> QED
  BY <1>4, <1>9, <1>10, <1>14, <1>15, <1>16, <1>17

\* What the deadline does to a job.
LEMMA EndFacts ==
  ASSUME JobsOK, NEW j \in UpdateId, EndUpdate(j)
  PROVE  /\ JobsOK'
         /\ updateJob[j].step = "polling" /\ updateJob'[j].step = "completed"
         /\ \A s \in Host : updateJob'[j].entry[s] = TimedOut(updateJob[j].entry[s])
         /\ \A k \in UpdateId \ {j} : updateJob'[k] = updateJob[k]
         /\ UNCHANGED <<approved, selfTold>>
<1> DEFINE old == updateJob[j].entry
           E == [s \in Host |-> TimedOut(old[s])]
<1>1. updateJob[j] \in JobRec /\ old \in EntryMap
  BY DEF JobsOK, JobRec
<1>2. E \in EntryMap
  BY <1>1, TimedOutFacts DEF EntryMap
<1>3. updateJob' = [updateJob EXCEPT ![j] = [step |-> "completed", polls |-> updateJob[j].polls,
                                             entry |-> E]]
  BY DEF EndUpdate, JobsOK
<1> HIDE DEF E
<1>4. [step |-> "completed", polls |-> updateJob[j].polls, entry |-> E] \in JobRec
  BY <1>1, <1>2 DEF JobRec
<1>5. updateJob' \in [UpdateId -> JobRec]
  BY <1>3, <1>4 DEF JobsOK
<1>6. /\ updateJob'[j].step = "completed" /\ updateJob'[j].entry = E
      /\ \A k \in UpdateId \ {j} : updateJob'[k] = updateJob[k]
  BY <1>3 DEF JobsOK
<1>7. JobsOK' /\ updateJob[j].step = "polling" /\ UNCHANGED <<approved, selfTold>>
  BY <1>5 DEF EndUpdate, JobsOK
<1> QED
  BY <1>6, <1>7 DEF E

\* The other steps keep the jobs, or lose them all.
LEMMA OtherFacts ==
  ASSUME JobsOK,
         \/ \E s \in Host : RunUpdate(s) \/ UpdateByHand(s) \/ ShowVersions(s) \/ DeleteHost(s)
         \/ LoseJobs
         \/ UNCHANGED updateVars
  PROVE  /\ JobsOK' /\ approved' \subseteq approved
         /\ \/ UNCHANGED <<updateJob, selfTold>>
            \/ \A j \in UpdateId : /\ updateJob'[j] = NoJob
                                   /\ \A s \in Host : selfTold'[j][s] = 0
<1>1. ASSUME NEW s \in Host, RunUpdate(s) PROVE JobsOK'
  <2>1. /\ \A v \in Versions : [v EXCEPT !.spoke = New] \in Versions
        /\ \A v \in Versions : [v EXCEPT !.agent = New] \in Versions
    BY DEF Versions
  <2>2. version[s] \in Versions
    BY DEF JobsOK
  <2>3. PICK c \in toUpdate[s] :
          /\ toUpdate' = [toUpdate EXCEPT ![s] = @ \ {c}]
          /\ \/ UNCHANGED version
             \/ version' = IF c = "self_update" THEN [version EXCEPT ![s].spoke = New]
                           ELSE [version EXCEPT ![s].agent = New]
    BY <1>1 DEF RunUpdate
  <2>4. \/ UNCHANGED version
        \/ version' = [version EXCEPT ![s] = [version[s] EXCEPT !.spoke = New]]
        \/ version' = [version EXCEPT ![s] = [version[s] EXCEPT !.agent = New]]
    BY <2>3 DEF JobsOK
  <2>5. PICK d \in Versions : version' = version \/ version' = [version EXCEPT ![s] = d]
    BY <2>1, <2>2, <2>4
  <2>6. version' \in [Host -> Versions]
    BY <2>5 DEF JobsOK
  <2>7. toUpdate' \in [Host -> SUBSET {"proxmox_agent_update", "self_update"}]
    BY <2>3 DEF JobsOK
  <2> QED
    BY <1>1, <2>6, <2>7 DEF RunUpdate, JobsOK
<1>2. ASSUME NEW s \in Host, UpdateByHand(s) PROVE JobsOK'
  <2>1. [version[s] EXCEPT !.spoke = New] \in Versions
    BY DEF JobsOK, Versions
  <2>2. version' = [version EXCEPT ![s] = [version[s] EXCEPT !.spoke = New]]
    BY <1>2 DEF UpdateByHand, JobsOK
  <2>3. version' \in [Host -> Versions]
    <3> HIDE DEF Versions
    <3>1. PICK d \in Versions : version' = [version EXCEPT ![s] = d]
      BY <2>1, <2>2
    <3> QED
      BY <3>1 DEF JobsOK
  <2> QED
    BY <1>2, <2>3 DEF UpdateByHand, JobsOK
<1>3. ASSUME NEW s \in Host, ShowVersions(s) PROVE JobsOK'
  BY <1>3 DEF ShowVersions, JobsOK
<1>4. ASSUME NEW s \in Host, DeleteHost(s) PROVE JobsOK'
  <2>1. /\ [agent |-> Unknown, spoke |-> Unknown] \in Versions
        /\ [agent |-> Old, spoke |-> Old] \in Versions
    BY DEF Versions
  <2> QED
    BY <1>4, <2>1 DEF DeleteHost, JobsOK
<1>5. CASE LoseJobs
  <2>1. NoJob \in JobRec /\ losses + 1 \in 0..MaxLoss
    BY <1>5, UpdateAssumption DEF NoJob, JobRec, EntryMap, LoseJobs, JobsOK
  <2>2. JobsOK'
    BY <1>5, <2>1 DEF LoseJobs, JobsOK
  <2>3. \A j \in UpdateId : updateJob'[j] = NoJob /\ \A s \in Host : selfTold'[j][s] = 0
    BY <1>5 DEF LoseJobs
  <2> QED
    BY <1>5, <2>2, <2>3 DEF LoseJobs
<1>6. CASE UNCHANGED updateVars
  BY <1>6 DEF updateVars, JobsOK
<1>7. ASSUME NEW s \in Host,
             RunUpdate(s) \/ UpdateByHand(s) \/ ShowVersions(s) \/ DeleteHost(s)
      PROVE  approved' \subseteq approved /\ UNCHANGED <<updateJob, selfTold>>
  BY <1>7 DEF RunUpdate, UpdateByHand, ShowVersions, DeleteHost
<1>8. UNCHANGED updateVars => approved' \subseteq approved /\ UNCHANGED <<updateJob, selfTold>>
  BY DEF updateVars
<1> QED
  BY <1>1, <1>2, <1>3, <1>4, <1>5, <1>6, <1>7, <1>8

\* Every step keeps the types of the jobs.
LEMMA JobsStep == JobsOK /\ [UpdateNext]_updateVars => JobsOK'
  BY UpdateAllFacts, PollFacts, EndFacts, OtherFacts DEF UpdateNext

\* What the properties say of one job.
SkippedNobody(j) ==
  updateJob[j].step = "completed" =>
    \A s \in approved : In(j, s) =>
      \/ "timeout" \in {updateJob[j].entry[s].agent, updateJob[j].entry[s].spoke}
      \/ selfTold[j][s] = 1 /\ updateJob[j].entry[s].spoke = "updated"
JobInv(j) == ToldMatches(j) /\ NoTimeouts(j) /\ NotStarted(j) /\ SkippedNobody(j)

\* Nothing else looks at a job.
LEMMA JobStays ==
  ASSUME NEW j \in UpdateId, JobsOK, JobInv(j), updateJob'[j] = updateJob[j],
         selfTold'[j] = selfTold[j], approved' \subseteq approved
  PROVE  JobInv(j)'
  BY DEF JobInv, ToldMatches, NoTimeouts, NotStarted, SkippedNobody, In

\* A poll tells a spoke once, and completes a job when all are done.
LEMMA PollKeeps ==
  ASSUME NEW j \in UpdateId, JobsOK, JobInv(j), PollUpdate(j)
  PROVE  JobInv(j)'
<1>1. ASSUME NEW s \in Host, ~In(j, s)
      PROVE  /\ updateJob'[j].entry[s] = updateJob[j].entry[s] /\ ~In(j, s)'
             /\ selfTold'[j][s] = selfTold[j][s]
  BY <1>1, PollFacts DEF In
<1>2. ASSUME NEW s \in Host, In(j, s)
      PROVE  /\ updateJob[j].entry[s] \in EntryValue
             /\ updateJob'[j].entry[s] \in EntryValue
             /\ updateJob'[j].entry[s].agent \in
                  {updateJob[j].entry[s].agent, "updated", "current"}
             /\ updateJob[j].entry[s].agent # "pending" =>
                  updateJob'[j].entry[s].agent = updateJob[j].entry[s].agent
             /\ updateJob'[j].entry[s].spoke \in {updateJob[j].entry[s].spoke, "updated"}
  <2>1. updateJob[j].entry[s] \in EntryValue
    BY <1>2 DEF In, JobsOK, JobRec, EntryMap
  <2>2. updateJob'[j].entry[s] \in
          {updateJob[j].entry[s], Looked(updateJob[j].entry[s], s)}
    BY <1>2, PollFacts
  <2> QED
    BY <2>1, <2>2, LookedFacts
<1>3. ASSUME NEW s \in Host, In(j, s)
      PROVE  selfTold'[j][s] =
               IF /\ updateJob[j].entry[s].agent = "pending"
                  /\ updateJob'[j].entry[s].agent # "pending"
               THEN selfTold[j][s] + 1 ELSE selfTold[j][s]
  BY <1>3, PollFacts
<1>4. ToldMatches(j)'
  <2> SUFFICES ASSUME NEW s \in Host
               PROVE  /\ ~In(j, s)' => selfTold'[j][s] = 0
                      /\ In(j, s)' /\ updateJob'[j].entry[s].agent = "pending" => selfTold'[j][s] = 0
                      /\ In(j, s)' /\ updateJob'[j].entry[s].agent \in {"updated", "current"}
                           => selfTold'[j][s] = 1
                      /\ selfTold'[j][s] <= 1
    BY DEF ToldMatches, In
  <2>1. CASE ~In(j, s)
    BY <1>1, <2>1 DEF JobInv, ToldMatches
  <2>2. CASE In(j, s)
    <3>1. In(j, s)'
      BY <1>2, <2>2, EntryFacts DEF In
    <3>2. selfTold[j][s] \in Nat
      BY DEF JobsOK
    <3>3. CASE updateJob[j].entry[s].agent = "pending"
      BY <1>2, <1>3, <2>2, <3>1, <3>2, <3>3 DEF JobInv, ToldMatches
    <3>4. CASE updateJob[j].entry[s].agent # "pending"
      BY <1>2, <1>3, <2>2, <3>1, <3>2, <3>4 DEF JobInv, ToldMatches
    <3> QED
      BY <3>3, <3>4
  <2> QED
    BY <2>1, <2>2
<1>5. ASSUME NEW s \in Host
      PROVE  "timeout" \notin {updateJob'[j].entry[s].agent, updateJob'[j].entry[s].spoke}
  <2>1. "timeout" \notin {updateJob[j].entry[s].agent, updateJob[j].entry[s].spoke}
    BY PollFacts DEF JobInv, NoTimeouts
  <2> QED
    BY <1>1, <1>2, <2>1
<1>6. ASSUME updateJob'[j].step = "completed", NEW s \in approved', In(j, s)'
      PROVE  selfTold'[j][s] = 1 /\ updateJob'[j].entry[s].spoke = "updated"
  <2>1. s \in approved /\ s \in Host
    BY <1>6, PollFacts DEF JobsOK
  <2>2. updateJob'[j].entry[s].agent # "pending" /\ updateJob'[j].entry[s].spoke # "pending"
    BY <1>6, <2>1, PollFacts DEF AllDone
  <2>3. updateJob'[j].entry[s] \in EntryValue
    BY <1>1, <1>2, <1>6, <2>1
  <2>4. /\ updateJob'[j].entry[s].agent \in {"updated", "current"}
        /\ updateJob'[j].entry[s].spoke = "updated"
    BY <1>5, <2>1, <2>2, <2>3, EntryFacts
  <2> QED
    BY <1>4, <1>6, <2>1, <2>4 DEF ToldMatches
<1> QED
  BY <1>4, <1>5, <1>6, PollFacts DEF JobInv, NoTimeouts, NotStarted, SkippedNobody

\* The deadline leaves a spoke that is neither told nor timed out.
LEMMA EndKeeps ==
  ASSUME NEW j \in UpdateId, JobsOK, JobInv(j), EndUpdate(j)
  PROVE  JobInv(j)'
<1>1. ASSUME NEW s \in Host
      PROVE  /\ In(j, s)' <=> In(j, s)
             /\ In(j, s) =>
                  /\ updateJob[j].entry[s] \in EntryValue
                  /\ updateJob'[j].entry[s].agent =
                       IF updateJob[j].entry[s].agent = "pending" THEN "timeout"
                       ELSE updateJob[j].entry[s].agent
                  /\ updateJob'[j].entry[s].spoke =
                       IF updateJob[j].entry[s].spoke = "pending" THEN "timeout"
                       ELSE updateJob[j].entry[s].spoke
             /\ selfTold'[j][s] = selfTold[j][s]
  <2>1. updateJob[j].entry[s] \in EntryValue \cup {NoEntry}
    BY DEF JobsOK, JobRec, EntryMap
  <2>2. updateJob'[j].entry[s] = TimedOut(updateJob[j].entry[s])
    BY EndFacts
  <2> QED
    BY <2>1, <2>2, EndFacts, TimedOutFacts, EntryFacts DEF In
<1>2. ToldMatches(j)'
  BY <1>1 DEF JobInv, ToldMatches, In
<1>3. NoTimeouts(j)'
  BY EndFacts DEF NoTimeouts
<1>4. ASSUME NEW s \in approved', In(j, s)'
      PROVE  \/ "timeout" \in {updateJob'[j].entry[s].agent, updateJob'[j].entry[s].spoke}
             \/ selfTold'[j][s] = 1 /\ updateJob'[j].entry[s].spoke = "updated"
  <2>1. s \in Host /\ In(j, s)
    BY <1>1, <1>4, EndFacts DEF JobsOK
  <2>2. "timeout" \notin {updateJob[j].entry[s].agent, updateJob[j].entry[s].spoke}
    BY <2>1, EndFacts DEF JobInv, NoTimeouts
  <2> QED
    BY <1>1, <2>1, <2>2, EntryFacts DEF JobInv, ToldMatches
<1> QED
  BY <1>2, <1>3, <1>4, EndFacts DEF JobInv, NotStarted, SkippedNobody

\* Every step keeps what is true of each job.
LEMMA JobInvStep ==
  ASSUME JobsOK, \A j \in UpdateId : JobInv(j), [UpdateNext]_updateVars
  PROVE  \A j \in UpdateId : JobInv(j)'
<1> SUFFICES ASSUME NEW j \in UpdateId PROVE JobInv(j)'
  OBVIOUS
<1>a. JobInv(j)
  OBVIOUS
<1>1. ASSUME NEW k \in UpdateId, UpdateAll(k) PROVE JobInv(j)'
  <2>a. approved' = approved /\ selfTold' = selfTold /\ updateJob[k].step = "none"
    BY <1>1 DEF UpdateAll
  <2>1. CASE j # k
    BY <1>a, <1>1, <2>a, <2>1, UpdateAllFacts, JobStays
  <2>2. CASE j = k
    <3>1. \A s \in Host : selfTold'[j][s] = 0
      BY <2>a, <2>2 DEF JobInv, NotStarted, ToldMatches
    <3> QED
      BY <1>1, <2>2, <3>1, UpdateAllFacts, EntryFacts
      DEF JobInv, ToldMatches, NoTimeouts, NotStarted, SkippedNobody, In
  <2> QED
    BY <2>1, <2>2
<1>2. ASSUME NEW k \in UpdateId, PollUpdate(k) PROVE JobInv(j)'
  BY <1>a, <1>2, PollKeeps, PollFacts, JobStays
<1>3. ASSUME NEW k \in UpdateId, EndUpdate(k) PROVE JobInv(j)'
  BY <1>a, <1>3, EndKeeps, EndFacts, JobStays
<1>4. CASE \/ \E s \in Host : RunUpdate(s) \/ UpdateByHand(s) \/ ShowVersions(s) \/ DeleteHost(s)
           \/ LoseJobs
           \/ UNCHANGED updateVars
  <2>1. CASE UNCHANGED <<updateJob, selfTold>>
    BY <1>a, <1>4, <2>1, OtherFacts, JobStays
  <2>2. CASE updateJob'[j] = NoJob /\ \A s \in Host : selfTold'[j][s] = 0
    <3>1. updateJob'[j].step = "none" /\ \A s \in Host : updateJob'[j].entry[s] = NoEntry
      BY <2>2 DEF NoJob
    <3> QED
      BY <2>2, <3>1 DEF JobInv, ToldMatches, NoTimeouts, NotStarted, SkippedNobody, In
  <2> QED
    BY <1>4, <2>1, <2>2, OtherFacts
<1> QED
  BY <1>1, <1>2, <1>3, <1>4 DEF UpdateNext

\* What is true of each job, of all.
JobsInv == JobsOK /\ \A j \in UpdateId : JobInv(j)

\* It holds of every reachable state.
LEMMA JobsInvCorrect == UpdateSpec => []JobsInv
<1>1. UpdateInit => JobsInv
  <2> SUFFICES ASSUME UpdateInit PROVE JobsInv
    OBVIOUS
  <2>1. JobsOK
    <3>1. NoJob \in JobRec /\ losses \in 0..MaxLoss
      BY UpdateAssumption DEF NoJob, JobRec, EntryMap, UpdateInit
    <3>2. \A a, b \in {Unknown, Old, New} : [agent |-> a, spoke |-> b] \in Versions
      BY DEF Versions
    <3> QED
      BY <3>1, <3>2, UpdateAssumption DEF UpdateInit, JobsOK, Unknown, Old
  <2>2. ASSUME NEW j \in UpdateId PROVE JobInv(j)
    <3>1. updateJob[j].step = "none" /\ \A s \in Host : updateJob[j].entry[s] = NoEntry
      BY DEF UpdateInit, NoJob
    <3>2. \A s \in Host : selfTold[j][s] = 0
      BY DEF UpdateInit
    <3> QED
      BY <3>1, <3>2 DEF JobInv, ToldMatches, NoTimeouts, NotStarted, SkippedNobody, In
  <2> QED
    BY <2>1, <2>2 DEF JobsInv
<1>2. JobsInv /\ [UpdateNext]_updateVars => JobsInv'
  BY JobsStep, JobInvStep DEF JobsInv
<1> QED
  BY <1>1, <1>2, PTL DEF UpdateSpec

\* The jobs' variables keep their types, and no spoke is told twice by a job.
THEOREM UpdateTypeCorrect == UpdateSpec => []UpdateTypeOK
<1>1. JobsInv => UpdateTypeOK
  <2> SUFFICES ASSUME JobsInv PROVE UpdateTypeOK
    OBVIOUS
  <2>1. \A j \in UpdateId : \A s \in Host : selfTold[j][s] \in 0..2
    <3> SUFFICES ASSUME NEW j \in UpdateId, NEW s \in Host PROVE selfTold[j][s] \in 0..2
      OBVIOUS
    <3>1. selfTold[j][s] \in Nat
      BY DEF JobsInv, JobsOK
    <3>2. selfTold[j][s] <= 1
      BY DEF JobsInv, JobInv, ToldMatches
    <3> QED
      BY <3>1, <3>2
  <2>2. selfTold \in [UpdateId -> [Host -> 0..2]]
    BY <2>1 DEF JobsInv, JobsOK
  <2> QED
    BY <2>2 DEF JobsInv, JobsOK, UpdateTypeOK, JobRec, EntryMap
<1> QED
  BY <1>1, JobsInvCorrect, PTL

\* For any number of spokes and jobs, a job that is completed has told every
\* spoke that is still there to update itself, once, and saw its version
\* change, or says that it timed out (update_all_spokes, _poll_update_job).
THEOREM NobodySkippedCorrect == UpdateSpec => []NobodySkipped
<1>1. JobsInv => NobodySkipped
  BY DEF JobsInv, JobInv, SkippedNobody, NobodySkipped
<1> QED
  BY <1>1, JobsInvCorrect, PTL

=============================================================================
