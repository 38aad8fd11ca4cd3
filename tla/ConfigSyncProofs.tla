-------------------------- MODULE ConfigSyncProofs --------------------------
(***************************************************************************)
(* Theorems about the configuration of one spoke (ConfigSync).  The types  *)
(* are proved for every instance; what the hub may conclude from versions  *)
(* and hash, for a spoke that its tenant manages all the time, and for any *)
(* number of edits, configurations and commands in the queue.              *)
(***************************************************************************)
EXTENDS ConfigSync, SequenceTheorems, FiniteSetTheorems, TLAPS

-----------------------------------------------------------------------------
(* The queue's file, and what is on its way.                               *)

DistinctIds ==
  \A i, j \in DOMAIN rows : rows[i].id = rows[j].id => i = j

\* Every delivery takes all that is queued.
QueuedLast ==
  \A i, j \in DOMAIN rows :
    i < j /\ rows[i].status = "queued" => rows[j].status = "queued"

DeliveredIds == {rows[i].id : i \in {j \in DOMAIN rows : rows[j].status = "delivered"}}

\* Commands and answers under way are of rows that wait for them, and a row
\* waits for one of them at most: an id that is used again is free.
UnderWay ==
  /\ \A k \in DOMAIN backlog :
       /\ backlog[k] \in DeliveredIds
       /\ \A success \in BOOLEAN : <<backlog[k], success>> \notin answers
       /\ \A l \in DOMAIN backlog : backlog[k] = backlog[l] => k = l
  /\ \A id \in Id, success \in BOOLEAN :
       <<id, success>> \in answers =>
         id \in DeliveredIds /\ <<id, ~success>> \notin answers

TypeInv == TypeOK /\ DistinctIds /\ QueuedLast /\ UnderWay

-----------------------------------------------------------------------------
(* Versions of a managed spoke.                                            *)

\* Its tenant has a configuration and keeps having one, the row was approved
\* with one, and heartbeats do not rename the spoke.
Managed ==
  /\ First # None
  /\ "disable" \notin Edits
  /\ "renamed" \notin Reports
  /\ Configured

\* Heartbeats then leave the row alone but for the drift check.
Steady ==
  /\ tenant # None
  /\ row.config /\ tel.obj.config
  /\ tel.pc # "save"
  /\ tel.pc = "modify" => tel.tenant # None
  /\ \A i \in DOMAIN rows : rows[i].kind = "update" /\ rows[i].cfg # None
  /\ admin.pc = "save" => admin.obj.config

\* Nothing of a version exists before the version does.
Issued ==
  /\ row.av <= row.cv
  /\ marking <= row.cv
  /\ \A i \in DOMAIN rows : 1 <= rows[i].ver /\ rows[i].ver <= row.cv

Unsent(ver) ==
  /\ row.av < ver /\ marking < ver
  /\ \A i \in DOMAIN rows : rows[i].ver < ver

\* The copy that an edit is about to save is of a version that the drift
\* check may reach in the meantime and cannot go beyond.
Ahead ==
  admin.pc = "save" =>
    /\ admin.obj.av < admin.obj.cv
    /\ admin.obj.av <= row.av
    /\ row.cv <= admin.obj.cv
    /\ row.cv = admin.obj.cv => row.hash = tenant \/ Unsent(row.cv)

VersionInv == TypeInv /\ Steady /\ Issued /\ Ahead

-----------------------------------------------------------------------------
(* While steps end: commands and answers may be lost.                      *)

Answered(id) == <<id, TRUE>> \in answers
InBacklog(id) == \E k \in DOMAIN backlog : backlog[k] = id

\* Commands are in the order of their versions, in the file and under way.
InOrder ==
  \A i, j \in DOMAIN rows :
    /\ i < j => rows[i].ver <= rows[j].ver
    /\ \A k, l \in DOMAIN backlog :
         k < l /\ rows[i].id = backlog[k] /\ rows[j].id = backlog[l]
           => rows[i].ver <= rows[j].ver

\* The row of a command that the spoke has not handled yet.
Ahand(i) == rows[i].status = "queued" \/ InBacklog(rows[i].id)

\* The spoke handled no version above one that it has still to handle.
DoneFirst ==
  \A i \in DOMAIN rows : Ahand(i) =>
    /\ row.av <= rows[i].ver
    /\ marking <= rows[i].ver
    /\ \A j \in DOMAIN rows : Answered(rows[j].id) => rows[j].ver <= rows[i].ver

\* The version that the edit in progress is about, or else the row's.
Target == IF admin.pc = "save" THEN admin.obj.cv ELSE row.cv

\* The spoke is known to have handled this version.
Handled(ver) ==
  \/ row.av = ver
  \/ marking = ver
  \/ \E i \in DOMAIN rows : rows[i].ver = ver /\ Answered(rows[i].id)

\* The last version means what the tenant wants.
LastIsWanted ==
  admin.pc # "list" =>
    /\ \A i \in DOMAIN rows : rows[i].ver = Target => rows[i].cfg = tenant
    /\ Target # 0 /\ Handled(Target) => spokeCfg = tenant

NotPushed == row.cv = 0 => row.hash = NoHash

SyncInv == VersionInv /\ InOrder /\ DoneFirst /\ LastIsWanted /\ NotPushed

-----------------------------------------------------------------------------
(* Edits on the event loop only, and as long as nothing was lost.          *)

NothingLost ==
  /\ \A id \in Id : <<id, FALSE>> \notin answers
  /\ \A id \in DeliveredIds : InBacklog(id) \/ Answered(id)

OnLoop ==
  /\ admin.path = "superadmin"
  /\ admin.pc # "idle" => marking = 0
  /\ admin.pc = "save" => admin.obj.av = row.av

ExecutedIsApplied ==
  \A i \in DOMAIN rows :
    rows[i].status = "executed" => rows[i].ver <= row.av \/ rows[i].ver = marking

PendingIsSent ==
  row.cv > row.av =>
    \/ InQueue("update", row.cv, {"queued", "delivered"})
    \/ marking = row.cv
    \/ tel.pc \in {"drifted", "ensure"} \/ admin.pc = "ensure"

PendingInv ==
  VersionInv /\ NothingLost /\ OnLoop /\ ExecutedIsApplied /\ PendingIsSent

-----------------------------------------------------------------------------
(* What the operations do to the file.                                     *)

\* A row of the file has the fields of a command.
LEMMA RowFields ==
  ASSUME TypeOK, NEW i \in DOMAIN rows
  PROVE  /\ rows[i] \in Command
         /\ rows[i].id \in Id /\ rows[i].kind \in {"update", "clear"}
         /\ rows[i].ver \in Nat /\ rows[i].cfg \in Config
         /\ rows[i].status \in {"queued", "delivered", "executed"}
         /\ DOMAIN rows = 1 .. Len(rows) /\ i \in 1 .. Len(rows) /\ Len(rows) \in Nat
<1>1. rows \in Seq(Command)
  BY DEF TypeOK
<1>2. /\ Len(rows) \in Nat /\ DOMAIN rows = 1 .. Len(rows)
      /\ rows \in [1 .. Len(rows) -> Command]
  BY <1>1, LenProperties
<1>3. rows[i] \in Command
  BY <1>2
<1>. QED
  BY <1>2, <1>3 DEF Command

\* The size of a range.
LEMMA RangeSize ==
  ASSUME NEW m \in Int, NEW n \in Int, m <= n + 1
  PROVE  IsFiniteSet(m .. n) /\ Cardinality(m .. n) = n - m + 1
<1>1. /\ IsFiniteSet(m .. n)
      /\ Cardinality(m .. n) = IF m > n THEN 0 ELSE n - m + 1
  BY FS_Interval
<1>. QED
  BY <1>1

\* There are MaxCmd ids.
LEMMA IdsFinite ==
  ASSUME MaxCmd \in Nat
  PROVE  IsFiniteSet(Id) /\ Cardinality(Id) = MaxCmd
<1>1. IsFiniteSet(1 .. MaxCmd) /\ Cardinality(1 .. MaxCmd) = MaxCmd - 1 + 1
  BY RangeSize
<1>. QED
  BY <1>1 DEF Id

\* A range tells its length.
LEMMA SameRange ==
  ASSUME NEW m \in Nat, NEW n \in Nat, 1 .. m = 1 .. n
  PROVE  m = n
<1>1. CASE m = 0 \/ n = 0
  BY <1>1
<1>2. CASE m # 0 /\ n # 0
  <2>1. m \in 1 .. n /\ n \in 1 .. m
    BY <1>2
  <2>. QED
    BY <2>1
<1>. QED
  BY <1>1, <1>2

\* Rows with different ids are no more than there are ids.
LEMMA RowsBound ==
  ASSUME MaxCmd \in Nat, NEW s \in Seq(Command),
         \A i, j \in 1 .. Len(s) : s[i].id = s[j].id => i = j
  PROVE  Len(s) <= MaxCmd
<1>1. /\ Len(s) \in Nat
      /\ \A i \in 1 .. Len(s) : s[i].id \in Id
  <2>1. /\ Len(s) \in Nat
        /\ s \in [1 .. Len(s) -> Command]
    BY LenProperties
  <2>2. \A i \in 1 .. Len(s) : s[i] \in Command
    BY <2>1
  <2>. QED
    BY <2>1, <2>2 DEF Command
<1> DEFINE f == [i \in 1 .. Len(s) |-> s[i].id]
<1>2. f \in Injection(1 .. Len(s), Id)
  BY <1>1 DEF Injection, IsInjective
<1>3. IsFiniteSet(Id) /\ Cardinality(Id) = MaxCmd
  BY IdsFinite
<1>4. Cardinality(1 .. Len(s)) = Len(s)
  <2>1. Cardinality(1 .. Len(s)) = Len(s) - 1 + 1
    BY <1>1, RangeSize
  <2>. QED
    BY <1>1, <2>1
<1>5. Cardinality(1 .. Len(s)) <= Cardinality(Id)
  BY <1>2, <1>3, FS_Injection
<1>. QED
  BY <1>3, <1>4, <1>5

\* The same of the commands under way.
LEMMA BacklogBound ==
  ASSUME MaxCmd \in Nat, NEW s \in Seq(Id),
         \A i, j \in 1 .. Len(s) : s[i] = s[j] => i = j
  PROVE  Len(s) <= MaxCmd
<1>1. /\ Len(s) \in Nat
      /\ s \in [1 .. Len(s) -> Id]
  BY LenProperties
<1>2. s \in Injection(1 .. Len(s), Id)
  BY <1>1 DEF Injection, IsInjective
<1>3. IsFiniteSet(Id) /\ Cardinality(Id) = MaxCmd
  BY IdsFinite
<1>4. Cardinality(1 .. Len(s)) = Len(s)
  <2>1. Cardinality(1 .. Len(s)) = Len(s) - 1 + 1
    BY <1>1, RangeSize
  <2>. QED
    BY <1>1, <2>1
<1>5. Cardinality(1 .. Len(s)) <= Cardinality(Id)
  BY <1>2, <1>3, FS_Injection
<1>. QED
  BY <1>3, <1>4, <1>5

\* A new row at the end of the file.
Appended(kind, ver, cfg) ==
  /\ rows' \in Seq(Command)
  /\ Len(rows') = Len(rows) + 1
  /\ \A i \in DOMAIN rows : rows'[i] = rows[i] /\ rows[i].id # rows'[Len(rows) + 1].id
  /\ rows'[Len(rows) + 1].kind = kind
  /\ rows'[Len(rows) + 1].ver = ver
  /\ rows'[Len(rows) + 1].cfg = cfg
  /\ rows'[Len(rows) + 1].status = "queued"

\* Queue appends a row whose id no other row has.
LEMMA QueueAppends ==
  ASSUME TypeOK, NEW kind \in {"update", "clear"}, NEW ver \in Nat,
         NEW cfg \in Config, Queue(kind, ver, cfg)
  PROVE  Appended(kind, ver, cfg)
<1> DEFINE free == CHOOSE id \in FreeIds : TRUE
           new == [id |-> free, kind |-> kind, ver |-> ver, cfg |-> cfg,
                   status |-> "queued"]
<1>1. free \in FreeIds /\ rows' = Append(rows, new)
  BY DEF Queue
<1>2. free \in Id /\ \A i \in DOMAIN rows : rows[i].id # free
  BY <1>1 DEF FreeIds
<1>3. new \in Command
  BY <1>2 DEF Command
<1>4. rows \in Seq(Command) /\ Len(rows) \in Nat /\ DOMAIN rows = 1 .. Len(rows)
  BY LenProperties DEF TypeOK
<1>5. /\ rows' \in Seq(Command) /\ Len(rows') = Len(rows) + 1
      /\ \A i \in 1 .. Len(rows) : rows'[i] = rows[i]
      /\ rows'[Len(rows) + 1] = new
  BY <1>1, <1>3, <1>4, AppendProperties
<1>6. /\ new.kind = kind /\ new.ver = ver /\ new.cfg = cfg
      /\ new.status = "queued" /\ new.id = free
  OBVIOUS
<1> HIDE DEF new, free
<1>. QED
  BY <1>2, <1>4, <1>5, <1>6 DEF Appended

\* Some rows have changed their status.
Restatus(before, ids, after) ==
  /\ rows' \in Seq(Command)
  /\ Len(rows') = Len(rows) /\ DOMAIN rows' = DOMAIN rows
  /\ \A i \in DOMAIN rows :
       /\ rows'[i].id = rows[i].id /\ rows'[i].kind = rows[i].kind
       /\ rows'[i].ver = rows[i].ver /\ rows'[i].cfg = rows[i].cfg
       /\ rows'[i].status = IF rows[i].status = before /\ rows[i].id \in ids
                            THEN after ELSE rows[i].status

\* Marked changes the status of rows and nothing else.
LEMMA MarkedRestatus ==
  ASSUME TypeOK, NEW before, NEW ids, NEW after \in {"queued", "delivered", "executed"},
         rows' = Marked(before, ids, after)
  PROVE  Restatus(before, ids, after)
<1> DEFINE e(i) == IF rows[i].status = before /\ rows[i].id \in ids
                   THEN [rows[i] EXCEPT !.status = after] ELSE rows[i]
<1>1. rows \in Seq(Command) /\ Len(rows) \in Nat /\ DOMAIN rows = 1 .. Len(rows)
  BY LenProperties DEF TypeOK
<1>2. ASSUME NEW i \in 1 .. Len(rows)
      PROVE  /\ e(i) \in Command
             /\ e(i).id = rows[i].id /\ e(i).kind = rows[i].kind
             /\ e(i).ver = rows[i].ver /\ e(i).cfg = rows[i].cfg
             /\ e(i).status = IF rows[i].status = before /\ rows[i].id \in ids
                              THEN after ELSE rows[i].status
  <2>1. rows[i] \in Command
    BY <1>1, RowFields
  <2>2. [rows[i] EXCEPT !.status = after] \in Command
    BY <2>1 DEF Command
  <2>3. /\ [rows[i] EXCEPT !.status = after].id = rows[i].id
        /\ [rows[i] EXCEPT !.status = after].kind = rows[i].kind
        /\ [rows[i] EXCEPT !.status = after].ver = rows[i].ver
        /\ [rows[i] EXCEPT !.status = after].cfg = rows[i].cfg
        /\ [rows[i] EXCEPT !.status = after].status = after
    BY <2>1 DEF Command
  <2>. QED
    BY <2>1, <2>2, <2>3
<1>3. rows' = [i \in 1 .. Len(rows) |-> e(i)]
  BY <1>1 DEF Marked
<1> HIDE DEF e
<1>4. rows' \in Seq(Command)
  <2>1. \A i \in 1 .. Len(rows) : e(i) \in Command
    BY <1>2
  <2>2. rows' \in [1 .. Len(rows) -> Command]
    BY <1>3, <2>1
  <2>. QED
    BY <1>1, <2>2, SeqDef
<1>5. DOMAIN rows' = 1 .. Len(rows) /\ Len(rows') = Len(rows)
  <2>1. DOMAIN rows' = 1 .. Len(rows')  /\ Len(rows') \in Nat
    BY <1>4, LenProperties
  <2>2. DOMAIN rows' = 1 .. Len(rows)
    BY <1>3
  <2>. QED
    BY <2>1, <2>2, <1>1, SameRange
<1>6. \A i \in 1 .. Len(rows) : rows'[i] = e(i)
  BY <1>3
<1>. QED
  BY <1>1, <1>2, <1>4, <1>5, <1>6 DEF Restatus

\* The row at this place has gone.
Without(i) ==
  /\ rows' \in Seq(Command)
  /\ Len(rows') = Len(rows) - 1 /\ DOMAIN rows' = 1 .. Len(rows) - 1
  /\ \A j \in 1 .. Len(rows) - 1 : rows'[j] = rows[IF j < i THEN j ELSE j + 1]

\* RemoveAt takes one row out and leaves the others in their order.
LEMMA RemovedWithout ==
  ASSUME TypeOK, NEW i \in DOMAIN rows, rows' = RemoveAt(rows, i)
  PROVE  Without(i)
<1>1. /\ rows \in Seq(Command) /\ Len(rows) \in Nat /\ DOMAIN rows = 1 .. Len(rows)
      /\ i \in 1 .. Len(rows) /\ \A j \in 1 .. Len(rows) : rows[j] \in Command
  BY LenProperties, RowFields DEF TypeOK
<1> DEFINE s == SubSeq(rows, 1, i - 1)
           t == SubSeq(rows, i + 1, Len(rows))
<1>2. /\ s \in Seq(Command) /\ Len(s) = i - 1
      /\ \A j \in 1 .. i - 1 : s[j] = rows[j]
  <2>1. /\ s \in Seq(Command) /\ Len(s) = IF 1 <= i - 1 THEN (i - 1) - 1 + 1 ELSE 0
        /\ \A j \in 1 .. (i - 1) - 1 + 1 : s[j] = rows[1 + j - 1]
    BY <1>1, SubSeqProperties
  <2>. QED
    BY <1>1, <2>1
<1>3. /\ t \in Seq(Command) /\ Len(t) = Len(rows) - i
      /\ \A j \in 1 .. Len(rows) - i : t[j] = rows[i + j]
  <2>1. /\ t \in Seq(Command)
        /\ Len(t) = IF i + 1 <= Len(rows) THEN Len(rows) - (i + 1) + 1 ELSE 0
        /\ \A j \in 1 .. Len(rows) - (i + 1) + 1 : t[j] = rows[(i + 1) + j - 1]
    BY <1>1, SubSeqProperties
  <2>2. Len(t) = Len(rows) - i
    BY <1>1, <2>1
  <2>3. ASSUME NEW j \in 1 .. Len(rows) - i
        PROVE  t[j] = rows[i + j]
    <3>1. j \in 1 .. Len(rows) - (i + 1) + 1 /\ (i + 1) + j - 1 = i + j
      BY <1>1
    <3>. HIDE DEF t
    <3>. QED
      BY <2>1, <3>1
  <2>. QED
    BY <2>1, <2>2, <2>3
<1>4. rows' = s \o t
  BY DEF RemoveAt
<1> HIDE DEF s, t
<1>5. /\ rows' \in Seq(Command) /\ Len(rows') = Len(s) + Len(t)
      /\ \A j \in 1 .. Len(s) + Len(t) :
           rows'[j] = IF j <= Len(s) THEN s[j] ELSE t[j - Len(s)]
  BY <1>2, <1>3, <1>4, ConcatProperties
<1>6. Len(rows') = Len(rows) - 1 /\ DOMAIN rows' = 1 .. Len(rows) - 1
  BY <1>1, <1>2, <1>3, <1>5, LenProperties
<1>7. ASSUME NEW j \in 1 .. Len(rows) - 1
      PROVE  rows'[j] = rows[IF j < i THEN j ELSE j + 1]
  <2>1. j \in 1 .. Len(s) + Len(t)
    BY <1>1, <1>2, <1>3
  <2>2. CASE j < i
    <3>1. j \in 1 .. i - 1 /\ j <= Len(s)
      BY <1>1, <1>2, <2>2
    <3>. QED
      BY <1>2, <1>5, <2>1, <2>2, <3>1
  <2>3. CASE ~(j < i)
    <3>1. /\ ~(j <= Len(s)) /\ j - Len(s) \in 1 .. Len(rows) - i
          /\ i + (j - Len(s)) = j + 1
      BY <1>1, <1>2, <2>3
    <3>2. rows'[j] = t[j - Len(s)]
      BY <1>5, <2>1, <3>1
    <3>3. t[j - Len(s)] = rows[i + (j - Len(s))]
      BY <1>3, <3>1
    <3>. QED
      BY <2>3, <3>1, <3>2, <3>3
  <2>. QED
    BY <2>2, <2>3
<1>. QED
  BY <1>5, <1>6, <1>7 DEF Without

\* What of the file the queue's invariants are about.
QueueInv == DistinctIds /\ QueuedLast /\ UnderWay

\* The queue's part of TypeOK.
QueueTypes ==
  /\ rows \in Seq(Command) /\ Len(rows) <= MaxCmd
  /\ backlog \in Seq(Id) /\ Len(backlog) <= MaxCmd
  /\ answers \subseteq Id \X BOOLEAN

\* A new row has a new id and comes last.
LEMMA AppendedInv ==
  ASSUME TypeInv, NEW kind, NEW ver, NEW cfg, Appended(kind, ver, cfg),
         UNCHANGED <<backlog, answers>>
  PROVE  (QueueInv /\ QueueTypes)'
<1> DEFINE n == Len(rows) + 1
<1>1. /\ rows \in Seq(Command) /\ Len(rows) \in Nat /\ DOMAIN rows = 1 .. Len(rows)
      /\ n \in Nat /\ DOMAIN rows' = 1 .. n /\ n \in DOMAIN rows'
      /\ \A i \in DOMAIN rows' : i = n \/ (i \in DOMAIN rows /\ i < n)
      /\ \A i \in DOMAIN rows : i \in DOMAIN rows' /\ i < n
  <2>1. rows \in Seq(Command) /\ Len(rows) \in Nat /\ DOMAIN rows = 1 .. Len(rows)
    BY LenProperties DEF TypeInv, TypeOK
  <2>2. Len(rows') = n /\ DOMAIN rows' = 1 .. Len(rows')
    BY LenProperties DEF Appended
  <2>. QED
    BY <2>1, <2>2
<1>2. /\ \A i \in DOMAIN rows : rows'[i] = rows[i] /\ rows[i].id # rows'[n].id
      /\ rows'[n].status = "queued"
  BY DEF Appended
<1> HIDE DEF n
<1>3. DistinctIds'
  BY <1>1, <1>2 DEF DistinctIds, TypeInv
<1>4. QueuedLast'
  BY <1>1, <1>2 DEF QueuedLast, TypeInv
<1>5. DeliveredIds' = DeliveredIds
  BY <1>1, <1>2 DEF DeliveredIds
<1>6. UnderWay'
  BY <1>5 DEF UnderWay, TypeInv
<1>7. QueueTypes'
  <2>1. rows' \in Seq(Command) /\ Len(rows') = n /\ DOMAIN rows' = 1 .. n
    BY <1>1 DEF Appended, n
  <2>2. \A i, j \in 1 .. Len(rows') : rows'[i].id = rows'[j].id => i = j
    BY <1>3, <2>1 DEF DistinctIds
  <2>3. Len(rows') <= MaxCmd
    BY <2>1, <2>2, RowsBound, ConfigAssumption
  <2>. QED
    BY <2>1, <2>3 DEF QueueTypes, TypeInv, TypeOK
<1>. QED
  BY <1>3, <1>4, <1>6, <1>7 DEF QueueInv

\* An acknowledged row no longer waits; no answer to it is left.
LEMMA AckedInv ==
  ASSUME TypeInv, NEW id \in Id, NEW success \in BOOLEAN, HandleAck(id, success)
  PROVE  (QueueInv /\ QueueTypes)'
<1>1. Restatus("delivered", {id}, "executed")
  BY MarkedRestatus DEF HandleAck, TypeInv
<1>2. /\ DOMAIN rows' = DOMAIN rows /\ Len(rows') = Len(rows)
      /\ \A i \in DOMAIN rows :
           /\ rows'[i].id = rows[i].id
           /\ rows'[i].status = IF rows[i].status = "delivered" /\ rows[i].id \in {id}
                                THEN "executed" ELSE rows[i].status
  BY <1>1 DEF Restatus
<1>3. DistinctIds'
  BY <1>2 DEF DistinctIds, TypeInv
<1>4. QueuedLast'
  BY <1>2 DEF QueuedLast, TypeInv
<1>5. \A d \in DeliveredIds : d # id => d \in DeliveredIds'
  BY <1>2 DEF DeliveredIds
<1>6. UnderWay'
  <2>1. <<id, success>> \in answers /\ answers' = answers \ {<<id, success>>}
        /\ backlog' = backlog
    BY DEF HandleAck
  <2>2. \A s \in BOOLEAN : <<id, s>> \notin answers'
    BY <2>1 DEF UnderWay, TypeInv
  <2>3. \A k \in DOMAIN backlog : backlog[k] # id
    BY <2>1 DEF UnderWay, TypeInv
  <2>4. \A d \in Id, s \in BOOLEAN :
          <<d, s>> \in answers' => d # id /\ <<d, s>> \in answers
    BY <2>1, <2>2
  <2>5. ASSUME NEW d \in Id, NEW s \in BOOLEAN, <<d, s>> \in answers'
        PROVE  d \in DeliveredIds' /\ <<d, ~s>> \notin answers'
    BY <1>5, <2>1, <2>4, <2>5 DEF UnderWay, TypeInv
  <2>6. ASSUME NEW k \in DOMAIN backlog'
        PROVE  /\ backlog'[k] \in DeliveredIds'
               /\ \A s \in BOOLEAN : <<backlog'[k], s>> \notin answers'
               /\ \A l \in DOMAIN backlog' : backlog'[k] = backlog'[l] => k = l
    BY <1>5, <2>1, <2>3 DEF UnderWay, TypeInv
  <2>. QED
    BY <2>5, <2>6 DEF UnderWay
<1>7. QueueTypes'
  BY <1>1 DEF QueueTypes, TypeInv, TypeOK, HandleAck, Restatus
<1>. QED
  BY <1>3, <1>4, <1>6, <1>7 DEF QueueInv

\* A row goes only when nothing of it is under way.
LEMMA ExpiredInv ==
  ASSUME TypeInv, NEW id \in Id, Expire(id) \/ ExpireQueued(id)
  PROVE  (QueueInv /\ QueueTypes)'
<1>1. PICK e \in DOMAIN rows :
        /\ rows[e].id = id
        /\ \/ rows[e].status \in {"executed", "queued"}
           \/ id \notin ToSet(backlog) /\ answers \cap ({id} \X BOOLEAN) = {}
        /\ rows' = RemoveAt(rows, e)
  BY DEF Expire, ExpireQueued
<1>2. Without(e) /\ UNCHANGED <<backlog, answers>>
  <2>1. TypeOK /\ rows' = RemoveAt(rows, e)
    BY <1>1 DEF TypeInv
  <2>. QED
    BY <2>1, RemovedWithout DEF Expire, ExpireQueued, spoke
<1> DEFINE old(j) == IF j < e THEN j ELSE j + 1
<1>3. /\ rows \in Seq(Command) /\ Len(rows) \in Nat /\ DOMAIN rows = 1 .. Len(rows)
  BY LenProperties DEF TypeInv, TypeOK
<1>4. /\ \A j \in DOMAIN rows' : old(j) \in DOMAIN rows /\ old(j) # e /\ rows'[j] = rows[old(j)]
      /\ \A i, j \in DOMAIN rows' : i < j <=> old(i) < old(j)
      /\ \A i, j \in DOMAIN rows' : old(i) = old(j) => i = j
  BY <1>2, <1>3 DEF Without
<1>5. \A i \in DOMAIN rows : i # e => \E j \in DOMAIN rows' : old(j) = i
  <2>1. ASSUME NEW i \in DOMAIN rows, i # e
        PROVE  \E j \in DOMAIN rows' : old(j) = i
    <3>1. CASE i < e
      <4>1. i \in DOMAIN rows' /\ old(i) = i
        BY <1>2, <1>3, <2>1, <3>1 DEF Without
      <4>. QED
        BY <4>1
    <3>2. CASE i > e
      <4>1. i - 1 \in DOMAIN rows' /\ old(i - 1) = i
        BY <1>2, <1>3, <2>1, <3>2 DEF Without
      <4>. QED
        BY <4>1
    <3>. QED
      BY <1>3, <2>1, <3>1, <3>2
  <2>. QED
    BY <2>1
<1> HIDE DEF old
<1>6. DistinctIds'
  BY <1>4 DEF DistinctIds, TypeInv
<1>7. QueuedLast'
  BY <1>4 DEF QueuedLast, TypeInv
<1>8. \A d \in DeliveredIds : d # id => d \in DeliveredIds'
  <2>1. ASSUME NEW d \in DeliveredIds, d # id
        PROVE  d \in DeliveredIds'
    <3>1. PICK i \in DOMAIN rows : rows[i].status = "delivered" /\ rows[i].id = d
      BY <2>1 DEF DeliveredIds
    <3>2. PICK j \in DOMAIN rows' : old(j) = i
      BY <1>1, <1>5, <2>1, <3>1
    <3>. QED
      BY <1>4, <3>1, <3>2 DEF DeliveredIds
  <2>. QED
    BY <2>1
<1>9. UnderWay'
  <2>1. \A s \in BOOLEAN : <<id, s>> \notin answers
    <3>1. CASE rows[e].status \in {"executed", "queued"}
      <4>1. id \notin DeliveredIds
        BY <1>1, <3>1 DEF DeliveredIds, DistinctIds, TypeInv
      <4>. QED
        BY <4>1 DEF UnderWay, TypeInv
    <3>2. CASE answers \cap ({id} \X BOOLEAN) = {}
      BY <3>2
    <3>. QED
      BY <1>1, <3>1, <3>2
  <2>2. \A k \in DOMAIN backlog : backlog[k] # id
    <3>1. CASE rows[e].status \in {"executed", "queued"}
      <4>1. id \notin DeliveredIds
        BY <1>1, <3>1 DEF DeliveredIds, DistinctIds, TypeInv
      <4>. QED
        BY <4>1 DEF UnderWay, TypeInv
    <3>2. CASE id \notin ToSet(backlog)
      BY <3>2 DEF ToSet
    <3>. QED
      BY <1>1, <3>1, <3>2
  <2>. QED
    BY <1>2, <1>8, <2>1, <2>2 DEF UnderWay, TypeInv
<1>10. QueueTypes'
  BY <1>2, <1>3, ConfigAssumption DEF QueueTypes, TypeInv, TypeOK, Without
<1>. QED
  BY <1>6, <1>7, <1>9, <1>10 DEF QueueInv

\* The first command under way is handled, or lost.
Forwarded ==
  /\ backlog # <<>> /\ backlog' = Tail(backlog) /\ UNCHANGED rows
  /\ \/ UNCHANGED answers
     \/ \E success \in BOOLEAN : answers' = answers \cup {<<Head(backlog), success>>}

\* An answer takes the place of the command.
LEMMA ForwardedInv ==
  ASSUME TypeInv, Forwarded
  PROVE  (QueueInv /\ QueueTypes)'
<1>1. /\ backlog \in Seq(Id) /\ Len(backlog) \in Nat /\ DOMAIN backlog = 1 .. Len(backlog)
      /\ Len(backlog) <= MaxCmd /\ backlog # <<>>
  BY LenProperties DEF TypeInv, TypeOK, Forwarded
<1>2. /\ Head(backlog) \in Id /\ backlog' \in Seq(Id) /\ Len(backlog') = Len(backlog) - 1
      /\ \A i \in 1 .. Len(backlog') : backlog'[i] = backlog[i + 1]
  BY <1>1, HeadTailProperties DEF Forwarded
<1>3. Head(backlog) = backlog[1] /\ 1 \in DOMAIN backlog
  BY <1>1, EmptySeq
<1>4. DOMAIN backlog' = 1 .. Len(backlog')
  BY <1>2, LenProperties
<1>5. \A i \in DOMAIN backlog' : /\ i + 1 \in DOMAIN backlog /\ i + 1 # 1
                                 /\ backlog'[i] = backlog[i + 1]
  BY <1>1, <1>2, <1>4
<1>6. DeliveredIds' = DeliveredIds /\ rows' = rows
  BY DEF DeliveredIds, Forwarded
<1>7. DistinctIds' /\ QueuedLast'
  BY <1>6 DEF DistinctIds, QueuedLast, TypeInv
<1> DEFINE h == Head(backlog)
<1>8. /\ h \in DeliveredIds
      /\ \A s \in BOOLEAN : <<h, s>> \notin answers
      /\ \A i \in DOMAIN backlog' : backlog'[i] # h
  BY <1>3, <1>5 DEF UnderWay, TypeInv
<1>9. PICK new : /\ answers' = answers \cup new
                 /\ new = {} \/ \E s \in BOOLEAN : new = {<<h, s>>}
  <2>1. CASE UNCHANGED answers
    <3>1. answers' = answers \cup {}
      BY <2>1
    <3>. QED
      BY <3>1
  <2>2. CASE \E s \in BOOLEAN : answers' = answers \cup {<<h, s>>}
    BY <2>2
  <2>. QED
    BY <2>1, <2>2 DEF Forwarded
<1> HIDE DEF h
<1>10. UnderWay'
  <2>1. ASSUME NEW k \in DOMAIN backlog'
        PROVE  /\ backlog'[k] \in DeliveredIds'
               /\ \A s \in BOOLEAN : <<backlog'[k], s>> \notin answers'
               /\ \A l \in DOMAIN backlog' : backlog'[k] = backlog'[l] => k = l
    <3>1. /\ backlog'[k] \in DeliveredIds
          /\ \A s \in BOOLEAN : <<backlog'[k], s>> \notin answers
      BY <1>5 DEF UnderWay, TypeInv
    <3>2. \A s \in BOOLEAN : <<backlog'[k], s>> \notin answers'
      BY <1>8, <1>9, <3>1
    <3>3. ASSUME NEW l \in DOMAIN backlog', backlog'[k] = backlog'[l]
          PROVE  k = l
      <4>1. k + 1 = l + 1
        BY <1>5, <3>3 DEF UnderWay, TypeInv
      <4>2. k \in Int /\ l \in Int
        BY <1>2, <1>4
      <4>. QED
        BY <4>1, <4>2
    <3>. QED
      BY <1>6, <3>1, <3>2, <3>3
  <2>2. ASSUME NEW id \in Id, NEW s \in BOOLEAN, <<id, s>> \in answers'
        PROVE  id \in DeliveredIds' /\ <<id, ~s>> \notin answers'
    <3>1. CASE <<id, s>> \in answers
      <4>1. id \in DeliveredIds /\ <<id, ~s>> \notin answers /\ id # h
        BY <1>8, <3>1 DEF UnderWay, TypeInv
      <4>. QED
        BY <1>6, <1>9, <4>1
    <3>2. CASE <<id, s>> \notin answers
      <4>1. id = h /\ answers' = answers \cup {<<h, s>>}
        BY <1>9, <2>2, <3>2
      <4>2. <<id, ~s>> \notin answers
        BY <1>8, <4>1
      <4>3. (~s) # s
        OBVIOUS
      <4>. QED
        BY <1>6, <1>8, <4>1, <4>2, <4>3
    <3>. QED
      BY <3>1, <3>2
  <2>. QED
    BY <2>1, <2>2 DEF UnderWay
<1>11. QueueTypes'
  <2>1. answers' \subseteq Id \X BOOLEAN
    BY <1>2, <1>9 DEF TypeInv, TypeOK, h
  <2>2. rows' \in Seq(Command) /\ Len(rows') <= MaxCmd
    BY <1>6 DEF TypeInv, TypeOK
  <2>3. Len(backlog') <= MaxCmd
    BY <1>1, <1>2, ConfigAssumption
  <2>. QED
    BY <1>2, <2>1, <2>2, <2>3 DEF QueueTypes
<1>. QED
  BY <1>7, <1>10, <1>11 DEF QueueInv

\* An answer is lost.
LEMMA AnswerLostInv ==
  ASSUME TypeInv, UNCHANGED <<rows, backlog>>, answers' \subseteq answers
  PROVE  (QueueInv /\ QueueTypes)'
<1>1. DeliveredIds' = DeliveredIds
  BY DEF DeliveredIds
<1>2. UnderWay'
  BY <1>1 DEF UnderWay, TypeInv
<1>3. DistinctIds' /\ QueuedLast'
  BY DEF DistinctIds, QueuedLast, TypeInv
<1>4. QueueTypes'
  BY DEF QueueTypes, TypeInv, TypeOK
<1>. QED
  BY <1>2, <1>3, <1>4 DEF QueueInv

\* What is queued is the end of the file, after the first so many rows.
QueuedAfter(d) ==
  /\ d \in 0 .. Len(rows)
  /\ \A i \in DOMAIN rows : rows[i].status = "queued" <=> d < i

\* There is such a number: that of the rows which are not queued.
LEMMA QueuedIsSuffix ==
  ASSUME TypeInv
  PROVE  \E d \in Nat : QueuedAfter(d)
<1> DEFINE Sent == {i \in DOMAIN rows : rows[i].status # "queued"}
           d == Cardinality(Sent)
<1>1. Len(rows) \in Nat /\ DOMAIN rows = 1 .. Len(rows)
  BY LenProperties DEF TypeInv, TypeOK
<1>2. Sent \in SUBSET (1 .. Len(rows))
  BY <1>1
<1>3. IsFiniteSet(1 .. Len(rows)) /\ Cardinality(1 .. Len(rows)) = Len(rows)
  <2>1. /\ IsFiniteSet(1 .. Len(rows))
        /\ Cardinality(1 .. Len(rows)) = Len(rows) - 1 + 1
    BY <1>1, RangeSize
  <2>. QED
    BY <1>1, <2>1
<1>4. IsFiniteSet(Sent) /\ Cardinality(Sent) <= Cardinality(1 .. Len(rows))
  BY <1>2, <1>3, FS_Subset
<1>5. d \in Nat /\ d <= Len(rows)
  BY <1>3, <1>4, FS_CardinalityType
<1>6. ASSUME NEW i \in DOMAIN rows, rows[i].status = "queued"
      PROVE  d < i
  <2>1. Sent \in SUBSET (1 .. i - 1)
    BY <1>1, <1>6 DEF QueuedLast, TypeInv
  <2>2. i \in Nat /\ 1 <= i
    BY <1>1
  <2>3. IsFiniteSet(1 .. i - 1) /\ Cardinality(1 .. i - 1) = i - 1 - 1 + 1
    BY <2>2, RangeSize
  <2>4. Cardinality(Sent) <= Cardinality(1 .. i - 1)
    BY <2>1, <2>3, FS_Subset
  <2>. QED
    BY <1>5, <2>2, <2>3, <2>4
<1>7. ASSUME NEW i \in DOMAIN rows, rows[i].status # "queued"
      PROVE  i <= d
  <2>1. i \in Nat /\ 1 <= i
    BY <1>1
  <2>2. (1 .. i) \in SUBSET Sent
    BY <1>1, <1>7, <2>1 DEF QueuedLast, TypeInv
  <2>3. Cardinality(1 .. i) = i - 1 + 1
    BY <2>1, RangeSize
  <2>4. Cardinality(1 .. i) <= Cardinality(Sent)
    BY <1>4, <2>2, FS_Subset
  <2>. QED
    BY <1>5, <2>1, <2>3, <2>4
<1> HIDE DEF d
<1>8. QueuedAfter(d)
  BY <1>1, <1>5, <1>6, <1>7 DEF QueuedAfter
<1>. QED
  BY <1>5, <1>8

\* The ids that a delivery takes are those of these rows, in their order.
LEMMA QueuedIdsAre ==
  ASSUME TypeInv, NEW d \in Nat, QueuedAfter(d)
  PROVE  /\ QueuedIds \in Seq(Id)
         /\ Len(QueuedIds) = Len(rows) - d
         /\ \A k \in 1 .. Len(rows) - d : QueuedIds[k] = rows[d + k].id
<1> DEFINE n == Len(rows)
           before(i) == {j \in Queued : j < i}
           at(k) == CHOOSE i \in Queued : Cardinality(before(i)) = k - 1
<1>1. n \in Nat /\ DOMAIN rows = 1 .. n /\ d <= n
  BY LenProperties DEF TypeInv, TypeOK, QueuedAfter
<1>2. Queued = d + 1 .. n
  <2>1. \A i \in 1 .. n : i \in Queued <=> d < i
    BY <1>1 DEF Queued, QueuedAfter
  <2>2. Queued \subseteq 1 .. n
    BY <1>1 DEF Queued
  <2> HIDE DEF n
  <2>3. ASSUME NEW i \in d + 1 .. n
        PROVE  i \in Queued
    <3>1. i \in 1 .. n /\ d < i
      BY <1>1
    <3>. QED
      BY <2>1, <3>1
  <2>4. ASSUME NEW i \in Queued
        PROVE  i \in d + 1 .. n
    <3>1. i \in 1 .. n /\ d < i
      BY <2>1, <2>2
    <3>. QED
      BY <1>1, <3>1
  <2>. QED
    BY <2>3, <2>4
<1>3. Cardinality(Queued) = n - d
  <2>1. Cardinality(d + 1 .. n) = n - (d + 1) + 1
    BY <1>1, RangeSize
  <2>. QED
    BY <1>1, <1>2, <2>1
<1>4. ASSUME NEW i \in Queued
      PROVE  Cardinality(before(i)) = i - 1 - d
  <2>1. i \in Nat /\ d + 1 <= i /\ i <= n
    BY <1>1, <1>2
  <2>2. before(i) = d + 1 .. i - 1
    <3> HIDE DEF n
    <3>. QED
      BY <1>1, <1>2, <2>1
  <2>3. Cardinality(d + 1 .. i - 1) = i - 1 - (d + 1) + 1
    BY <2>1, RangeSize
  <2> HIDE DEF before
  <2>. QED
    BY <2>1, <2>2, <2>3
<1> HIDE DEF before
<1>5. ASSUME NEW k \in 1 .. n - d
      PROVE  at(k) = d + k
  <2>1. d + k \in Queued /\ d + k - 1 - d = k - 1
    <3> HIDE DEF n
    <3>. QED
      BY <1>1, <1>2
  <2>2. Cardinality(before(d + k)) = k - 1
    BY <1>4, <2>1
  <2>3. at(k) \in Queued /\ Cardinality(before(at(k))) = k - 1
    BY <2>1, <2>2
  <2>4. at(k) - 1 - d = k - 1
    BY <1>4, <2>3
  <2>5. at(k) \in Int
    BY <1>1, <1>2, <2>3
  <2> HIDE DEF at
  <2>. QED
    BY <2>4, <2>5
<1>6. QueuedIds = [k \in 1 .. n - d |-> rows[at(k)].id]
  <2>1. QueuedIds = [k \in 1 .. Cardinality(Queued) |-> rows[at(k)].id]
    BY DEF QueuedIds, before, at
  <2> HIDE DEF at, n
  <2>. QED
    BY <1>3, <2>1
<1> HIDE DEF at
<1>7. \A k \in 1 .. n - d : QueuedIds[k] = rows[d + k].id /\ rows[d + k].id \in Id
  <2>1. ASSUME NEW k \in 1 .. n - d
        PROVE  QueuedIds[k] = rows[d + k].id /\ rows[d + k].id \in Id
    <3>1. QueuedIds[k] = rows[d + k].id
      BY <1>5, <1>6
    <3>2. d + k \in DOMAIN rows
      BY <1>1
    <3>. QED
      BY <3>1, <3>2, RowFields DEF TypeInv
  <2>. QED
    BY <2>1
<1>8. QueuedIds \in [1 .. n - d -> Id] /\ DOMAIN QueuedIds = 1 .. n - d
  BY <1>6, <1>7
<1>9. QueuedIds \in Seq(Id)
  <2>1. n - d \in Nat
    BY <1>1
  <2>. QED
    BY <1>8, <2>1, SeqDef
<1>10. Len(QueuedIds) = n - d
  <2>1. Len(QueuedIds) \in Nat /\ DOMAIN QueuedIds = 1 .. Len(QueuedIds)
    BY <1>9, LenProperties
  <2>2. n - d \in Nat
    BY <1>1
  <2>. QED
    BY <1>8, <2>1, <2>2, SameRange
<1>. QED
  BY <1>7, <1>9, <1>10

\* A delivery takes the rows after the first d.
Delivery(d) ==
  /\ QueuedAfter(d)
  /\ Restatus("queued", Id, "delivered")
  /\ backlog' \in Seq(Id)
  /\ Len(backlog') = Len(backlog) + (Len(rows) - d)
  /\ \A k \in 1 .. Len(backlog) : backlog'[k] = backlog[k]
  /\ \A k \in 1 .. Len(rows) - d : backlog'[Len(backlog) + k] = rows[d + k].id
  /\ UNCHANGED answers

\* Deliver is a delivery.
LEMMA DeliverDelivers ==
  ASSUME TypeInv, Deliver
  PROVE  \E d \in Nat : Delivery(d)
<1>1. PICK d \in Nat : QueuedAfter(d)
  BY QueuedIsSuffix
<1>2. /\ QueuedIds \in Seq(Id)
      /\ Len(QueuedIds) = Len(rows) - d
      /\ \A k \in 1 .. Len(rows) - d : QueuedIds[k] = rows[d + k].id
  BY <1>1, QueuedIdsAre
<1>3. Restatus("queued", Id, "delivered")
  BY MarkedRestatus DEF Deliver, TypeInv
<1>4. /\ backlog \in Seq(Id) /\ Len(backlog) \in Nat
      /\ Len(rows) \in Nat /\ d \in 0 .. Len(rows)
  BY <1>1, LenProperties DEF TypeInv, TypeOK, QueuedAfter
<1> DEFINE q == QueuedIds
<1>5. backlog' = backlog \o q
  BY DEF Deliver
<1>6. q \in Seq(Id) /\ Len(q) = Len(rows) - d
      /\ \A k \in 1 .. Len(rows) - d : q[k] = rows[d + k].id
  BY <1>2
<1> HIDE DEF q
<1>7. /\ backlog' \in Seq(Id) /\ Len(backlog') = Len(backlog) + Len(q)
      /\ \A k \in 1 .. Len(backlog) + Len(q) :
           backlog'[k] = IF k <= Len(backlog) THEN backlog[k] ELSE q[k - Len(backlog)]
  BY <1>4, <1>5, <1>6, ConcatProperties
<1>8. ASSUME NEW k \in 1 .. Len(backlog)
      PROVE  backlog'[k] = backlog[k]
  <2>1. Len(q) \in Nat
    BY <1>6, LenProperties
  <2>2. k \in 1 .. Len(backlog) + Len(q) /\ k <= Len(backlog)
    BY <1>4, <2>1
  <2>. QED
    BY <1>7, <2>2
<1>9. ASSUME NEW k \in 1 .. Len(rows) - d
      PROVE  backlog'[Len(backlog) + k] = rows[d + k].id
  <2>1. /\ Len(backlog) + k \in 1 .. Len(backlog) + Len(q)
        /\ ~(Len(backlog) + k <= Len(backlog))
        /\ (Len(backlog) + k) - Len(backlog) = k
    BY <1>4, <1>6, LenProperties
  <2>2. backlog'[Len(backlog) + k] = q[(Len(backlog) + k) - Len(backlog)]
    BY <1>7, <2>1
  <2>. QED
    BY <1>6, <2>1, <2>2
<1>10. UNCHANGED answers
  BY DEF Deliver
<1>11. Delivery(d)
  BY <1>1, <1>3, <1>6, <1>7, <1>8, <1>9, <1>10 DEF Delivery
<1>. QED
  BY <1>11

\* What was queued is delivered and under way; its ids are nobody else's.
LEMMA DeliveryInv ==
  ASSUME TypeInv, NEW d \in Nat, Delivery(d)
  PROVE  (QueueInv /\ QueueTypes)'
<1>1. /\ Len(rows) \in Nat /\ DOMAIN rows = 1 .. Len(rows) /\ d \in 0 .. Len(rows)
      /\ Len(backlog) \in Nat /\ DOMAIN backlog = 1 .. Len(backlog)
  BY LenProperties DEF TypeInv, TypeOK, Delivery, QueuedAfter
<1>2. /\ DOMAIN rows' = DOMAIN rows /\ Len(rows') = Len(rows)
      /\ rows' \in Seq(Command)
      /\ \A i \in DOMAIN rows :
           /\ rows'[i].id = rows[i].id
           /\ rows'[i].status = IF d < i THEN "delivered" ELSE rows[i].status
  <2>1. \A i \in DOMAIN rows : rows[i].id \in Id
    BY RowFields DEF TypeInv
  <2>2. \A i \in DOMAIN rows : rows[i].status = "queued" <=> d < i
    BY DEF Delivery, QueuedAfter
  <2>. QED
    BY <2>1, <2>2 DEF Delivery, Restatus
<1>3. \A i \in DOMAIN rows : rows'[i].status # "queued"
  BY <1>2 DEF Delivery, QueuedAfter
<1>4. DistinctIds' /\ QueuedLast'
  BY <1>2, <1>3 DEF DistinctIds, QueuedLast, TypeInv
<1>5. \A id \in DeliveredIds : id \in DeliveredIds'
  <2>1. ASSUME NEW id \in DeliveredIds
        PROVE  id \in DeliveredIds'
    <3>1. PICK i \in DOMAIN rows : rows[i].status = "delivered" /\ rows[i].id = id
      BY DEF DeliveredIds
    <3>2. rows'[i].status = "delivered" /\ rows'[i].id = id /\ i \in DOMAIN rows'
      BY <1>2, <3>1
    <3>. QED
      BY <3>2 DEF DeliveredIds
  <2>. QED
    BY <2>1
<1>6. ASSUME NEW i \in DOMAIN rows, d < i
      PROVE  rows[i].id \in DeliveredIds' /\ rows[i].id \notin DeliveredIds
  <2>1. rows'[i].status = "delivered" /\ rows'[i].id = rows[i].id /\ i \in DOMAIN rows'
    BY <1>2, <1>6
  <2>2. rows[i].status = "queued"
    BY <1>6 DEF Delivery, QueuedAfter
  <2>3. \A j \in DOMAIN rows : rows[j].id = rows[i].id => j = i
    BY DEF DistinctIds, TypeInv
  <2>. QED
    BY <2>1, <2>2, <2>3 DEF DeliveredIds
<1>7. /\ DOMAIN backlog' = 1 .. Len(backlog) + (Len(rows) - d)
      /\ \A k \in DOMAIN backlog' :
           \/ k \in DOMAIN backlog /\ backlog'[k] = backlog[k]
           \/ \E i \in DOMAIN rows : /\ d < i /\ i = k - Len(backlog) + d
                                     /\ backlog'[k] = rows[i].id
  <2>1. DOMAIN backlog' = 1 .. Len(backlog')
    BY LenProperties DEF Delivery
  <2>2. DOMAIN backlog' = 1 .. Len(backlog) + (Len(rows) - d)
    BY <2>1 DEF Delivery
  <2>3. ASSUME NEW k \in DOMAIN backlog', ~(k \in DOMAIN backlog)
        PROVE  \E i \in DOMAIN rows : /\ d < i /\ i = k - Len(backlog) + d
                                      /\ backlog'[k] = rows[i].id
    <3>1. /\ k - Len(backlog) \in 1 .. Len(rows) - d
          /\ Len(backlog) + (k - Len(backlog)) = k
          /\ k - Len(backlog) + d \in DOMAIN rows
          /\ d < k - Len(backlog) + d
          /\ d + (k - Len(backlog)) = k - Len(backlog) + d
      BY <1>1, <2>2, <2>3
    <3>2. backlog'[Len(backlog) + (k - Len(backlog))] = rows[d + (k - Len(backlog))].id
      BY <3>1 DEF Delivery
    <3>. QED
      BY <3>1, <3>2
  <2>. QED
    BY <1>1, <2>2, <2>3 DEF Delivery
<1>8. ASSUME NEW k \in DOMAIN backlog'
      PROVE  /\ backlog'[k] \in DeliveredIds'
             /\ \A s \in BOOLEAN : <<backlog'[k], s>> \notin answers
             /\ \A l \in DOMAIN backlog' : backlog'[k] = backlog'[l] => k = l
  <2>1. CASE k \in DOMAIN backlog /\ backlog'[k] = backlog[k]
    <3>1. /\ backlog[k] \in DeliveredIds
          /\ \A s \in BOOLEAN : <<backlog[k], s>> \notin answers
      BY <2>1 DEF UnderWay, TypeInv
    <3>2. ASSUME NEW l \in DOMAIN backlog', backlog'[k] = backlog'[l]
          PROVE  k = l
      <4>1. CASE l \in DOMAIN backlog /\ backlog'[l] = backlog[l]
        BY <2>1, <3>2, <4>1 DEF UnderWay, TypeInv
      <4>2. CASE \E i \in DOMAIN rows : d < i /\ backlog'[l] = rows[i].id
        BY <1>6, <2>1, <3>1, <3>2, <4>2
      <4>. QED
        BY <1>7, <4>1, <4>2
    <3>. QED
      BY <1>5, <2>1, <3>1, <3>2
  <2>2. ASSUME NEW i \in DOMAIN rows, d < i, i = k - Len(backlog) + d, backlog'[k] = rows[i].id
        PROVE  /\ backlog'[k] \in DeliveredIds'
               /\ \A s \in BOOLEAN : <<backlog'[k], s>> \notin answers
               /\ \A l \in DOMAIN backlog' : backlog'[k] = backlog'[l] => k = l
    <3>1. rows[i].id \in DeliveredIds' /\ rows[i].id \notin DeliveredIds
      BY <1>6, <2>2
    <3>2. rows[i].id \in Id
      BY RowFields DEF TypeInv
    <3>3. \A s \in BOOLEAN : <<rows[i].id, s>> \notin answers
      BY <3>1, <3>2 DEF UnderWay, TypeInv
    <3>4. ASSUME NEW l \in DOMAIN backlog', backlog'[k] = backlog'[l]
          PROVE  k = l
      <4>1. CASE l \in DOMAIN backlog /\ backlog'[l] = backlog[l]
        BY <2>2, <3>1, <3>4, <4>1 DEF UnderWay, TypeInv
      <4>2. ASSUME NEW j \in DOMAIN rows, j = l - Len(backlog) + d, backlog'[l] = rows[j].id
            PROVE  k = l
        <5>1. i = j
          BY <2>2, <3>4, <4>2 DEF DistinctIds, TypeInv
        <5>2. k \in Int /\ l \in Int
          BY <1>1, <1>7
        <5>. QED
          BY <1>1, <2>2, <4>2, <5>1, <5>2
      <4>. QED
        BY <1>7, <4>1, <4>2
    <3>. QED
      BY <2>2, <3>1, <3>3, <3>4
  <2>. QED
    BY <1>7, <2>1, <2>2
<1>9. answers' = answers
  BY DEF Delivery
<1>10. UnderWay'
  <2>1. \A id \in Id, s \in BOOLEAN :
          <<id, s>> \in answers' => id \in DeliveredIds' /\ <<id, ~s>> \notin answers'
    BY <1>5, <1>9 DEF UnderWay, TypeInv
  <2>. QED
    BY <1>8, <1>9, <2>1 DEF UnderWay
<1>11. Len(backlog') <= MaxCmd
  <2>1. backlog' \in Seq(Id) /\ DOMAIN backlog' = 1 .. Len(backlog')
    BY LenProperties DEF Delivery
  <2>2. \A k, l \in 1 .. Len(backlog') : backlog'[k] = backlog'[l] => k = l
    BY <1>8, <2>1
  <2>. QED
    BY <2>1, <2>2, BacklogBound, ConfigAssumption
<1>12. QueueTypes'
  BY <1>2, <1>9, <1>11 DEF QueueTypes, TypeInv, TypeOK, Delivery
<1>. QED
  BY <1>4, <1>10, <1>12 DEF QueueInv

-----------------------------------------------------------------------------
(* Types.                                                                  *)

\* What ensure_config_update_command does.
LEMMA EnsureUpdates ==
  ASSUME TypeOK, EnsureConfigUpdate
  PROVE  \/ /\ NeedsUpdate /\ Appended("update", row.cv, tenant)
            /\ row' = [row EXCEPT !.hash = tenant]
         \/ /\ ~NeedsUpdate /\ UNCHANGED <<rows, row>>
<1>1. row.cv \in Nat /\ tenant \in Config
  BY DEF TypeOK, Row
<1>2. CASE NeedsUpdate /\ Queue("update", row.cv, tenant) /\ row' = [row EXCEPT !.hash = tenant]
  <2>1. Appended("update", row.cv, tenant)
    BY <1>1, <1>2, QueueAppends
  <2>. QED
    BY <1>2, <2>1
<1>3. CASE ~NeedsUpdate /\ UNCHANGED <<rows, row>>
  BY <1>3
<1>. QED
  BY <1>2, <1>3 DEF EnsureConfigUpdate

\* What ensure_config_clear_command does.
LEMMA EnsureClears ==
  ASSUME TypeOK, EnsureConfigClear
  PROVE  Appended("clear", 0, None) \/ UNCHANGED rows
<1>1. CASE Queue("clear", 0, None)
  <2>1. None \in Config
    BY DEF Config
  <2>2. Appended("clear", 0, None)
    BY <1>1, <2>1, QueueAppends
  <2>. QED
    BY <2>2
<1>2. CASE UNCHANGED rows
  BY <1>2
<1>. QED
  BY <1>1, <1>2 DEF EnsureConfigClear

\* The queue's invariants do not ask for more than the file and what is under
\* way.
LEMMA QueueKept ==
  ASSUME TypeInv, UNCHANGED <<rows, backlog, answers>>
  PROVE  (QueueInv /\ QueueTypes)'
BY AnswerLostInv

\* Each step keeps the queue in order.
LEMMA QueueStep ==
  ASSUME TypeInv, [Next]_vars
  PROVE  (QueueInv /\ QueueTypes)'
<1>1. ASSUME EnsureConfigUpdate, UNCHANGED <<backlog, answers>>
      PROVE  (QueueInv /\ QueueTypes)'
  BY <1>1, EnsureUpdates, AppendedInv, QueueKept DEF TypeInv
<1>2. ASSUME EnsureConfigClear, UNCHANGED <<backlog, answers>>
      PROVE  (QueueInv /\ QueueTypes)'
  BY <1>2, EnsureClears, AppendedInv, QueueKept DEF TypeInv
<1>3. ASSUME NEW path \in Paths, NEW cfg \in Chosen, EditTenant(path, cfg)
      PROVE  (QueueInv /\ QueueTypes)'
  BY <1>3, QueueKept DEF EditTenant, spoke
<1>4. CASE ListSpoke \/ StartTelemetry \/ Connect \/ ReadTenant \/ Resume
  BY <1>4, QueueKept DEF ListSpoke, StartTelemetry, Connect, ReadTenant, Resume, hub, spoke
<1>5. CASE SaveListed \/ SaveRow \/ CheckDrift \/ MarkConfigApplied \/ Restart
  BY <1>5, QueueKept DEF SaveListed, SaveRow, CheckDrift, MarkConfigApplied, Restart, hub, spoke
<1>6. CASE PushListed
  BY <1>1, <1>2, <1>6 DEF PushListed, spoke
<1>7. ASSUME NEW report \in Reports, ModifyRow(report)
      PROVE  (QueueInv /\ QueueTypes)'
  <2>1. EnsureConfigClear \/ UNCHANGED rows
    BY <1>7 DEF ModifyRow
  <2>2. UNCHANGED <<backlog, answers>>
    BY <1>7 DEF ModifyRow, spoke
  <2>. QED
    BY <1>2, <2>1, <2>2, QueueKept
<1>8. CASE PushDrifted \/ PollInbox
  BY <1>1, <1>8 DEF PushDrifted, PollInbox, spoke
<1>9. CASE Deliver
  BY <1>9, DeliverDelivers, DeliveryInv
<1>10. CASE SpokeApplies \/ SpokeFails
  <2>1. Forwarded
    BY <1>10 DEF SpokeApplies, SpokeFails, Forwarded, hub
  <2>. QED
    BY <2>1, ForwardedInv
<1>11. CASE Lose
  <2>1. CASE backlog # <<>> /\ backlog' = Tail(backlog) /\ UNCHANGED answers
    <3>1. Forwarded
      BY <1>11, <2>1 DEF Lose, Forwarded, hub
    <3>. QED
      BY <3>1, ForwardedInv
  <2>2. CASE (\E a \in answers : answers' = answers \ {a}) /\ UNCHANGED backlog
    <3>1. answers' \subseteq answers /\ UNCHANGED <<rows, backlog>>
      BY <1>11, <2>2 DEF Lose, hub
    <3>. QED
      BY <3>1, AnswerLostInv
  <2>. QED
    BY <1>11, <2>1, <2>2 DEF Lose
<1>12. ASSUME NEW id \in Id, NEW success \in BOOLEAN, HandleAck(id, success)
       PROVE  (QueueInv /\ QueueTypes)'
  BY <1>12, AckedInv
<1>13. ASSUME NEW id \in Id, Expire(id) \/ ExpireQueued(id)
       PROVE  (QueueInv /\ QueueTypes)'
  BY <1>13, ExpiredInv
<1>14. CASE UNCHANGED vars
  BY <1>14, QueueKept DEF vars, hub, spoke
<1>. QED
  BY <1>3, <1>4, <1>5, <1>6, <1>7, <1>8, <1>9, <1>10, <1>11, <1>12, <1>13, <1>14 DEF Next

TelRec == [pc : {"idle", "tenant", "modify", "save", "saved", "drift", "drifted",
                 "ensure"}, obj : Row, tenant : Config]
AdminRec == [pc : {"idle", "list", "save", "ensure"},
             path : {"superadmin", "settings"}, obj : Row]

\* The rest of TypeOK.
RestTypes ==
  /\ tenant \in Config
  /\ row \in Row
  /\ tel \in TelRec
  /\ admin \in AdminRec
  /\ marking \in Nat
  /\ spokeCfg \in Config
  /\ edits \in 0 .. MaxEdit
  /\ faults \in 0 .. MaxFault

\* TypeOK is its two parts.
LEMMA TypesSplit == TypeOK <=> QueueTypes /\ RestTypes
BY DEF TypeOK, QueueTypes, RestTypes, TelRec, AdminRec

\* The rows that the code makes from rows.
LEMMA RowMakes ==
  ASSUME NEW r \in Row, NEW v \in Nat, NEW w \in Nat
  PROVE  /\ r.cv \in Nat /\ r.av \in Nat /\ r.config \in BOOLEAN
         /\ [r EXCEPT !.cv = v] \in Row /\ [r EXCEPT !.av = v] \in Row
         /\ [r EXCEPT !.cv = v, !.av = w] \in Row
         /\ [r EXCEPT !.config = TRUE, !.cv = v, !.av = w] \in Row
BY DEF Row

\* A row with the hash of a push.
LEMMA RowPushed ==
  ASSUME NEW r \in Row, NEW h \in Config
  PROVE  [r EXCEPT !.hash = h] \in Row
BY DEF Row

\* A new row of the registry is a row.
LEMMA ApprovedIsRow == Approved \in Row
BY ConfigAssumption DEF Approved, Row

\* What a handler keeps is of its type.
LEMMA AtIsTel ==
  ASSUME NEW pc \in {"idle", "tenant", "modify", "save", "saved", "drift", "drifted",
                     "ensure"}, NEW obj \in Row
  PROVE  At(pc, obj) \in TelRec
BY ApprovedIsRow DEF At, TelRec, Config

\* What an edit keeps is of its type.
LEMMA EditIsAdmin ==
  ASSUME NEW pc \in {"idle", "list", "save", "ensure"}, NEW r \in Row, admin \in AdminRec
  PROVE  /\ [admin EXCEPT !.pc = pc] \in AdminRec
         /\ [admin EXCEPT !.pc = pc, !.obj = r] \in AdminRec
         /\ NoEdit \in AdminRec
BY ApprovedIsRow DEF AdminRec, NoEdit

\* A push keeps the row a row.
LEMMA UpdateTypes ==
  ASSUME TypeOK, EnsureConfigUpdate
  PROVE  row' \in Row
<1>1. row \in Row /\ tenant \in Config
  BY DEF TypeOK
<1>2. [row EXCEPT !.hash = tenant] \in Row
  BY <1>1, RowPushed
<1>. QED
  BY <1>1, <1>2 DEF EnsureConfigUpdate

\* Each step keeps the types of the rest.
LEMMA RestStep ==
  ASSUME TypeInv, [Next]_vars
  PROVE  RestTypes'
<1>0. TypeOK /\ RestTypes
  BY TypesSplit DEF TypeInv
<1>. USE <1>0
<1>1. row \in Row /\ tel \in TelRec /\ admin \in AdminRec /\ tel.obj \in Row
      /\ tel.tenant \in Config /\ admin.obj \in Row
  BY DEF RestTypes, TelRec, AdminRec
<1>2. row.cv \in Nat /\ row.av \in Nat /\ row.cv + 1 \in Nat /\ row.av + 1 \in Nat
  BY <1>1 DEF Row
<1>3. ASSUME NEW path \in Paths, NEW cfg \in Chosen, EditTenant(path, cfg)
      PROVE  RestTypes'
  <2>1. tenant' \in Config
    BY <1>3 DEF EditTenant, Chosen, Config
  <2>2. admin' \in AdminRec
    BY <1>1, <1>3, ConfigAssumption DEF EditTenant, AdminRec
  <2>3. edits' \in 0 .. MaxEdit
    BY <1>3, ConfigAssumption DEF EditTenant, RestTypes
  <2>. QED
    BY <1>3, <2>1, <2>2, <2>3 DEF EditTenant, RestTypes, spoke
<1>4. CASE ListSpoke
  <2>1. [row EXCEPT !.cv = @ + 1] \in Row /\ [row EXCEPT !.cv = 0, !.av = 0] \in Row
    BY <1>1, <1>2, RowMakes
  <2>2. admin' \in AdminRec
    BY <1>1, <1>4, <2>1, EditIsAdmin DEF ListSpoke
  <2>. QED
    BY <1>4, <2>2 DEF ListSpoke, RestTypes, hub, spoke
<1>5. CASE SaveListed
  BY <1>1, <1>5, EditIsAdmin, ApprovedIsRow DEF SaveListed, RestTypes, spoke
<1>6. CASE PushListed
  <2>1. row' \in Row
    BY <1>1, <1>6, UpdateTypes DEF PushListed
  <2>2. admin' \in AdminRec
    BY <1>1, <1>6, EditIsAdmin DEF PushListed
  <2>. QED
    BY <1>6, <2>1, <2>2 DEF PushListed, RestTypes, spoke
<1>7. CASE StartTelemetry \/ Connect \/ ReadTenant
  <2>1. tel' \in TelRec
    BY <1>1, <1>7 DEF StartTelemetry, Connect, ReadTenant, TelRec, RestTypes
  <2>. QED
    BY <1>7, <2>1 DEF StartTelemetry, Connect, ReadTenant, RestTypes, hub, spoke
<1>8. ASSUME NEW report \in Reports, ModifyRow(report)
      PROVE  RestTypes'
  <2> DEFINE seeded == IF ~tel.obj.config
                       THEN [tel.obj EXCEPT !.config = TRUE, !.cv = 1, !.av = 0]
                       ELSE tel.obj
             cleared == IF tel.obj.cv > 0 /\ tel.tenant = None
                        THEN [seeded EXCEPT !.cv = 0, !.av = 0] ELSE seeded
  <2>1. seeded \in Row
    BY <1>1, RowMakes
  <2>2. cleared \in Row
    <3> HIDE DEF seeded
    <3>1. [seeded EXCEPT !.cv = 0, !.av = 0] \in Row
      BY <2>1, RowMakes
    <3>2. cleared = [seeded EXCEPT !.cv = 0, !.av = 0] \/ cleared = seeded
      OBVIOUS
    <3>. QED
      BY <2>1, <3>1, <3>2
  <2>3. tel' = [pc |-> "save", tenant |-> None, obj |-> cleared]
        \/ tel' = At("saved", tel.obj)
    BY <1>8 DEF ModifyRow
  <2>4. tel' \in TelRec
    <3> HIDE DEF cleared
    <3>1. [pc |-> "save", tenant |-> None, obj |-> cleared] \in TelRec
      BY <2>2 DEF TelRec, Config
    <3>2. At("saved", tel.obj) \in TelRec
      BY <1>1, AtIsTel
    <3>. QED
      BY <2>3, <3>1, <3>2
  <2>5. UNCHANGED <<tenant, row, admin, marking, spoke, edits, faults>>
    BY <1>8 DEF ModifyRow
  <2>. QED
    BY <2>4, <2>5 DEF RestTypes, spoke
<1>9. CASE SaveRow
  <2>1. tel' \in TelRec
    BY <1>1, <1>9, AtIsTel DEF SaveRow
  <2>. QED
    BY <1>1, <1>9, <2>1 DEF SaveRow, RestTypes, spoke
<1>10. CASE CheckDrift
  <2>1. tel' \in TelRec
    BY <1>1, <1>10, AtIsTel DEF CheckDrift
  <2>2. row' \in Row
    BY <1>1, <1>2, <1>10, RowMakes DEF CheckDrift
  <2>. QED
    BY <1>10, <2>1, <2>2 DEF CheckDrift, RestTypes, spoke
<1>11. CASE PushDrifted \/ PollInbox
  <2>1. row' \in Row
    BY <1>11, UpdateTypes DEF PushDrifted, PollInbox
  <2>2. tel' \in TelRec
    BY <1>1, <1>11, AtIsTel DEF PushDrifted, PollInbox
  <2>. QED
    BY <1>11, <2>1, <2>2 DEF PushDrifted, PollInbox, RestTypes, spoke
<1>12. CASE Deliver
  BY <1>12 DEF Deliver, RestTypes
<1>13. CASE SpokeApplies
  <2>1. backlog # <<>> /\ backlog \in Seq(Id)
    BY <1>13 DEF SpokeApplies, TypeOK
  <2>2. 1 \in DOMAIN backlog /\ Head(backlog) = backlog[1]
    BY <2>1, EmptySeq, LenProperties
  <2>3. PICK i \in DOMAIN rows : rows[i].id = Head(backlog)
    BY <2>2 DEF TypeInv, UnderWay, DeliveredIds
  <2>4. PICK c : c = RowOf(Head(backlog)) /\ c.cfg \in Config
    <3>1. RowOf(Head(backlog)) \in ToSet(rows)
      BY <2>3 DEF RowOf, ToSet
    <3>2. PICK j \in DOMAIN rows : RowOf(Head(backlog)) = rows[j]
      BY <3>1 DEF ToSet
    <3>. QED
      BY <3>2, RowFields
  <2>5. Applied(c) \in Config
    BY <2>4 DEF Applied, Config, RestTypes
  <2>. QED
    BY <1>13, <2>4, <2>5 DEF SpokeApplies, RestTypes, hub
<1>14. CASE SpokeFails \/ Lose
  <2>1. faults' = faults + 1 /\ faults < MaxFault
    BY <1>14 DEF SpokeFails, Lose
  <2>2. UNCHANGED <<tenant, row, tel, admin, marking, spokeCfg, edits>>
    BY <1>14 DEF SpokeFails, Lose, hub
  <2>. QED
    BY <2>1, <2>2, ConfigAssumption DEF RestTypes
<1>15. ASSUME NEW id \in Id, NEW success \in BOOLEAN, HandleAck(id, success)
       PROVE  RestTypes'
  <2>1. id \in DeliveredIds
    BY <1>15 DEF HandleAck, TypeInv, UnderWay
  <2>2. PICK i \in DOMAIN rows : rows[i].id = id
    BY <2>1 DEF DeliveredIds
  <2>3. RowOf(id) \in ToSet(rows)
    BY <2>2 DEF RowOf, ToSet
  <2>4. PICK j \in DOMAIN rows : RowOf(id) = rows[j]
    BY <2>3 DEF ToSet
  <2>5. marking' \in Nat
    BY <1>15, <2>4, RowFields DEF HandleAck
  <2>. QED
    BY <1>15, <2>5 DEF HandleAck, RestTypes
<1>16. CASE MarkConfigApplied
  <2>1. row' \in Row
    BY <1>1, <1>2, <1>16, RowMakes DEF MarkConfigApplied, RestTypes
  <2>. QED
    BY <1>16, <2>1 DEF MarkConfigApplied, RestTypes, spoke
<1>17. ASSUME NEW id \in Id, Expire(id)
       PROVE  RestTypes'
  BY <1>17 DEF Expire, RestTypes, spoke
<1>21. ASSUME NEW id \in Id, ExpireQueued(id)
       PROVE  RestTypes'
  <2>1. faults' \in 0 .. MaxFault
    BY <1>21, ConfigAssumption DEF ExpireQueued, RestTypes
  <2>. QED
    BY <1>21, <2>1 DEF ExpireQueued, RestTypes, spoke
<1>18. CASE Restart
  <2>1. tel' \in TelRec /\ admin' \in AdminRec
    BY <1>1, <1>18, AtIsTel, EditIsAdmin, ApprovedIsRow DEF Restart
  <2>2. faults' \in 0 .. MaxFault
    BY <1>18, ConfigAssumption DEF Restart, RestTypes
  <2>. QED
    BY <1>18, <2>1, <2>2 DEF Restart, RestTypes, hub, spoke
<1>19. CASE Resume
  <2>1. tel' \in TelRec
    BY <1>1, <1>19, AtIsTel DEF Resume
  <2>. QED
    BY <1>19, <2>1 DEF Resume, RestTypes, hub, spoke
<1>20. CASE UNCHANGED vars
  BY <1>20 DEF vars, hub, spoke, RestTypes
<1>. QED
  BY <1>3, <1>4, <1>5, <1>6, <1>7, <1>8, <1>9, <1>10, <1>11, <1>12, <1>13, <1>14,
     <1>15, <1>16, <1>17, <1>18, <1>19, <1>20, <1>21 DEF Next

\* At the start the queue is empty.
LEMMA TypeInit ==
  ASSUME Init
  PROVE  TypeInv
<1>1. rows = <<>> /\ backlog = <<>> /\ answers = {}
  BY DEF Init
<1>2. rows \in Seq(Command) /\ Len(rows) = 0 /\ DOMAIN rows = {}
      /\ backlog \in Seq(Id) /\ Len(backlog) = 0 /\ DOMAIN backlog = {}
  BY <1>1, EmptySeq
<1>3. QueueTypes
  BY <1>1, <1>2, ConfigAssumption DEF QueueTypes
<1>4. RestTypes
  <2>1. tel \in TelRec
    BY ApprovedIsRow, AtIsTel DEF Init
  <2>2. admin \in AdminRec
    BY ApprovedIsRow DEF Init, AdminRec, NoEdit
  <2>. QED
    BY <2>1, <2>2, ApprovedIsRow, ConfigAssumption DEF Init, RestTypes, Config
<1>5. DistinctIds /\ QueuedLast /\ UnderWay
  BY <1>1, <1>2 DEF DistinctIds, QueuedLast, UnderWay
<1>. QED
  BY <1>3, <1>4, <1>5, TypesSplit DEF TypeInv

\* Each step keeps the types and the queue in order.
LEMMA TypeStep ==
  ASSUME TypeInv, [Next]_vars
  PROVE  TypeInv'
<1>1. (QueueInv /\ QueueTypes)' /\ RestTypes'
  BY QueueStep, RestStep
<1>2. TypeOK'
  BY <1>1 DEF TypeOK, QueueTypes, RestTypes, TelRec, AdminRec
<1>. QED
  BY <1>1, <1>2 DEF TypeInv, QueueInv

\* Every value the handlers, the queue and the spoke work with is of its type;
\* the file and what is under way never hold more commands than there are ids,
\* whatever fails, expires or is used again.
THEOREM TypeCorrect == Spec => []TypeOK
<1>1. Init => TypeInv
  BY TypeInit
<1>2. TypeInv /\ [Next]_vars => TypeInv'
  BY TypeStep
<1>3. TypeInv => TypeOK
  BY DEF TypeInv
<1>. QED
  BY <1>1, <1>2, <1>3, PTL DEF Spec

-----------------------------------------------------------------------------
(* The steps of a managed spoke, by what they do.                          *)

Edited ==
  /\ admin.pc = "idle" /\ admin'.pc = "list"
  /\ admin'.path \in Paths
  /\ admin'.path = "superadmin" => marking = 0
  /\ tenant' # None
  /\ UNCHANGED <<row, rows, tel, marking, backlog, answers, spokeCfg>>

Listed ==
  /\ admin.pc = "list" /\ admin'.pc = "save" /\ admin'.path = admin.path
  /\ admin'.obj.cv = row.cv + 1 /\ admin'.obj.av = row.av
  /\ admin'.obj.hash = row.hash /\ admin'.obj.config = row.config
  /\ UNCHANGED <<tenant, row, rows, tel, marking, backlog, answers, spokeCfg>>

Saved ==
  /\ admin.pc = "save" /\ admin'.pc = "ensure" /\ admin'.path = admin.path
  /\ row' = admin.obj
  /\ UNCHANGED <<tenant, rows, tel, marking, backlog, answers, spokeCfg>>

Ensured ==
  /\ row'.cv = row.cv /\ row'.av = row.av /\ row'.config = row.config
  /\ \/ NeedsUpdate /\ Appended("update", row.cv, tenant) /\ row'.hash = tenant
     \/ ~NeedsUpdate /\ UNCHANGED <<rows, row>>

Pushed ==
  /\ Ensured
  /\ \/ admin.pc = "ensure" /\ admin'.pc = "idle" /\ admin'.path = "superadmin" /\ UNCHANGED tel
     \/ tel.pc = "ensure" /\ tel'.pc = "idle" /\ tel'.obj.config /\ UNCHANGED admin
     \/ UNCHANGED <<tel, admin>>
  /\ UNCHANGED <<tenant, marking, backlog, answers, spokeCfg>>

\* A heartbeat that has nothing to change.
Heard ==
  /\ tel.pc \in {"drifted", "ensure"} => tel'.pc \in {"drifted", "ensure"}
  /\ tel'.pc # "save" /\ tel'.obj.config
  /\ tel'.pc = "modify" => tel'.tenant # None
  /\ UNCHANGED <<tenant, row, rows, admin, marking, backlog, answers, spokeCfg>>

Bumped ==
  /\ row.cv <= row.av /\ row.hash # tenant
  /\ row'.cv = row.av + 1
  /\ row'.av = row.av /\ row'.hash = row.hash /\ row'.config = row.config
  /\ tel'.pc = "drifted" /\ tel'.obj.config
  /\ UNCHANGED <<tenant, rows, admin, marking, backlog, answers, spokeCfg>>

Received ==
  /\ \E d \in Nat : Delivery(d)
  /\ UNCHANGED <<tenant, row, tel, admin, marking, spokeCfg>>

\* The spoke handles a command.
Worked ==
  /\ SpokeApplies
  /\ UNCHANGED <<tenant, row, rows, tel, admin, marking>>

\* It fails to, or the command or an answer is lost: the answers that report
\* success are no more, and the backlog is what it was but for its head.
Dropped ==
  /\ \A id : <<id, TRUE>> \in answers' => <<id, TRUE>> \in answers
  /\ \E n \in {0, 1} : \A k \in DOMAIN backlog' :
       k + n \in DOMAIN backlog /\ backlog'[k] = backlog[k + n]
  /\ \A k \in DOMAIN backlog' : k \in Nat
  /\ faults' = faults + 1
  /\ UNCHANGED <<tenant, row, rows, tel, admin, marking, spokeCfg>>

\* e is the place of the acknowledged row.
Acked(e, success) ==
  /\ rows[e].status = "delivered"
  /\ <<rows[e].id, success>> \in answers
  /\ answers' = answers \ {<<rows[e].id, success>>}
  /\ marking = 0 /\ (admin.path = "superadmin" => admin.pc = "idle")
  /\ marking' = IF success THEN rows[e].ver ELSE 0
  /\ Restatus("delivered", {rows[e].id}, "executed")
  /\ UNCHANGED <<tenant, row, tel, admin, backlog, spokeCfg>>

Applies ==
  /\ marking # 0 /\ marking' = 0
  /\ row'.av = IF marking > row.av THEN marking ELSE row.av
  /\ row'.cv = row.cv /\ row'.hash = row.hash /\ row'.config = row.config
  /\ UNCHANGED <<tenant, rows, tel, admin, backlog, answers, spokeCfg>>

\* A queued row goes as a fault only.
Expired(e) ==
  /\ \/ rows[e].status = "executed"
     \/ rows[e].status = "queued" /\ faults' = faults + 1
     \/ /\ rows[e].status = "delivered"
        /\ \A k \in DOMAIN backlog : backlog[k] # rows[e].id
        /\ \A s \in BOOLEAN : <<rows[e].id, s>> \notin answers
  /\ Without(e)
  /\ UNCHANGED <<tenant, row, tel, admin, marking, backlog, answers, spokeCfg>>

Restarted ==
  /\ "restart" \in Faults /\ faults' = faults + 1
  /\ tel'.pc = "idle" /\ tel'.obj.config
  /\ admin'.pc = "idle" /\ admin'.path = "superadmin"
  /\ marking' = 0
  /\ UNCHANGED <<tenant, row, rows, backlog, answers, spokeCfg>>

Stutters == UNCHANGED <<tenant, row, rows, tel, admin, marking, backlog, answers, spokeCfg>>

\* What a handler keeps has a seed configuration.
LEMMA AtKeeps ==
  ASSUME Configured, NEW pc, NEW obj, obj.config
  PROVE  At(pc, obj).pc = pc /\ At(pc, obj).obj.config
BY DEF At, Approved

\* The row after the drift check, an ack or a push.
LEMMA RowExcept ==
  ASSUME NEW r \in Row, NEW v
  PROVE  /\ /\ [r EXCEPT !.cv = v].cv = v /\ [r EXCEPT !.cv = v].av = r.av
            /\ [r EXCEPT !.cv = v].hash = r.hash /\ [r EXCEPT !.cv = v].config = r.config
         /\ /\ [r EXCEPT !.av = v].av = v /\ [r EXCEPT !.av = v].cv = r.cv
            /\ [r EXCEPT !.av = v].hash = r.hash /\ [r EXCEPT !.av = v].config = r.config
         /\ /\ [r EXCEPT !.hash = v].hash = v /\ [r EXCEPT !.hash = v].cv = r.cv
            /\ [r EXCEPT !.hash = v].av = r.av /\ [r EXCEPT !.hash = v].config = r.config
BY DEF Row

\* A push sets the hash at most.
LEMMA EnsureEnsures ==
  ASSUME TypeOK, EnsureConfigUpdate
  PROVE  Ensured
<1>1. row \in Row
  BY DEF TypeOK
<1>2. CASE /\ NeedsUpdate /\ Appended("update", row.cv, tenant)
           /\ row' = [row EXCEPT !.hash = tenant]
  <2>1. /\ row'.hash = tenant /\ row'.cv = row.cv
        /\ row'.av = row.av /\ row'.config = row.config
    BY <1>1, <1>2, RowExcept
  <2>. QED
    BY <1>2, <2>1 DEF Ensured
<1>3. CASE ~NeedsUpdate /\ UNCHANGED <<rows, row>>
  BY <1>3 DEF Ensured
<1>. QED
  BY <1>2, <1>3, EnsureUpdates

\* What each step does to a managed spoke.
LEMMA ManagedStep ==
  ASSUME Managed, TypeInv, Steady, [Next]_vars
  PROVE  \/ Edited \/ Listed \/ Saved \/ Pushed \/ Heard \/ Bumped \/ Received
         \/ Worked \/ Dropped \/ Applies \/ Restarted \/ Stutters
         \/ \E e \in DOMAIN rows, success \in BOOLEAN : Acked(e, success)
         \/ \E e \in DOMAIN rows : Expired(e)
<1>1. /\ TypeOK /\ row \in Row /\ tel \in TelRec /\ admin \in AdminRec
      /\ tel.obj \in Row /\ row.cv \in Nat /\ row.av \in Nat
  BY TypesSplit DEF TypeInv, RestTypes, TelRec, AdminRec, Row
<1>2. /\ tenant # None /\ row.config /\ tel.obj.config /\ tel.pc # "save"
      /\ Configured
  BY DEF Steady, Managed
<1>3. ASSUME NEW path \in Paths, NEW cfg \in Chosen, EditTenant(path, cfg)
      PROVE  Edited
  <2>1. tenant' # None
    BY <1>3, ConfigAssumption DEF EditTenant, Chosen, Managed
  <2>2. admin'.pc = "list" /\ admin'.path = path
    BY <1>1, <1>3 DEF EditTenant, AdminRec
  <2>. QED
    BY <1>3, <2>1, <2>2 DEF EditTenant, Edited, LoopBusy, spoke
<1>4. CASE ListSpoke
  <2>1. admin' = [admin EXCEPT !.pc = "save", !.obj = [row EXCEPT !.cv = @ + 1]]
    BY <1>2, <1>4 DEF ListSpoke
  <2>2. PICK r : r = [row EXCEPT !.cv = @ + 1]
    OBVIOUS
  <2>3. r.cv = row.cv + 1 /\ r.av = row.av /\ r.hash = row.hash /\ r.config = row.config
    BY <1>1, <2>2, RowExcept
  <2>4. admin' = [admin EXCEPT !.pc = "save", !.obj = r]
    BY <2>1, <2>2
  <2>5. admin'.pc = "save" /\ admin'.path = admin.path /\ admin'.obj = r
    BY <1>1, <2>4 DEF AdminRec
  <2>. QED
    BY <1>4, <2>3, <2>5 DEF ListSpoke, Listed, hub, spoke
<1>5. CASE SaveListed
  <2>1. admin'.pc = "ensure" /\ admin'.path = admin.path
    BY <1>1, <1>5 DEF SaveListed, AdminRec
  <2>. QED
    BY <1>5, <2>1 DEF SaveListed, Saved, spoke
<1>6. CASE PushListed
  <2>1. Ensured
    BY <1>1, <1>2, <1>6, EnsureEnsures DEF PushListed
  <2>2. admin'.pc = "idle" /\ admin'.path = "superadmin"
    BY <1>6 DEF PushListed, NoEdit
  <2>. QED
    BY <1>6, <2>1, <2>2 DEF PushListed, Pushed, spoke
<1>7. CASE StartTelemetry \/ Connect
  <2>1. tel.pc = "idle" /\ tel'.pc \in {"tenant", "idle"} /\ tel'.obj.config
    BY <1>1, <1>2, <1>7 DEF StartTelemetry, Connect, TelRec
  <2>. QED
    BY <1>7, <2>1 DEF StartTelemetry, Connect, Heard, hub, spoke
<1>8. CASE ReadTenant
  <2>1. tel'.pc = "modify" /\ tel'.obj = tel.obj /\ tel'.tenant = tenant
    BY <1>1, <1>8 DEF ReadTenant, TelRec
  <2>. QED
    BY <1>2, <1>8, <2>1 DEF ReadTenant, Heard, hub, spoke
<1>9. ASSUME NEW report \in Reports, ModifyRow(report)
      PROVE  Heard
  <2>1. report # "renamed" /\ tel.obj.config /\ tel.tenant # None
    BY <1>2, <1>9 DEF Managed, ModifyRow, Steady
  <2>2. tel' = At("saved", tel.obj) /\ UNCHANGED rows /\ tel.pc = "modify"
    BY <1>9, <2>1 DEF ModifyRow
  <2>3. tel'.pc = "saved" /\ tel'.obj.config
    BY <1>2, <2>2, AtKeeps
  <2>4. UNCHANGED <<tenant, row, admin, marking, spoke>>
    BY <1>9 DEF ModifyRow
  <2>. QED
    BY <2>2, <2>3, <2>4 DEF Heard, spoke
<1>10. CASE SaveRow
  BY <1>2, <1>10 DEF SaveRow
<1>11. CASE CheckDrift
  <2>1. CASE Drifted /\ row' = [row EXCEPT !.cv = row.av + 1] /\ tel' = At("drifted", tel.obj)
    <3>1. tel'.pc = "drifted" /\ tel'.obj.config
      BY <1>2, <2>1, AtKeeps
    <3>2. /\ row'.cv = row.av + 1
          /\ row'.av = row.av /\ row'.hash = row.hash /\ row'.config = row.config
      BY <1>1, <2>1, RowExcept
    <3>. QED
      BY <1>11, <2>1, <3>1, <3>2 DEF CheckDrift, Drifted, Bumped, spoke
  <2>2. CASE tel' = At("idle", tel.obj) /\ UNCHANGED row
    <3>1. tel'.pc = "idle" /\ tel'.obj.config
      BY <1>2, <2>2, AtKeeps
    <3>. QED
      BY <1>11, <2>2, <3>1 DEF CheckDrift, Heard, spoke
  <2>. QED
    BY <1>11, <2>1, <2>2 DEF CheckDrift
<1>12. CASE PushDrifted
  <2>1. Ensured
    BY <1>1, <1>12, EnsureEnsures DEF PushDrifted
  <2>2. tel'.pc = "idle" /\ tel'.obj.config
    BY <1>2, <1>12, AtKeeps DEF PushDrifted
  <2>. QED
    BY <1>12, <2>1, <2>2 DEF PushDrifted, Pushed, spoke
<1>13. CASE PollInbox
  <2>1. Ensured
    BY <1>1, <1>13, EnsureEnsures DEF PollInbox
  <2>. QED
    BY <1>13, <2>1 DEF PollInbox, Pushed, spoke
<1>14. CASE Deliver
  BY <1>14, DeliverDelivers DEF Deliver, Received
<1>15. CASE SpokeApplies
  BY <1>15 DEF SpokeApplies, Worked, hub
<1>21. CASE SpokeFails \/ Lose
  <2>1. /\ UNCHANGED <<tenant, row, rows, tel, admin, marking, spokeCfg>>
        /\ faults' = faults + 1
    BY <1>21 DEF SpokeFails, Lose, hub
  <2>2. ASSUME NEW id, <<id, TRUE>> \in answers'
        PROVE  <<id, TRUE>> \in answers
    <3>1. CASE answers' = answers \cup {<<Head(backlog), FALSE>>}
      <4>1. <<id, TRUE>> # <<Head(backlog), FALSE>>
        OBVIOUS
      <4>. QED
        BY <2>2, <3>1, <4>1
    <3>2. CASE UNCHANGED answers \/ \E a \in answers : answers' = answers \ {a}
      BY <2>2, <3>2
    <3>. QED
      BY <1>21, <3>1, <3>2 DEF SpokeFails, Lose
  <2>3. /\ backlog \in Seq(Id) /\ Len(backlog) \in Nat /\ DOMAIN backlog = 1 .. Len(backlog)
    BY LenProperties DEF TypeInv, TypeOK
  <2>4. CASE UNCHANGED backlog
    <3>1. /\ \A k \in DOMAIN backlog' : k + 0 \in DOMAIN backlog /\ backlog'[k] = backlog[k + 0]
          /\ \A k \in DOMAIN backlog' : k \in Nat
      BY <2>3, <2>4
    <3>. QED
      BY <2>1, <2>2, <3>1 DEF Dropped
  <2>5. CASE backlog # <<>> /\ backlog' = Tail(backlog)
    <3>1. /\ backlog' \in Seq(Id) /\ Len(backlog') = Len(backlog) - 1
          /\ \A i \in 1 .. Len(backlog') : backlog'[i] = backlog[i + 1]
      BY <2>3, <2>5, HeadTailProperties
    <3>2. DOMAIN backlog' = 1 .. Len(backlog')
      BY <3>1, LenProperties
    <3>3. /\ \A k \in DOMAIN backlog' : k + 1 \in DOMAIN backlog /\ backlog'[k] = backlog[k + 1]
          /\ \A k \in DOMAIN backlog' : k \in Nat
      BY <2>3, <3>1, <3>2
    <3>. QED
      BY <2>1, <2>2, <3>3 DEF Dropped
  <2>. QED
    BY <1>21, <2>4, <2>5 DEF SpokeFails, Lose
<1>16. ASSUME NEW id \in Id, NEW success \in BOOLEAN, HandleAck(id, success)
       PROVE  \E e \in DOMAIN rows : Acked(e, success)
  <2>1. id \in DeliveredIds
    BY <1>16 DEF HandleAck, TypeInv, UnderWay
  <2>2. PICK e \in DOMAIN rows : rows[e].id = id /\ rows[e].status = "delivered"
    BY <2>1 DEF DeliveredIds
  <2>3. RowOf(id) \in ToSet(rows) /\ RowOf(id).id = id
    BY <2>2 DEF RowOf, ToSet
  <2>4. PICK j \in DOMAIN rows : RowOf(id) = rows[j]
    BY <2>3 DEF ToSet
  <2>5. j = e
    BY <2>2, <2>3, <2>4 DEF DistinctIds, TypeInv
  <2>6. RowOf(id) = rows[e] /\ rows[e].kind = "update"
    BY <2>4, <2>5 DEF Steady
  <2>7. Restatus("delivered", {id}, "executed")
    BY <1>1, <1>16, MarkedRestatus DEF HandleAck
  <2>8. marking' = IF success THEN rows[e].ver ELSE 0
    BY <1>16, <2>6 DEF HandleAck
  <2>9. marking = 0 /\ (admin.path = "superadmin" => admin.pc = "idle")
    BY <1>16 DEF HandleAck, LoopBusy
  <2>10. Acked(e, success)
    BY <1>16, <2>2, <2>7, <2>8, <2>9 DEF HandleAck, Acked
  <2>. QED
    BY <2>10
<1>17. CASE MarkConfigApplied
  BY <1>1, <1>17, RowExcept DEF MarkConfigApplied, Applies, spoke
<1>18. ASSUME NEW id \in Id, Expire(id)
       PROVE  \E e \in DOMAIN rows : Expired(e)
  <2>1. PICK e \in DOMAIN rows :
          /\ rows[e].id = id
          /\ \/ rows[e].status = "executed"
             \/ /\ rows[e].status = "delivered"
                /\ id \notin ToSet(backlog)
                /\ answers \cap ({id} \X BOOLEAN) = {}
          /\ rows' = RemoveAt(rows, e)
    BY <1>18 DEF Expire
  <2>2. Without(e)
    BY <1>1, <2>1, RemovedWithout
  <2>3. ASSUME id \notin ToSet(backlog), answers \cap ({id} \X BOOLEAN) = {}
        PROVE  /\ \A k \in DOMAIN backlog : backlog[k] # id
               /\ \A s \in BOOLEAN : <<id, s>> \notin answers
    BY <2>3 DEF ToSet
  <2>4. Expired(e)
    BY <1>18, <2>1, <2>2, <2>3 DEF Expire, Expired, spoke
  <2>. QED
    BY <2>4
<1>23. ASSUME NEW id \in Id, ExpireQueued(id)
       PROVE  \E e \in DOMAIN rows : Expired(e)
  <2>1. PICK e \in DOMAIN rows : /\ rows[e].status = "queued"
                                 /\ rows' = RemoveAt(rows, e)
    BY <1>23 DEF ExpireQueued
  <2>2. Without(e)
    BY <1>1, <2>1, RemovedWithout
  <2>3. Expired(e)
    BY <1>23, <2>1, <2>2 DEF ExpireQueued, Expired, spoke
  <2>. QED
    BY <2>3
<1>19. CASE Restart
  <2>1. tel'.pc = "idle" /\ tel'.obj.config
    BY <1>2, <1>19, AtKeeps DEF Restart
  <2>. QED
    BY <1>19, <2>1 DEF Restart, Restarted, NoEdit, hub, spoke
<1>20. CASE UNCHANGED vars
  BY <1>20 DEF vars, hub, spoke, Stutters
<1>22. CASE Resume
  <2>1. /\ tel'.pc = IF tel.pc = "saved" THEN "drift" ELSE "ensure"
        /\ tel'.obj.config
    BY <1>2, <1>22, AtKeeps DEF Resume
  <2>2. /\ tel.pc \in {"drifted", "ensure"} => tel'.pc \in {"drifted", "ensure"}
        /\ tel'.pc # "save" /\ tel'.pc # "modify"
    BY <2>1
  <2>. QED
    BY <1>22, <2>1, <2>2 DEF Resume, Heard, hub, spoke
<1>. QED
  BY <1>3, <1>4, <1>5, <1>6, <1>7, <1>8, <1>9, <1>10, <1>11, <1>12, <1>13, <1>14,
     <1>15, <1>16, <1>17, <1>18, <1>19, <1>20, <1>21, <1>22, <1>23 DEF Next

-----------------------------------------------------------------------------
(* Versions.                                                               *)

\* The fields of the variables that the invariants are about.
LEMMA Fields ==
  ASSUME TypeInv
  PROVE  /\ row.cv \in Nat /\ row.av \in Nat /\ marking \in Nat
         /\ admin.obj.cv \in Nat /\ admin.obj.av \in Nat
         /\ Len(rows) \in Nat /\ DOMAIN rows = 1 .. Len(rows)
         /\ \A i \in DOMAIN rows : rows[i].ver \in Nat /\ rows[i].id \in Id
<1>1. row \in Row /\ admin.obj \in Row /\ marking \in Nat
  BY TypesSplit DEF TypeInv, RestTypes, AdminRec
<1>2. /\ row.cv \in Nat /\ row.av \in Nat
      /\ admin.obj.cv \in Nat /\ admin.obj.av \in Nat
  BY <1>1 DEF Row
<1>3. Len(rows) \in Nat /\ DOMAIN rows = 1 .. Len(rows)
  BY LenProperties DEF TypeInv, TypeOK
<1>4. \A i \in DOMAIN rows : rows[i].ver \in Nat /\ rows[i].id \in Id
  BY RowFields DEF TypeInv
<1>. QED
  BY <1>1, <1>2, <1>3, <1>4

\* No row is new, and none has changed but for its status.
Kept ==
  \A j \in DOMAIN rows' : \E i \in DOMAIN rows :
    /\ rows'[j].id = rows[i].id /\ rows'[j].kind = rows[i].kind
    /\ rows'[j].ver = rows[i].ver /\ rows'[j].cfg = rows[i].cfg

\* So it is after a change of status, and when a row has gone.
LEMMA KeptRows ==
  ASSUME TypeInv,
         \/ UNCHANGED rows
         \/ \E before, ids, after : Restatus(before, ids, after)
         \/ \E e \in DOMAIN rows : Without(e)
  PROVE  Kept
<1>1. CASE UNCHANGED rows
  BY <1>1 DEF Kept
<1>2. ASSUME NEW before, NEW ids, NEW after, Restatus(before, ids, after)
      PROVE  Kept
  BY <1>2 DEF Kept, Restatus
<1>3. ASSUME NEW e \in DOMAIN rows, Without(e)
      PROVE  Kept
  <2>1. ASSUME NEW j \in DOMAIN rows'
        PROVE  \E i \in DOMAIN rows : rows'[j] = rows[i]
    <3>1. j \in 1 .. Len(rows) - 1 /\ rows'[j] = rows[IF j < e THEN j ELSE j + 1]
      BY <1>3 DEF Without
    <3>2. j \in DOMAIN rows /\ j + 1 \in DOMAIN rows
      BY <3>1, Fields
    <3>. QED
      BY <3>1, <3>2
  <2>. QED
    BY <2>1 DEF Kept
<1>. QED
  BY <1>1, <1>2, <1>3

\* The rows after an append: the old ones and the new one.
LEMMA AppendedRows ==
  ASSUME TypeInv, NEW kind, NEW ver, NEW cfg, Appended(kind, ver, cfg)
  PROVE  /\ DOMAIN rows' = 1 .. Len(rows) + 1 /\ Len(rows') = Len(rows) + 1
         /\ \A i \in DOMAIN rows : i \in DOMAIN rows' /\ i # Len(rows) + 1 /\ i < Len(rows) + 1
         /\ \A i \in DOMAIN rows' : i \in DOMAIN rows \/ i = Len(rows) + 1
         /\ \A i \in DOMAIN rows : rows'[i] = rows[i]
<1>1. Len(rows) \in Nat /\ DOMAIN rows = 1 .. Len(rows)
  BY Fields
<1>2. Len(rows') = Len(rows) + 1 /\ DOMAIN rows' = 1 .. Len(rows')
  BY LenProperties DEF Appended
<1>3. \A i \in DOMAIN rows : rows'[i] = rows[i]
  BY DEF Appended
<1>. QED
  BY <1>1, <1>2, <1>3

\* Only a push makes rows.
LEMMA ManagedRows ==
  ASSUME TypeInv,
         \/ Edited \/ Listed \/ Saved \/ Heard \/ Bumped \/ Received
         \/ Worked \/ Dropped \/ Applies \/ Restarted \/ Stutters
         \/ \E e \in DOMAIN rows, success \in BOOLEAN : Acked(e, success)
         \/ \E e \in DOMAIN rows : Expired(e)
  PROVE  Kept
<1>1. CASE \/ Edited \/ Listed \/ Saved \/ Heard \/ Bumped
           \/ Worked \/ Dropped \/ Applies \/ Restarted \/ Stutters
  <2>1. UNCHANGED rows
    BY <1>1 DEF Edited, Listed, Saved, Heard, Bumped, Worked, Dropped, Applies, Restarted,
       Stutters
  <2>. QED
    BY <2>1, KeptRows
<1>2. CASE Received
  <2>1. \E before, ids, after : Restatus(before, ids, after)
    BY <1>2 DEF Received, Delivery
  <2>. QED
    BY <2>1, KeptRows
<1>3. ASSUME NEW e \in DOMAIN rows, NEW success \in BOOLEAN, Acked(e, success)
      PROVE  Kept
  <2>1. \E before, ids, after : Restatus(before, ids, after)
    BY <1>3 DEF Acked
  <2>. QED
    BY <2>1, KeptRows
<1>4. ASSUME NEW e \in DOMAIN rows, Expired(e)
      PROVE  Kept
  BY <1>4, KeptRows DEF Expired
<1>. QED
  BY <1>1, <1>2, <1>3, <1>4

\* A managed spoke stays managed: heartbeats and pushes change no more than
\* they should.
LEMMA SteadyStep ==
  ASSUME Managed, TypeInv, Steady, [Next]_vars
  PROVE  Steady'
<1> DEFINE RowsSteady == \A i \in DOMAIN rows : rows[i].kind = "update" /\ rows[i].cfg # None
<1>1. Kept => RowsSteady'
  BY DEF Kept, Steady
<1> HIDE DEF RowsSteady
<1>2. CASE \/ Edited \/ Listed \/ Saved \/ Heard \/ Bumped \/ Received
           \/ Worked \/ Dropped \/ Applies \/ Restarted \/ Stutters
           \/ \E e \in DOMAIN rows, success \in BOOLEAN : Acked(e, success)
           \/ \E e \in DOMAIN rows : Expired(e)
  <2>1. RowsSteady'
    BY <1>1, <1>2, ManagedRows
  <2>2. /\ tenant' # None
        /\ row'.config /\ tel'.obj.config
        /\ tel'.pc # "save"
        /\ tel'.pc = "modify" => tel'.tenant # None
        /\ admin'.pc = "save" => admin'.obj.config
    BY <1>2 DEF Steady, Edited, Listed, Saved, Heard, Bumped, Received,
       Worked, Dropped, Applies, Restarted, Stutters, Acked, Expired
  <2>. QED
    BY <2>1, <2>2 DEF Steady, RowsSteady
<1>3. CASE Pushed
  <2>1. RowsSteady'
    <3>1. CASE Appended("update", row.cv, tenant)
      <4>1. rows'[Len(rows) + 1].kind = "update" /\ rows'[Len(rows) + 1].cfg # None
        BY <3>1 DEF Appended, Steady
      <4>. QED
        BY <3>1, <4>1, AppendedRows DEF Steady, RowsSteady
    <3>2. CASE UNCHANGED rows
      BY <3>2 DEF Steady, RowsSteady
    <3>. QED
      BY <1>3, <3>1, <3>2 DEF Pushed, Ensured
  <2>2. /\ tenant' # None
        /\ row'.config /\ tel'.obj.config
        /\ tel'.pc # "save"
        /\ tel'.pc = "modify" => tel'.tenant # None
        /\ admin'.pc = "save" => admin'.obj.config
    BY <1>3 DEF Steady, Pushed, Ensured
  <2>. QED
    BY <2>1, <2>2 DEF Steady, RowsSteady
<1>. QED
  BY <1>2, <1>3, ManagedStep

\* A version is issued before it is used, and an edit stays ahead of the drift
\* check.
LEMMA VersionStep ==
  ASSUME Managed, VersionInv, [Next]_vars
  PROVE  VersionInv'
<1>0. TypeInv /\ Steady /\ Issued /\ Ahead /\ TypeInv' /\ Steady'
  BY TypeStep, SteadyStep DEF VersionInv
<1>f. /\ row.cv \in Nat /\ row.av \in Nat /\ marking \in Nat
      /\ admin.obj.cv \in Nat /\ admin.obj.av \in Nat
      /\ \A i \in DOMAIN rows : rows[i].ver \in Nat
  BY <1>0, Fields
<1>k. Kept => \A j \in DOMAIN rows' : \E i \in DOMAIN rows : rows'[j].ver = rows[i].ver
  BY DEF Kept
<1>1. CASE Edited
  <2>1. Kept
    BY <1>0, <1>1, ManagedRows
  <2>. QED
    BY <1>0, <1>1, <1>k, <2>1 DEF VersionInv, Edited, Issued, Ahead
<1>2. CASE Listed
  <2>1. Issued'
    BY <1>0, <1>2 DEF Listed, Issued
  <2>2. Ahead'
    BY <1>0, <1>f, <1>2 DEF Listed, Issued, Ahead
  <2>. QED
    BY <1>0, <2>1, <2>2 DEF VersionInv
<1>3. CASE Saved
  <2>1. Issued'
    BY <1>0, <1>f, <1>3 DEF Saved, Issued, Ahead
  <2>2. Ahead'
    BY <1>3 DEF Saved, Ahead
  <2>. QED
    BY <1>0, <2>1, <2>2 DEF VersionInv
<1>4. CASE Pushed
  <2>1. row'.cv = row.cv /\ row'.av = row.av /\ marking' = marking /\ tenant' = tenant
    BY <1>4 DEF Pushed, Ensured
  <2>2. CASE UNCHANGED <<rows, row>>
    BY <1>0, <1>4, <2>1, <2>2 DEF Pushed, VersionInv, Issued, Ahead, Unsent
  <2>3. CASE NeedsUpdate /\ Appended("update", row.cv, tenant) /\ row'.hash = tenant
    <3>1. rows'[Len(rows) + 1].ver = row.cv /\ row.cv >= 1
      BY <1>0, <1>f, <2>3 DEF Appended, NeedsUpdate, Issued
    <3>2. Issued'
      BY <1>0, <2>1, <2>3, <3>1, <1>f, AppendedRows DEF Issued
    <3>3. Ahead'
      BY <1>0, <1>4, <2>1, <2>3 DEF Pushed, Ahead
    <3>. QED
      BY <1>0, <3>2, <3>3 DEF VersionInv
  <2>. QED
    BY <1>4, <2>2, <2>3 DEF Pushed, Ensured
<1>5. CASE Heard \/ Stutters
  BY <1>0, <1>5 DEF Heard, Stutters, VersionInv, Issued, Ahead, Unsent
<1>6. CASE Bumped
  <2>1. row.cv = row.av /\ row'.cv = row.cv + 1
    BY <1>0, <1>f, <1>6 DEF Bumped, Issued
  <2>2. Issued'
    BY <1>0, <1>f, <1>6, <2>1 DEF Bumped, Issued
  <2>3. Unsent(row.cv)'
    BY <1>0, <1>f, <1>6, <2>1 DEF Bumped, Issued, Unsent
  <2>4. Ahead'
    <3>1. admin.pc = "save" => row.cv # admin.obj.cv
      BY <1>0, <1>f, <1>6, <2>1 DEF Bumped, Ahead, Unsent
    <3>. QED
      BY <1>0, <1>f, <1>6, <2>1, <2>3, <3>1 DEF Bumped, Ahead
  <2>. QED
    BY <1>0, <2>2, <2>4 DEF VersionInv
<1>7. CASE Received
  <2>1. Kept
    BY <1>0, <1>7, ManagedRows
  <2>. QED
    BY <1>0, <1>7, <1>k, <2>1 DEF VersionInv, Received, Issued, Ahead, Unsent
<1>8. CASE Worked \/ Dropped
  BY <1>0, <1>8 DEF Worked, Dropped, VersionInv, Issued, Ahead, Unsent
<1>9. ASSUME NEW e \in DOMAIN rows, NEW success \in BOOLEAN, Acked(e, success)
      PROVE  VersionInv'
  <2>1. Kept
    BY <1>0, <1>9, ManagedRows
  <2>2. marking' = 0 \/ marking' = rows[e].ver
    BY <1>9 DEF Acked
  <2>3. Issued'
    BY <1>0, <1>f, <1>9, <1>k, <2>1, <2>2 DEF Acked, Issued
  <2>4. Unsent(row.cv) => Unsent(row.cv)'
    BY <1>0, <1>f, <1>9, <1>k, <2>1, <2>2 DEF Acked, Unsent
  <2>5. Ahead'
    BY <1>0, <1>9, <2>4 DEF Acked, Ahead
  <2>. QED
    BY <1>0, <2>3, <2>5 DEF VersionInv
<1>10. CASE Applies
  <2>1. row'.av = row.av \/ row'.av = marking
    BY <1>10 DEF Applies
  <2>2. Issued'
    BY <1>0, <1>f, <1>10, <2>1 DEF Applies, Issued
  <2>3. Unsent(row.cv) => Unsent(row.cv)'
    BY <1>f, <1>10, <2>1 DEF Applies, Unsent
  <2>4. row.av <= row'.av
    BY <1>f, <1>10 DEF Applies
  <2>5. Ahead'
    BY <1>0, <1>f, <1>10, <2>3, <2>4 DEF Applies, Ahead
  <2>. QED
    BY <1>0, <2>2, <2>5 DEF VersionInv
<1>11. ASSUME NEW e \in DOMAIN rows, Expired(e)
       PROVE  VersionInv'
  <2>1. Kept
    BY <1>0, <1>11, ManagedRows
  <2>. QED
    BY <1>0, <1>11, <1>k, <2>1 DEF VersionInv, Expired, Issued, Ahead, Unsent
<1>12. CASE Restarted
  BY <1>0, <1>f, <1>12 DEF Restarted, VersionInv, Issued, Ahead
<1>. QED
  BY <1>0, <1>1, <1>2, <1>3, <1>4, <1>5, <1>6, <1>7, <1>8, <1>9, <1>10, <1>11, <1>12,
     ManagedStep

\* The invariant holds at the start.
LEMMA VersionInit ==
  ASSUME Managed, Init
  PROVE  VersionInv
<1>1. rows = <<>> /\ DOMAIN rows = {}
  BY EmptySeq DEF Init
<1>2. tel = At("idle", Approved) /\ row = Approved /\ Approved.config
  BY DEF Init, Managed, Approved
<1>3. tel.pc = "idle" /\ tel.obj.config
  BY <1>2, AtKeeps DEF Managed
<1>4. Steady
  BY <1>1, <1>2, <1>3 DEF Init, Managed, Steady, NoEdit
<1>5. Issued /\ Ahead
  BY <1>1, <1>2 DEF Init, Issued, Ahead, NoEdit, Approved
<1>. QED
  BY <1>4, <1>5, TypeInit DEF VersionInv

\* The hub never believes that a managed spoke has applied a version that was
\* not issued, over either transport, through either endpoint, and whatever
\* fails: an edit that saves an old copy of the row gives it a version that no
\* push, ack or drift check in the meantime went beyond.
THEOREM AppliedNotAheadCorrect ==
  ASSUME Managed
  PROVE  Spec => []AppliedNotAhead
<1>1. Init => VersionInv
  BY VersionInit
<1>2. VersionInv /\ [Next]_vars => VersionInv'
  BY VersionStep
<1>3. VersionInv => AppliedNotAhead
  BY DEF VersionInv, Issued, AppliedNotAhead
<1>. QED
  BY <1>1, <1>2, <1>3, PTL DEF Spec

-----------------------------------------------------------------------------
(* While steps end: order.                                                 *)

\* The place that a row had before the one at e went.
Old(e, j) == IF j < e THEN j ELSE j + 1

\* The rows that are left are in their order.
LEMMA ExpiredRows ==
  ASSUME TypeInv, NEW e \in DOMAIN rows, Without(e)
  PROVE  /\ \A j \in DOMAIN rows' : Old(e, j) \in DOMAIN rows /\ rows'[j] = rows[Old(e, j)]
         /\ \A i, j \in DOMAIN rows' : i < j => Old(e, i) < Old(e, j)
<1>1. /\ Len(rows) \in Nat /\ DOMAIN rows = 1 .. Len(rows)
      /\ DOMAIN rows' = 1 .. Len(rows) - 1
      /\ \A j \in DOMAIN rows' : rows'[j] = rows[Old(e, j)]
  BY Fields DEF Without, Old
<1>. QED
  BY <1>1 DEF Old

\* The spoke handles the commands one after the other.
Handles(e) ==
  /\ e \in DOMAIN rows /\ rows[e].id = backlog[1]
  /\ 1 \in DOMAIN backlog
  /\ spokeCfg' = rows[e].cfg
  /\ answers' = answers \cup {<<rows[e].id, TRUE>>}
  /\ \A k \in DOMAIN backlog' : k + 1 \in DOMAIN backlog /\ backlog'[k] = backlog[k + 1]
  /\ \A k \in DOMAIN backlog : k # 1 => k - 1 \in DOMAIN backlog'
  /\ \A k \in DOMAIN backlog : k \in Nat
  /\ UNCHANGED <<tenant, row, rows, tel, admin, marking>>

\* That is what it does with an update.
LEMMA WorkedHandles ==
  ASSUME TypeInv, Steady, Worked
  PROVE  \E e \in DOMAIN rows : Handles(e)
<1>2. SpokeApplies
  BY DEF Worked
<1>3. /\ backlog \in Seq(Id) /\ Len(backlog) \in Nat /\ DOMAIN backlog = 1 .. Len(backlog)
      /\ backlog # <<>>
  BY <1>2, LenProperties DEF TypeInv, TypeOK, SpokeApplies
<1>4. /\ backlog' \in Seq(Id) /\ Len(backlog') = Len(backlog) - 1
      /\ \A i \in 1 .. Len(backlog') : backlog'[i] = backlog[i + 1]
  BY <1>2, <1>3, HeadTailProperties DEF SpokeApplies
<1>5. Head(backlog) = backlog[1] /\ 1 \in DOMAIN backlog
  BY <1>3, EmptySeq
<1>6. DOMAIN backlog' = 1 .. Len(backlog')
  BY <1>4, LenProperties
<1>7. /\ \A k \in DOMAIN backlog' : k + 1 \in DOMAIN backlog /\ backlog'[k] = backlog[k + 1]
      /\ \A k \in DOMAIN backlog : k # 1 => k - 1 \in DOMAIN backlog'
      /\ \A k \in DOMAIN backlog : k \in Nat
  BY <1>3, <1>4, <1>6
<1>8. PICK e \in DOMAIN rows : rows[e].id = backlog[1]
  BY <1>5 DEF TypeInv, UnderWay, DeliveredIds
<1>9. RowOf(backlog[1]) \in ToSet(rows) /\ RowOf(backlog[1]).id = backlog[1]
  BY <1>8 DEF RowOf, ToSet
<1>10. PICK j \in DOMAIN rows : RowOf(backlog[1]) = rows[j]
  BY <1>9 DEF ToSet
<1>11. RowOf(backlog[1]) = rows[e]
  BY <1>8, <1>9, <1>10 DEF DistinctIds, TypeInv
<1>12. Applied(rows[e]) = rows[e].cfg
  BY DEF Applied, Steady
<1>13. /\ spokeCfg' = rows[e].cfg
       /\ answers' = answers \cup {<<rows[e].id, TRUE>>}
  BY <1>2, <1>5, <1>8, <1>11, <1>12 DEF SpokeApplies
<1>14. Handles(e)
  BY <1>5, <1>7, <1>8, <1>13 DEF Handles, Worked
<1>. QED
  BY <1>14

\* A step that only works on what the hub keeps of the spoke.
Aside ==
  \/ Edited \/ Listed \/ Saved \/ Heard \/ Bumped \/ Applies \/ Stutters

\* The steps, with what the spoke does to the file's rows.
LEMMA SpokeStep ==
  ASSUME Managed, TypeInv, Steady, [Next]_vars
  PROVE  \/ Aside \/ Pushed \/ Received \/ Dropped \/ Restarted
         \/ \E e \in DOMAIN rows : Handles(e)
         \/ \E e \in DOMAIN rows, success \in BOOLEAN : Acked(e, success)
         \/ \E e \in DOMAIN rows : Expired(e)
BY ManagedStep, WorkedHandles DEF Aside

\* What is under way is of rows, and a new row is not.
LEMMA NewIsNotUnderWay ==
  ASSUME TypeInv, NEW kind, NEW ver, NEW cfg, Appended(kind, ver, cfg),
         UNCHANGED <<backlog, answers>>
  PROVE  /\ \A k \in DOMAIN backlog : backlog[k] # rows'[Len(rows) + 1].id
         /\ <<rows'[Len(rows) + 1].id, TRUE>> \notin answers
<1> DEFINE new == rows'[Len(rows) + 1].id
<1>1. \A i \in DOMAIN rows : rows[i].id # new
  BY DEF Appended
<1>2. new \notin DeliveredIds
  BY <1>1 DEF DeliveredIds
<1>3. new \in Id
  <2>1. Len(rows) + 1 \in DOMAIN rows' /\ \A i \in DOMAIN rows' : rows'[i] \in Command
    BY AppendedRows, LenProperties, Fields DEF Appended
  <2>. QED
    BY <2>1 DEF Command
<1> HIDE DEF new
<1>4. <<new, TRUE>> \notin answers
  BY <1>2, <1>3 DEF UnderWay, TypeInv
<1>5. \A k \in DOMAIN backlog : backlog[k] # new
  BY <1>2 DEF UnderWay, TypeInv
<1>. QED
  BY <1>4, <1>5 DEF new

\* Rows that were taken are delivered and under way.
LEMMA ReceivedRows ==
  ASSUME TypeInv, NEW d \in Nat, Delivery(d)
  PROVE  /\ DOMAIN rows' = DOMAIN rows
         /\ \A i \in DOMAIN rows :
              /\ rows'[i].id = rows[i].id /\ rows'[i].ver = rows[i].ver
              /\ rows'[i].status = IF d < i THEN "delivered" ELSE rows[i].status
              /\ d < i <=> rows[i].status = "queued"
              /\ i \in Nat
         /\ \A k \in DOMAIN backlog : k \in DOMAIN backlog' /\ backlog'[k] = backlog[k]
         /\ \A i \in DOMAIN rows :
              d < i => /\ Len(backlog) + (i - d) \in DOMAIN backlog'
                       /\ backlog'[Len(backlog) + (i - d)] = rows[i].id
         /\ \A k \in DOMAIN backlog' :
              k \notin DOMAIN backlog =>
                /\ (k - Len(backlog)) + d \in DOMAIN rows
                /\ backlog'[k] = rows[(k - Len(backlog)) + d].id
                /\ d < (k - Len(backlog)) + d
                /\ k \in Nat /\ Len(backlog) < k
         /\ \A k \in DOMAIN backlog : k \in Nat /\ k <= Len(backlog)
         /\ Len(backlog) \in Nat
         /\ UNCHANGED answers
<1>1. /\ Len(rows) \in Nat /\ DOMAIN rows = 1 .. Len(rows) /\ d \in 0 .. Len(rows)
      /\ Len(backlog) \in Nat /\ DOMAIN backlog = 1 .. Len(backlog)
  BY Fields, LenProperties DEF TypeInv, TypeOK, Delivery, QueuedAfter
<1>2. DOMAIN backlog' = 1 .. Len(backlog) + (Len(rows) - d)
  <2>1. DOMAIN backlog' = 1 .. Len(backlog')
    BY LenProperties DEF Delivery
  <2>. QED
    BY <2>1 DEF Delivery
<1>3. ASSUME NEW i \in DOMAIN rows
      PROVE  /\ rows'[i].id = rows[i].id /\ rows'[i].ver = rows[i].ver
             /\ rows'[i].status = IF d < i THEN "delivered" ELSE rows[i].status
             /\ d < i <=> rows[i].status = "queued"
             /\ i \in Nat
  <2>1. rows[i].id \in Id /\ (rows[i].status = "queued" <=> d < i) /\ i \in Nat
    BY <1>1, Fields DEF Delivery, QueuedAfter
  <2>. QED
    BY <2>1 DEF Delivery, Restatus
<1>4. ASSUME NEW k \in DOMAIN backlog
      PROVE  /\ k \in DOMAIN backlog' /\ backlog'[k] = backlog[k]
             /\ k \in Nat /\ k <= Len(backlog)
  BY <1>1, <1>2 DEF Delivery
<1>5. ASSUME NEW i \in DOMAIN rows, d < i
      PROVE  /\ Len(backlog) + (i - d) \in DOMAIN backlog'
             /\ backlog'[Len(backlog) + (i - d)] = rows[i].id
  <2>1. i - d \in 1 .. Len(rows) - d /\ d + (i - d) = i
        /\ Len(backlog) + (i - d) \in DOMAIN backlog'
    BY <1>1, <1>2, <1>5
  <2>2. backlog'[Len(backlog) + (i - d)] = rows[d + (i - d)].id
    BY <2>1 DEF Delivery
  <2>. QED
    BY <2>1, <2>2
<1>6. ASSUME NEW k \in DOMAIN backlog', k \notin DOMAIN backlog
      PROVE  /\ (k - Len(backlog)) + d \in DOMAIN rows
             /\ backlog'[k] = rows[(k - Len(backlog)) + d].id
             /\ d < (k - Len(backlog)) + d
             /\ k \in Nat /\ Len(backlog) < k
  <2>1. /\ k - Len(backlog) \in 1 .. Len(rows) - d
        /\ Len(backlog) + (k - Len(backlog)) = k
        /\ d + (k - Len(backlog)) = (k - Len(backlog)) + d
        /\ (k - Len(backlog)) + d \in DOMAIN rows
        /\ d < (k - Len(backlog)) + d
        /\ k \in Nat /\ Len(backlog) < k
    BY <1>1, <1>2, <1>6
  <2>2. backlog'[Len(backlog) + (k - Len(backlog))] = rows[d + (k - Len(backlog))].id
    BY <2>1 DEF Delivery
  <2>. QED
    BY <2>1, <2>2
<1>7. DOMAIN rows' = DOMAIN rows /\ UNCHANGED answers
  BY DEF Delivery, Restatus
<1>. QED
  BY <1>1, <1>3, <1>4, <1>5, <1>6, <1>7

\* A step aside leaves the commands and answers alone.
LEMMA AsideKeeps ==
  ASSUME Aside
  PROVE  UNCHANGED <<rows, backlog, answers, spokeCfg>>
BY DEF Aside, Edited, Listed, Saved, Heard, Bumped, Applies, Stutters

\* The two parts of InOrder.
FileInOrder == \A i, j \in DOMAIN rows : i < j => rows[i].ver <= rows[j].ver
BacklogInOrder ==
  \A i, j \in DOMAIN rows : \A k, l \in DOMAIN backlog :
    k < l /\ rows[i].id = backlog[k] /\ rows[j].id = backlog[l]
      => rows[i].ver <= rows[j].ver

\* Versions rise along the file, and along what is under way.
LEMMA InOrderStep ==
  ASSUME Managed, "restart" \notin Faults, SyncInv, [Next]_vars
  PROVE  InOrder'
<1>0. TypeInv /\ Steady /\ Issued /\ FileInOrder /\ BacklogInOrder
  BY DEF SyncInv, VersionInv, InOrder, FileInOrder, BacklogInOrder
<1>s. ASSUME FileInOrder', BacklogInOrder'
      PROVE  InOrder'
  BY <1>s DEF InOrder, FileInOrder, BacklogInOrder
<1>f. /\ \A i \in DOMAIN rows : rows[i].ver \in Nat
      /\ Len(rows) \in Nat /\ DOMAIN rows = 1 .. Len(rows) /\ row.cv \in Nat
  BY <1>0, Fields
<1>1. CASE Aside
  BY <1>0, <1>1, <1>s, AsideKeeps DEF FileInOrder, BacklogInOrder
<1>2. CASE Pushed
  <2>1. UNCHANGED <<backlog, answers>>
    BY <1>2 DEF Pushed
  <2>2. CASE UNCHANGED rows
    BY <1>0, <1>s, <2>1, <2>2 DEF FileInOrder, BacklogInOrder
  <2>3. CASE Appended("update", row.cv, tenant)
    <3> DEFINE n == Len(rows) + 1
    <3>1. /\ \A i \in DOMAIN rows' : i \in DOMAIN rows \/ i = n
          /\ \A i \in DOMAIN rows : rows'[i] = rows[i] /\ i < n
          /\ n \in Nat
      BY <1>0, <1>f, <2>3, AppendedRows
    <3>2. rows'[n].ver = row.cv
      BY <2>3 DEF Appended
    <3>3. \A k \in DOMAIN backlog : backlog[k] # rows'[n].id
      BY <1>0, <2>1, <2>3, NewIsNotUnderWay
    <3> HIDE DEF n
    <3>4. FileInOrder'
      <4>1. ASSUME NEW i \in DOMAIN rows', NEW j \in DOMAIN rows', i < j
            PROVE  rows'[i].ver <= rows'[j].ver
        <5>1. i \in DOMAIN rows
          BY <1>f, <3>1, <4>1
        <5>2. CASE j = n
          BY <1>0, <3>1, <3>2, <5>1, <5>2 DEF Issued
        <5>3. CASE j \in DOMAIN rows
          BY <1>0, <3>1, <4>1, <5>1, <5>3 DEF FileInOrder
        <5>. QED
          BY <3>1, <5>2, <5>3
      <4>. QED
        BY <4>1 DEF FileInOrder
    <3>5. BacklogInOrder'
      BY <1>0, <2>1, <3>1, <3>3 DEF BacklogInOrder
    <3>. QED
      BY <1>s, <3>4, <3>5
  <2>. QED
    BY <1>2, <2>2, <2>3 DEF Pushed, Ensured
<1>3. CASE Received
  <2>1. PICK d \in Nat : Delivery(d)
    BY <1>3 DEF Received
  <2>2. FileInOrder'
    BY <1>0, <2>1, ReceivedRows DEF FileInOrder
  <2>3. ASSUME NEW i \in DOMAIN rows, NEW j \in DOMAIN rows,
               NEW k \in DOMAIN backlog', NEW l \in DOMAIN backlog',
               k < l, rows[i].id = backlog'[k], rows[j].id = backlog'[l]
        PROVE  rows[i].ver <= rows[j].ver
    <3>1. CASE k \in DOMAIN backlog /\ l \in DOMAIN backlog
      BY <1>0, <2>1, <2>3, <3>1, ReceivedRows DEF BacklogInOrder
    <3>2. CASE k \in DOMAIN backlog /\ l \notin DOMAIN backlog
      <4>1. backlog[k] \in DeliveredIds /\ backlog[k] = rows[i].id
        BY <1>0, <2>1, <2>3, <3>2, ReceivedRows DEF UnderWay, TypeInv
      <4>2. rows[i].status = "delivered"
        BY <1>0, <4>1 DEF DeliveredIds, DistinctIds, TypeInv
      <4>3. ~(d < i)
        BY <1>0, <2>1, <4>2, ReceivedRows
      <4>4. /\ (l - Len(backlog)) + d \in DOMAIN rows
            /\ rows[j].id = rows[(l - Len(backlog)) + d].id
            /\ d < (l - Len(backlog)) + d
        BY <1>0, <2>1, <2>3, <3>2, ReceivedRows
      <4>5. d < j
        BY <1>0, <4>4 DEF DistinctIds, TypeInv
      <4>. QED
        BY <1>0, <1>f, <4>3, <4>5 DEF FileInOrder
    <3>3. CASE k \notin DOMAIN backlog /\ l \notin DOMAIN backlog
      <4>1. /\ (k - Len(backlog)) + d \in DOMAIN rows
            /\ rows[i].id = rows[(k - Len(backlog)) + d].id /\ k \in Nat
        BY <1>0, <2>1, <2>3, <3>3, ReceivedRows
      <4>2. /\ (l - Len(backlog)) + d \in DOMAIN rows
            /\ rows[j].id = rows[(l - Len(backlog)) + d].id /\ l \in Nat
        BY <1>0, <2>1, <2>3, <3>3, ReceivedRows
      <4>3. i = (k - Len(backlog)) + d /\ j = (l - Len(backlog)) + d
        BY <1>0, <4>1, <4>2 DEF DistinctIds, TypeInv
      <4>4. Len(backlog) \in Nat
        BY <1>0, <2>1, ReceivedRows
      <4>5. i < j
        BY <2>3, <4>1, <4>2, <4>3, <4>4
      <4>. QED
        BY <1>0, <4>5 DEF FileInOrder
    <3>4. CASE k \notin DOMAIN backlog /\ l \in DOMAIN backlog
      <4>1. k \in Nat /\ Len(backlog) < k /\ l \in Nat /\ l <= Len(backlog) /\ Len(backlog) \in Nat
        BY <1>0, <2>1, <3>4, ReceivedRows
      <4>. QED
        BY <2>3, <4>1
    <3>. QED
      BY <3>1, <3>2, <3>3, <3>4
  <2>4. BacklogInOrder'
    <3>1. /\ DOMAIN rows' = DOMAIN rows
          /\ \A i \in DOMAIN rows : rows'[i].id = rows[i].id /\ rows'[i].ver = rows[i].ver
      BY <1>0, <2>1, ReceivedRows
    <3>. QED
      BY <2>3, <3>1 DEF BacklogInOrder
  <2>. QED
    BY <1>s, <2>2, <2>4
<1>4. ASSUME NEW e \in DOMAIN rows, Handles(e)
      PROVE  InOrder'
  <2>1. FileInOrder'
    BY <1>0, <1>4 DEF Handles, FileInOrder
  <2>2. BacklogInOrder'
    <3>1. \A k, l \in DOMAIN backlog' : k < l => k + 1 < l + 1
      <4>1. \A k \in DOMAIN backlog' : k \in Int
        <5>1. backlog' \in Seq(Id)
          BY <1>0, TypeStep DEF TypeInv, TypeOK
        <5>. QED
          BY <5>1, LenProperties
      <4>. QED
        BY <4>1
    <3>. QED
      BY <1>0, <1>4, <3>1 DEF Handles, BacklogInOrder
  <2>. QED
    BY <1>s, <2>1, <2>2
<1>5. ASSUME NEW e \in DOMAIN rows, NEW success \in BOOLEAN, Acked(e, success)
      PROVE  InOrder'
  <2>1. FileInOrder'
    BY <1>0, <1>5 DEF Acked, Restatus, FileInOrder
  <2>2. BacklogInOrder'
    BY <1>0, <1>5 DEF Acked, Restatus, BacklogInOrder
  <2>. QED
    BY <1>s, <2>1, <2>2
<1>6. ASSUME NEW e \in DOMAIN rows, Expired(e)
      PROVE  InOrder'
  <2>1. /\ \A j \in DOMAIN rows' : Old(e, j) \in DOMAIN rows /\ rows'[j] = rows[Old(e, j)]
        /\ \A i, j \in DOMAIN rows' : i < j => Old(e, i) < Old(e, j)
    BY <1>0, <1>6, ExpiredRows DEF Expired
  <2>2. backlog' = backlog
    BY <1>6 DEF Expired
  <2>3. FileInOrder'
    BY <1>0, <2>1 DEF FileInOrder
  <2>4. BacklogInOrder'
    BY <1>0, <2>1, <2>2 DEF BacklogInOrder
  <2>. QED
    BY <1>s, <2>3, <2>4
<1>7. CASE Dropped
  <2>1. UNCHANGED rows
    BY <1>7 DEF Dropped
  <2>2. PICK n \in {0, 1} : \A k \in DOMAIN backlog' :
          k + n \in DOMAIN backlog /\ backlog'[k] = backlog[k + n]
    BY <1>7 DEF Dropped
  <2>3. \A k, l \in DOMAIN backlog' : k < l => k + n < l + n
    BY <1>7, <2>2 DEF Dropped
  <2>4. FileInOrder' /\ BacklogInOrder'
    BY <1>0, <2>1, <2>2, <2>3 DEF FileInOrder, BacklogInOrder
  <2>. QED
    BY <1>s, <2>4
<1>. QED
  BY <1>0, <1>1, <1>2, <1>3, <1>4, <1>5, <1>6, <1>7, SpokeStep DEF Restarted

\* The spoke handles versions in their order, and the hub learns of them in it.
LEMMA DoneFirstStep ==
  ASSUME Managed, "restart" \notin Faults, SyncInv, [Next]_vars
  PROVE  DoneFirst'
<1>0. /\ TypeInv /\ Steady /\ Issued /\ Ahead /\ DoneFirst
      /\ FileInOrder /\ BacklogInOrder
  BY DEF SyncInv, VersionInv, InOrder, FileInOrder, BacklogInOrder
<1>f. /\ \A i \in DOMAIN rows : rows[i].ver \in Nat
      /\ Len(rows) \in Nat /\ DOMAIN rows = 1 .. Len(rows)
      /\ row.cv \in Nat /\ row.av \in Nat /\ marking \in Nat /\ admin.obj.av \in Nat
  BY <1>0, Fields
<1>1. CASE Aside
  <2>1. UNCHANGED <<rows, backlog, answers>>
    BY <1>1, AsideKeeps
  <2>2. \/ row'.av <= row.av /\ row'.av \in Nat /\ marking' = marking
        \/ (row'.av = row.av \/ row'.av = marking) /\ marking' = 0
    BY <1>0, <1>f, <1>1 DEF Aside, Edited, Listed, Saved, Heard, Bumped, Applies, Stutters, Ahead
  <2>3. ASSUME NEW i \in DOMAIN rows, Ahand(i)
        PROVE  row'.av <= rows[i].ver /\ marking' <= rows[i].ver
    <3>1. row.av <= rows[i].ver /\ marking <= rows[i].ver
      BY <1>0, <2>3 DEF DoneFirst
    <3>. QED
      BY <1>f, <2>2, <3>1
  <2>. QED
    BY <1>0, <2>1, <2>3 DEF DoneFirst, Ahand, InBacklog, Answered
<1>2. CASE Pushed
  <2>1. UNCHANGED <<backlog, answers, marking>> /\ row'.av = row.av
    BY <1>2 DEF Pushed, Ensured
  <2>2. CASE UNCHANGED rows
    BY <1>0, <2>1, <2>2 DEF DoneFirst, Ahand, InBacklog, Answered
  <2>3. CASE Appended("update", row.cv, tenant)
    <3> DEFINE n == Len(rows) + 1
    <3>1. /\ \A i \in DOMAIN rows' : i \in DOMAIN rows \/ i = n
          /\ \A i \in DOMAIN rows : rows'[i] = rows[i]
      BY <1>0, <1>f, <2>3, AppendedRows
    <3>2. rows'[n].ver = row.cv
      BY <2>3 DEF Appended
    <3>3. <<rows'[n].id, TRUE>> \notin answers
      BY <1>0, <2>1, <2>3, NewIsNotUnderWay
    <3> HIDE DEF n
    <3>4. ASSUME NEW i \in DOMAIN rows', Ahand(i)'
          PROVE  /\ row.av <= rows'[i].ver
                 /\ marking <= rows'[i].ver
                 /\ \A j \in DOMAIN rows' : Answered(rows[j].id)' => rows'[j].ver <= rows'[i].ver
      <4>1. CASE i = n
        BY <1>0, <2>1, <3>1, <3>2, <3>3, <4>1 DEF Issued, Answered
      <4>2. CASE i \in DOMAIN rows
        <5>1. Ahand(i) /\ rows'[i] = rows[i]
          BY <2>1, <3>1, <3>4, <4>2 DEF Ahand, InBacklog
        <5>. QED
          BY <1>0, <2>1, <3>1, <3>3, <4>2, <5>1 DEF DoneFirst, Answered
      <4>. QED
        BY <3>1, <4>1, <4>2
    <3>. QED
      BY <2>1, <3>4 DEF DoneFirst
  <2>. QED
    BY <1>2, <2>2, <2>3 DEF Pushed, Ensured
<1>3. CASE Received
  <2>1. PICK d \in Nat : Delivery(d)
    BY <1>3 DEF Received
  <2>2. UNCHANGED <<answers, row, marking>>
    BY <1>0, <1>3, <2>1, ReceivedRows DEF Received
  <2>3. /\ DOMAIN rows' = DOMAIN rows
        /\ \A i \in DOMAIN rows : rows'[i].id = rows[i].id /\ rows'[i].ver = rows[i].ver
    BY <1>0, <2>1, ReceivedRows
  <2>4. ASSUME NEW i \in DOMAIN rows, Ahand(i)'
        PROVE  Ahand(i)
    <3>1. CASE d < i
      BY <1>0, <2>1, <3>1, ReceivedRows DEF Ahand
    <3>2. CASE ~(d < i)
      <4>1. rows'[i].status # "queued" /\ rows'[i].id = rows[i].id
        BY <1>0, <2>1, <3>2, ReceivedRows
      <4>2. PICK k \in DOMAIN backlog' : backlog'[k] = rows[i].id
        BY <2>4, <4>1 DEF Ahand, InBacklog
      <4>3. CASE k \in DOMAIN backlog
        BY <1>0, <2>1, <4>2, <4>3, ReceivedRows DEF Ahand, InBacklog
      <4>4. CASE k \notin DOMAIN backlog
        <5>1. /\ (k - Len(backlog)) + d \in DOMAIN rows
              /\ backlog'[k] = rows[(k - Len(backlog)) + d].id
              /\ d < (k - Len(backlog)) + d
          BY <1>0, <2>1, <4>4, ReceivedRows
        <5>2. i = (k - Len(backlog)) + d
          BY <1>0, <4>2, <5>1 DEF DistinctIds, TypeInv
        <5>. QED
          BY <3>2, <5>1, <5>2
      <4>. QED
        BY <4>3, <4>4
    <3>. QED
      BY <3>1, <3>2
  <2>. QED
    BY <1>0, <2>2, <2>3, <2>4 DEF DoneFirst, Answered
<1>4. ASSUME NEW e \in DOMAIN rows, Handles(e)
      PROVE  DoneFirst'
  <2>1. UNCHANGED <<rows, row, marking>>
    BY <1>4 DEF Handles
  <2>2. rows[e].status = "delivered"
    <3>1. rows[e].id \in DeliveredIds
      BY <1>0, <1>4 DEF Handles, UnderWay, TypeInv
    <3>. QED
      BY <1>0, <3>1 DEF DeliveredIds, DistinctIds, TypeInv
  <2>3. ASSUME NEW i \in DOMAIN rows, Ahand(i)'
        PROVE  Ahand(i) /\ rows[e].ver <= rows[i].ver
    <3>1. CASE rows[i].status = "queued"
      <4>1. Ahand(i)
        BY <3>1 DEF Ahand
      <4>2. ~(i < e) /\ i # e
        BY <1>0, <2>2, <3>1 DEF QueuedLast, TypeInv
      <4>3. e < i
        BY <1>f, <4>2
      <4>. QED
        BY <1>0, <4>1, <4>3 DEF FileInOrder
    <3>2. CASE rows[i].status # "queued"
      <4>1. PICK k \in DOMAIN backlog' : backlog'[k] = rows[i].id
        BY <2>1, <2>3, <3>2 DEF Ahand, InBacklog
      <4>2. k + 1 \in DOMAIN backlog /\ backlog[k + 1] = rows[i].id
        BY <1>4, <4>1 DEF Handles
      <4>3. 1 < k + 1 /\ 1 \in DOMAIN backlog /\ backlog[1] = rows[e].id
        <5>1. k \in Nat /\ k # 0
          <6>1. backlog' \in Seq(Id)
            BY <1>0, TypeStep DEF TypeInv, TypeOK
          <6>. QED
            BY <6>1, LenProperties
        <5>. QED
          BY <1>4, <5>1 DEF Handles
      <4>. QED
        BY <1>0, <4>2, <4>3 DEF BacklogInOrder, Ahand, InBacklog
    <3>. QED
      BY <3>1, <3>2
  <2>4. \A i \in DOMAIN rows : Answered(rows[i].id)' => Answered(rows[i].id) \/ i = e
    BY <1>0, <1>4 DEF Handles, Answered, DistinctIds, TypeInv
  <2>. QED
    BY <1>0, <2>1, <2>3, <2>4 DEF DoneFirst
<1>5. ASSUME NEW e \in DOMAIN rows, NEW success \in BOOLEAN, Acked(e, success)
      PROVE  DoneFirst'
  <2>1. /\ DOMAIN rows' = DOMAIN rows
        /\ \A i \in DOMAIN rows : rows'[i].id = rows[i].id /\ rows'[i].ver = rows[i].ver
        /\ UNCHANGED <<row, backlog>> /\ answers' \subseteq answers
    BY <1>5 DEF Acked, Restatus
  <2>2. \A i \in DOMAIN rows : Ahand(i)' => Ahand(i)
    BY <1>5 DEF Acked, Restatus, Ahand, InBacklog
  <2>3. marking' = 0 \/ (marking' = rows[e].ver /\ Answered(rows[e].id))
    BY <1>5 DEF Acked, Answered
  <2>4. ASSUME NEW i \in DOMAIN rows, Ahand(i)
        PROVE  marking' <= rows[i].ver
    BY <1>0, <1>f, <2>3, <2>4 DEF DoneFirst
  <2>. QED
    BY <1>0, <2>1, <2>2, <2>4 DEF DoneFirst, Answered
<1>6. ASSUME NEW e \in DOMAIN rows, Expired(e)
      PROVE  DoneFirst'
  <2>1. \A j \in DOMAIN rows' : Old(e, j) \in DOMAIN rows /\ rows'[j] = rows[Old(e, j)]
    BY <1>0, <1>6, ExpiredRows DEF Expired
  <2>2. UNCHANGED <<row, marking, backlog, answers>>
    BY <1>6 DEF Expired
  <2>3. \A j \in DOMAIN rows' : Ahand(j)' => Ahand(Old(e, j))
    BY <2>1, <2>2 DEF Ahand, InBacklog
  <2>. QED
    BY <1>0, <2>1, <2>2, <2>3 DEF DoneFirst, Answered
<1>7. CASE Dropped
  <2>1. UNCHANGED <<rows, row, marking>>
    BY <1>7 DEF Dropped
  <2>2. \A id : (InBacklog(id)' => InBacklog(id)) /\ (Answered(id)' => Answered(id))
    BY <1>7 DEF Dropped, InBacklog, Answered
  <2>. QED
    BY <1>0, <2>1, <2>2 DEF DoneFirst, Ahand
<1>. QED
  BY <1>0, <1>1, <1>2, <1>3, <1>4, <1>5, <1>6, <1>7, SpokeStep DEF Restarted

\* The last version means the same to the tenant, the queue and the spoke.
LEMMA LastIsWantedStep ==
  ASSUME Managed, "restart" \notin Faults, SyncInv, [Next]_vars
  PROVE  LastIsWanted'
<1>0. /\ TypeInv /\ Steady /\ Issued /\ Ahead /\ DoneFirst /\ LastIsWanted
  BY DEF SyncInv, VersionInv
<1>f. /\ \A i \in DOMAIN rows : rows[i].ver \in Nat
      /\ Len(rows) \in Nat /\ DOMAIN rows = 1 .. Len(rows)
      /\ row.cv \in Nat /\ row.av \in Nat /\ marking \in Nat
      /\ admin.obj.av \in Nat /\ admin.obj.cv \in Nat
  BY <1>0, Fields
<1>1. CASE Aside
  <2>1. UNCHANGED <<rows, answers, spokeCfg>>
    BY <1>1, AsideKeeps
  <2>2. CASE Edited
    BY <2>2 DEF Edited, LastIsWanted
  <2>3. CASE Listed
    <3>1. Target' = row.cv + 1 /\ row' = row /\ marking' = marking
      BY <2>3 DEF Listed, Target
    <3>2. \A i \in DOMAIN rows : rows[i].ver # Target'
      BY <1>0, <1>f, <3>1 DEF Issued
    <3>3. row'.av # Target' /\ marking' # Target'
      BY <1>0, <1>f, <3>1 DEF Issued
    <3>4. ~Handled(Target)'
      BY <2>1, <3>2, <3>3 DEF Handled
    <3>. QED
      BY <2>1, <3>2, <3>4 DEF LastIsWanted
  <2>4. CASE Saved
    <3>1. Target' = Target /\ tenant' = tenant /\ marking' = marking
      BY <2>4 DEF Saved, Target
    <3>2. row'.av # Target'
      BY <1>0, <1>f, <2>4, <3>1 DEF Saved, Target, Ahead
    <3>3. Handled(Target)' => Handled(Target)
      BY <2>1, <3>1, <3>2 DEF Handled, Answered
    <3>. QED
      BY <1>0, <2>1, <2>4, <3>1, <3>3 DEF Saved, LastIsWanted
  <2>5. CASE Heard \/ Stutters
    <3>1. UNCHANGED <<tenant, row, admin, marking>>
      BY <2>5 DEF Heard, Stutters
    <3>2. Target' = Target /\ (Handled(Target)' => Handled(Target))
      BY <2>1, <3>1 DEF Target, Handled, Answered
    <3>. QED
      BY <1>0, <2>1, <3>1, <3>2 DEF LastIsWanted
  <2>6. CASE Bumped
    <3>1. tenant' = tenant /\ admin' = admin /\ marking' = marking /\ row'.av = row.av
      BY <2>6 DEF Bumped
    <3>2. CASE admin.pc = "save"
      BY <1>0, <2>1, <3>1, <3>2 DEF LastIsWanted, Target, Handled, Answered
    <3>3. CASE admin.pc # "save"
      <4>1. Target' = row.cv + 1 /\ row.av <= row.cv
        BY <1>0, <1>f, <2>6, <3>1, <3>3 DEF Bumped, Target, Issued
      <4>2. \A i \in DOMAIN rows : rows[i].ver # Target'
        BY <1>0, <1>f, <4>1 DEF Issued
      <4>3. row'.av # Target' /\ marking' # Target'
        BY <1>0, <1>f, <3>1, <4>1 DEF Issued
      <4>4. ~Handled(Target)'
        BY <2>1, <4>2, <4>3 DEF Handled
      <4>. QED
        BY <2>1, <4>2, <4>4 DEF LastIsWanted
    <3>. QED
      BY <3>2, <3>3
  <2>7. CASE Applies
    <3>1. Target' = Target /\ tenant' = tenant /\ admin' = admin
      BY <2>7 DEF Applies, Target
    <3>2. (row'.av = row.av \/ row'.av = marking) /\ marking' = 0
      BY <2>7 DEF Applies
    <3>3. Target' # 0 /\ Handled(Target)' => Handled(Target)
      BY <2>1, <3>1, <3>2 DEF Handled, Answered
    <3>. QED
      BY <1>0, <2>1, <3>1, <3>3 DEF LastIsWanted
  <2>. QED
    BY <1>1, <2>2, <2>3, <2>4, <2>5, <2>6, <2>7 DEF Aside
<1>2. CASE Pushed
  <2>1. /\ UNCHANGED <<backlog, answers, marking, tenant, spokeCfg>>
        /\ row'.av = row.av /\ row'.cv = row.cv
    BY <1>2 DEF Pushed, Ensured
  <2>2. Target' = Target /\ (admin.pc = "list" <=> admin'.pc = "list")
    BY <1>2, <2>1 DEF Pushed, Target
  <2>3. CASE UNCHANGED rows
    BY <1>0, <2>1, <2>2, <2>3 DEF LastIsWanted, Handled, Answered
  <2>4. CASE Appended("update", row.cv, tenant)
    <3> DEFINE n == Len(rows) + 1
    <3>1. /\ \A i \in DOMAIN rows' : i \in DOMAIN rows \/ i = n
          /\ \A i \in DOMAIN rows : rows'[i] = rows[i]
      BY <1>0, <1>f, <2>4, AppendedRows
    <3>2. rows'[n].ver = row.cv /\ rows'[n].cfg = tenant
      BY <2>4 DEF Appended
    <3>3. <<rows'[n].id, TRUE>> \notin answers
      BY <1>0, <2>1, <2>4, NewIsNotUnderWay
    <3> HIDE DEF n
    <3>4. Handled(Target)' => Handled(Target)
      BY <2>1, <2>2, <3>1, <3>3 DEF Handled, Answered
    <3>. QED
      BY <1>0, <2>1, <2>2, <3>1, <3>2, <3>4 DEF LastIsWanted
  <2>. QED
    BY <1>2, <2>3, <2>4 DEF Pushed, Ensured
<1>3. CASE Received
  <2>1. PICK d \in Nat : Delivery(d)
    BY <1>3 DEF Received
  <2>2. /\ DOMAIN rows' = DOMAIN rows
        /\ \A i \in DOMAIN rows : /\ rows'[i].id = rows[i].id /\ rows'[i].ver = rows[i].ver
                                  /\ rows'[i].cfg = rows[i].cfg
    BY <2>1 DEF Delivery, Restatus
  <2>3. UNCHANGED <<answers, row, marking, tenant, admin, spokeCfg>>
    BY <1>3, <2>1 DEF Received, Delivery
  <2>. QED
    BY <1>0, <2>2, <2>3 DEF LastIsWanted, Target, Handled, Answered
<1>4. ASSUME NEW e \in DOMAIN rows, Handles(e)
      PROVE  LastIsWanted'
  <2>1. UNCHANGED <<rows, row, marking, tenant, admin>> /\ Target' = Target
    BY <1>4 DEF Handles, Target
  <2>2. Ahand(e)
    BY <1>4 DEF Handles, Ahand, InBacklog
  <2>3. rows[e].ver <= row.cv /\ 1 <= rows[e].ver
    BY <1>0 DEF Issued
  <2>4. row.cv <= Target /\ Target \in Nat
    BY <1>0, <1>f DEF Target, Ahead
  <2>5. CASE rows[e].ver = Target
    <3>1. admin.pc # "list" => spokeCfg' = tenant
      BY <1>0, <1>4, <2>5 DEF Handles, LastIsWanted
    <3>. QED
      BY <1>0, <2>1, <3>1 DEF LastIsWanted
  <2>6. CASE rows[e].ver # Target
    <3>1. rows[e].ver < Target
      BY <1>f, <2>3, <2>4, <2>6
    <3>2. /\ row.av <= rows[e].ver /\ marking <= rows[e].ver
          /\ \A j \in DOMAIN rows : Answered(rows[j].id) => rows[j].ver <= rows[e].ver
      BY <1>0, <2>2 DEF DoneFirst
    <3>3. row.av # Target /\ marking # Target
      BY <1>f, <2>4, <3>1, <3>2
    <3>4. ASSUME NEW j \in DOMAIN rows, Answered(rows[j].id)'
          PROVE  rows[j].ver # Target
      <4>1. Answered(rows[j].id) \/ j = e
        BY <1>0, <1>4, <3>4 DEF Handles, Answered, DistinctIds, TypeInv
      <4>2. rows[j].ver <= rows[e].ver
        BY <1>f, <3>2, <4>1
      <4>. QED
        BY <1>f, <2>4, <3>1, <4>2
    <3>5. ~Handled(Target)'
      BY <2>1, <3>3, <3>4 DEF Handled
    <3>. QED
      BY <1>0, <2>1, <3>5 DEF LastIsWanted
  <2>. QED
    BY <2>5, <2>6
<1>5. ASSUME NEW e \in DOMAIN rows, NEW success \in BOOLEAN, Acked(e, success)
      PROVE  LastIsWanted'
  <2>1. /\ DOMAIN rows' = DOMAIN rows
        /\ \A i \in DOMAIN rows : /\ rows'[i].id = rows[i].id /\ rows'[i].ver = rows[i].ver
                                  /\ rows'[i].cfg = rows[i].cfg
        /\ UNCHANGED <<row, tenant, admin, spokeCfg>> /\ answers' \subseteq answers
    BY <1>5 DEF Acked, Restatus
  <2>2. marking' = 0 \/ (marking' = rows[e].ver /\ Answered(rows[e].id))
    BY <1>5 DEF Acked, Answered
  <2>3. Target' = Target
    BY <2>1 DEF Target
  <2>4. Target' # 0 /\ Handled(Target)' => Handled(Target)
    BY <2>1, <2>2, <2>3 DEF Handled, Answered
  <2>. QED
    BY <1>0, <2>1, <2>3, <2>4 DEF LastIsWanted
<1>6. ASSUME NEW e \in DOMAIN rows, Expired(e)
      PROVE  LastIsWanted'
  <2>1. \A j \in DOMAIN rows' : Old(e, j) \in DOMAIN rows /\ rows'[j] = rows[Old(e, j)]
    BY <1>0, <1>6, ExpiredRows DEF Expired
  <2>2. UNCHANGED <<row, marking, tenant, admin, answers, spokeCfg>> /\ Target' = Target
    BY <1>6 DEF Expired, Target
  <2>3. Handled(Target)' => Handled(Target)
    BY <2>1, <2>2 DEF Handled, Answered
  <2>. QED
    BY <1>0, <2>1, <2>2, <2>3 DEF LastIsWanted
<1>7. CASE Dropped
  <2>1. UNCHANGED <<rows, row, marking, tenant, admin, spokeCfg>> /\ Target' = Target
    BY <1>7 DEF Dropped, Target
  <2>2. Handled(Target)' => Handled(Target)
    BY <1>7, <2>1 DEF Dropped, Handled, Answered
  <2>. QED
    BY <1>0, <2>1, <2>2 DEF LastIsWanted
<1>. QED
  BY <1>0, <1>1, <1>2, <1>3, <1>4, <1>5, <1>6, <1>7, SpokeStep DEF Restarted

\* A push comes after a version.
LEMMA NotPushedStep ==
  ASSUME Managed, "restart" \notin Faults, SyncInv, [Next]_vars
  PROVE  NotPushed'
<1>0. /\ TypeInv /\ Steady /\ Issued /\ Ahead /\ NotPushed
  BY DEF SyncInv, VersionInv
<1>f. /\ row.cv \in Nat /\ row.av \in Nat /\ admin.obj.av \in Nat /\ admin.obj.cv \in Nat
  BY <1>0, Fields
<1>1. CASE Saved
  <2>1. row'.cv # 0
    BY <1>0, <1>f, <1>1 DEF Saved, Ahead
  <2>. QED
    BY <2>1 DEF NotPushed
<1>2. CASE Bumped
  <2>1. row'.cv # 0
    BY <1>f, <1>2 DEF Bumped
  <2>. QED
    BY <2>1 DEF NotPushed
<1>3. CASE Pushed
  <2>1. CASE NeedsUpdate
    <3>1. row'.cv # 0
      BY <1>f, <1>3, <2>1 DEF Pushed, Ensured, NeedsUpdate
    <3>. QED
      BY <3>1 DEF NotPushed
  <2>2. CASE UNCHANGED row
    BY <1>0, <2>2 DEF NotPushed
  <2>. QED
    BY <1>3, <2>1, <2>2 DEF Pushed, Ensured
<1>4. CASE \/ Edited \/ Listed \/ Heard \/ Applies \/ Stutters \/ Received \/ Dropped
           \/ \E e \in DOMAIN rows : Handles(e)
           \/ \E e \in DOMAIN rows, success \in BOOLEAN : Acked(e, success)
           \/ \E e \in DOMAIN rows : Expired(e)
  <2>1. row'.cv = row.cv /\ row'.hash = row.hash
    BY <1>4 DEF Edited, Listed, Heard, Applies, Stutters, Received, Dropped, Handles, Acked,
       Expired
  <2>. QED
    BY <1>0, <2>1 DEF NotPushed
<1>. QED
  BY <1>0, <1>1, <1>2, <1>3, <1>4, SpokeStep DEF Aside, Restarted

\* The invariant of a managed spoke, kept by each step that is not a restart.
LEMMA SyncStep ==
  ASSUME Managed, "restart" \notin Faults, SyncInv, [Next]_vars
  PROVE  SyncInv'
<1>1. VersionInv'
  BY VersionStep DEF SyncInv
<1>. QED
  BY <1>1, InOrderStep, DoneFirstStep, LastIsWantedStep, NotPushedStep
  DEF SyncInv

\* It holds at the start.
LEMMA SyncInit ==
  ASSUME Managed, Init
  PROVE  SyncInv
<1>1. rows = <<>> /\ DOMAIN rows = {} /\ backlog = <<>> /\ DOMAIN backlog = {} /\ answers = {}
  BY EmptySeq DEF Init
<1>2. InOrder /\ DoneFirst
  BY <1>1 DEF InOrder, DoneFirst
<1>3. row.cv = 0 /\ row.hash = NoHash /\ admin.pc = "idle"
  BY DEF Init, Approved, NoEdit
<1>4. LastIsWanted /\ NotPushed
  BY <1>1, <1>3 DEF LastIsWanted, Target, NotPushed
<1>. QED
  BY <1>2, <1>4, VersionInit DEF SyncInv

\* When the hub takes a managed spoke to be in sync, the spoke runs what its
\* tenant wants: over either transport, through either endpoint, and however
\* many commands and acks are lost, fail or outlive their day, as long as the
\* hub is not restarted in the middle of a step.
THEOREM InSyncIsAppliedCorrect ==
  ASSUME Managed, "restart" \notin Faults
  PROVE  Spec => []InSyncIsApplied
<1>1. Init => SyncInv
  BY SyncInit
<1>2. SyncInv /\ [Next]_vars => SyncInv'
  BY SyncStep
<1>3. SyncInv => InSyncIsApplied
  <2> SUFFICES ASSUME SyncInv, Quiet, tenant # None, row.cv = row.av, row.hash = tenant
               PROVE  spokeCfg = tenant
    BY DEF InSyncIsApplied
  <2>1. tenant # NoHash
    BY ConfigAssumption DEF SyncInv, VersionInv, TypeInv, TypeOK, Config
  <2>2. row.cv # 0
    BY <2>1 DEF SyncInv, NotPushed
  <2>3. Target = row.cv /\ Handled(Target) /\ admin.pc # "list"
    BY DEF Target, Handled, Quiet
  <2>. QED
    BY <2>2, <2>3 DEF SyncInv, LastIsWanted
<1>. QED
  BY <1>1, <1>2, <1>3, PTL DEF Spec

-----------------------------------------------------------------------------
(* Without faults: what is pending is on its way.                          *)

\* Faults are counted.
LEMMA FaultsCounted ==
  ASSUME [Next]_vars
  PROVE  faults' = faults \/ faults' = faults + 1
<1>1. CASE \/ \E path \in Paths, cfg \in Chosen : EditTenant(path, cfg)
           \/ ListSpoke \/ SaveListed \/ PushListed
           \/ StartTelemetry \/ Connect \/ ReadTenant \/ SaveRow \/ Resume
           \/ \E report \in Reports : ModifyRow(report)
  BY <1>1 DEF EditTenant, ListSpoke, SaveListed, PushListed, StartTelemetry, Connect,
     ReadTenant, SaveRow, Resume, ModifyRow
<1>2. CASE \/ CheckDrift \/ PushDrifted \/ PollInbox \/ Deliver \/ SpokeApplies
           \/ \E id \in Id, success \in BOOLEAN : HandleAck(id, success)
           \/ MarkConfigApplied \/ \E id \in Id : Expire(id)
  BY <1>2 DEF CheckDrift, PushDrifted, PollInbox, Deliver, SpokeApplies, HandleAck,
     MarkConfigApplied, Expire
<1>3. CASE SpokeFails \/ Lose \/ Restart \/ \E id \in Id : ExpireQueued(id)
  BY <1>3 DEF SpokeFails, Lose, Restart, ExpireQueued
<1>4. CASE UNCHANGED vars
  BY <1>4 DEF vars
<1>. QED
  BY <1>1, <1>2, <1>3, <1>4 DEF Next

\* The steps as long as there was none.
LEMMA FaultFreeStep ==
  ASSUME Managed, TypeInv, Steady, faults' = 0, [Next]_vars
  PROVE  \/ Aside \/ Pushed \/ Received
         \/ \E e \in DOMAIN rows : Handles(e)
         \/ \E e \in DOMAIN rows, success \in BOOLEAN : Acked(e, success)
         \/ \E e \in DOMAIN rows : Expired(e)
<1>1. faults \in Nat
  BY TypesSplit DEF TypeInv, RestTypes
<1>2. faults' # faults + 1
  BY <1>1
<1>3. ~Dropped /\ ~Restarted
  BY <1>2 DEF Dropped, Restarted
<1>. QED
  BY <1>3, SpokeStep

\* Every delivered command stays under way until it is acknowledged.
LEMMA NothingLostStep ==
  ASSUME Managed, faults' = 0, PendingInv, [Next]_vars
  PROVE  NothingLost'
<1>0. TypeInv /\ Steady /\ NothingLost
  BY DEF PendingInv, VersionInv
<1>1. CASE Aside
  BY <1>0, <1>1, AsideKeeps DEF NothingLost, DeliveredIds, InBacklog, Answered
<1>2. CASE Pushed
  <2>1. UNCHANGED <<backlog, answers>>
    BY <1>2 DEF Pushed
  <2>2. DeliveredIds' = DeliveredIds
    <3>1. CASE UNCHANGED rows
      BY <3>1 DEF DeliveredIds
    <3>2. CASE Appended("update", row.cv, tenant)
      <4>1. rows'[Len(rows) + 1].status = "queued"
        BY <3>2 DEF Appended
      <4>. QED
        BY <1>0, <3>2, <4>1, AppendedRows DEF DeliveredIds
    <3>. QED
      BY <1>2, <3>1, <3>2 DEF Pushed, Ensured
  <2>. QED
    BY <1>0, <2>1, <2>2 DEF NothingLost, InBacklog, Answered
<1>3. CASE Received
  <2>1. PICK d \in Nat : Delivery(d)
    BY <1>3 DEF Received
  <2>2. UNCHANGED answers
    BY <1>0, <2>1, ReceivedRows
  <2>3. ASSUME NEW id \in DeliveredIds'
        PROVE  InBacklog(id)' \/ Answered(id)'
    <3>1. PICK i \in DOMAIN rows : rows[i].id = id /\ rows'[i].status = "delivered"
      BY <1>0, <2>1, ReceivedRows DEF DeliveredIds
    <3>2. CASE d < i
      BY <1>0, <2>1, <3>1, <3>2, ReceivedRows DEF InBacklog
    <3>3. CASE ~(d < i)
      <4>1. rows[i].status = "delivered"
        BY <1>0, <2>1, <3>1, <3>3, ReceivedRows
      <4>2. InBacklog(id) \/ Answered(id)
        BY <1>0, <3>1, <4>1 DEF NothingLost, DeliveredIds
      <4>3. InBacklog(id) => InBacklog(id)'
        BY <1>0, <2>1, ReceivedRows DEF InBacklog
      <4>. QED
        BY <2>2, <4>2, <4>3 DEF Answered
    <3>. QED
      BY <3>2, <3>3
  <2>. QED
    BY <1>0, <2>2, <2>3 DEF NothingLost
<1>4. ASSUME NEW e \in DOMAIN rows, Handles(e)
      PROVE  NothingLost'
  <2>1. DeliveredIds' = DeliveredIds
    BY <1>4 DEF Handles, DeliveredIds
  <2>2. ASSUME NEW id \in DeliveredIds
        PROVE  InBacklog(id)' \/ Answered(id)'
    <3>1. Answered(id) => Answered(id)'
      BY <1>4 DEF Answered, Handles
    <3>2. ASSUME NEW k \in DOMAIN backlog, backlog[k] = id
          PROVE  InBacklog(id)' \/ Answered(id)'
      <4>1. CASE k = 1
        BY <1>4, <3>2, <4>1 DEF Answered, Handles
      <4>2. CASE k # 1
        <5>1. k - 1 \in DOMAIN backlog' /\ backlog'[k - 1] = backlog[(k - 1) + 1] /\ k \in Nat
          BY <1>4, <3>2, <4>2 DEF Handles
        <5>2. (k - 1) + 1 = k
          BY <5>1
        <5>. QED
          BY <3>2, <5>1, <5>2 DEF InBacklog
      <4>. QED
        BY <4>1, <4>2
    <3>. QED
      BY <1>0, <3>1, <3>2 DEF NothingLost, InBacklog
  <2>3. \A id \in Id : <<id, FALSE>> \notin answers'
    BY <1>0, <1>4 DEF Handles, NothingLost
  <2>. QED
    BY <2>1, <2>2, <2>3 DEF NothingLost
<1>5. ASSUME NEW e \in DOMAIN rows, NEW success \in BOOLEAN, Acked(e, success)
      PROVE  NothingLost'
  <2>1. ASSUME NEW id \in DeliveredIds'
        PROVE  id \in DeliveredIds /\ id # rows[e].id
    BY <1>5 DEF Acked, Restatus, DeliveredIds
  <2>2. ASSUME NEW id \in DeliveredIds'
        PROVE  InBacklog(id)' \/ Answered(id)'
    <3>1. InBacklog(id) \/ Answered(id)
      BY <1>0, <2>1, <2>2 DEF NothingLost
    <3>2. id # rows[e].id
      BY <2>1, <2>2
    <3>. QED
      BY <1>5, <3>1, <3>2 DEF Acked, InBacklog, Answered
  <2>3. \A id \in Id : <<id, FALSE>> \notin answers'
    BY <1>0, <1>5 DEF Acked, NothingLost
  <2>. QED
    BY <2>2, <2>3 DEF NothingLost
<1>6. ASSUME NEW e \in DOMAIN rows, Expired(e)
      PROVE  NothingLost'
  <2>1. DeliveredIds' \subseteq DeliveredIds
    BY <1>0, <1>6, ExpiredRows DEF Expired, DeliveredIds
  <2>. QED
    BY <1>0, <1>6, <2>1 DEF Expired, NothingLost, InBacklog, Answered
<1>. QED
  BY <1>0, <1>1, <1>2, <1>3, <1>4, <1>5, <1>6, FaultFreeStep

\* An edit on the event loop and an ack exclude each other.
LEMMA OnLoopStep ==
  ASSUME Managed, faults' = 0, Paths \subseteq {"superadmin"}, PendingInv, [Next]_vars
  PROVE  OnLoop'
<1>0. TypeInv /\ Steady /\ OnLoop
  BY DEF PendingInv, VersionInv
<1>1. CASE Edited
  BY <1>0, <1>1 DEF OnLoop, Edited
<1>2. CASE Listed
  BY <1>0, <1>2 DEF OnLoop, Listed
<1>3. CASE Saved
  BY <1>0, <1>3 DEF OnLoop, Saved
<1>4. CASE Pushed
  BY <1>0, <1>4 DEF OnLoop, Pushed, Ensured
<1>5. CASE Bumped
  BY <1>0, <1>5 DEF OnLoop, Bumped
<1>6. CASE Applies
  BY <1>0, <1>6 DEF OnLoop, Applies
<1>7. ASSUME NEW e \in DOMAIN rows, NEW success \in BOOLEAN, Acked(e, success)
      PROVE  OnLoop'
  BY <1>0, <1>7 DEF OnLoop, Acked
<1>8. CASE \/ Heard \/ Stutters \/ Received
           \/ \E e \in DOMAIN rows : Handles(e)
           \/ \E e \in DOMAIN rows : Expired(e)
  <2>1. UNCHANGED <<row, admin, marking>>
    BY <1>8 DEF Heard, Stutters, Received, Handles, Expired
  <2>. QED
    BY <1>0, <2>1 DEF OnLoop
<1>. QED
  BY <1>0, <1>1, <1>2, <1>3, <1>4, <1>5, <1>6, <1>7, <1>8, FaultFreeStep DEF Aside

\* A row is executed by the ack that goes on to raise the applied version.
LEMMA ExecutedIsAppliedStep ==
  ASSUME Managed, faults' = 0, PendingInv, [Next]_vars
  PROVE  ExecutedIsApplied'
<1>0. TypeInv /\ Steady /\ Issued /\ NothingLost /\ OnLoop /\ ExecutedIsApplied
  BY DEF PendingInv, VersionInv
<1>f. /\ row.av \in Nat /\ marking \in Nat
      /\ \A i \in DOMAIN rows : rows[i].ver \in Nat /\ rows[i].id \in Id
  BY <1>0, Fields
<1>1. CASE \/ Edited \/ Listed \/ Saved \/ Heard \/ Bumped \/ Stutters
           \/ \E e \in DOMAIN rows : Handles(e)
  <2>1. row'.av = row.av /\ UNCHANGED <<rows, marking>>
    BY <1>0, <1>1 DEF OnLoop, Edited, Listed, Saved, Heard, Bumped, Stutters, Handles
  <2>. QED
    BY <1>0, <2>1 DEF ExecutedIsApplied
<1>2. CASE Applies
  <2>1. ASSUME NEW i \in DOMAIN rows, rows[i].status = "executed"
        PROVE  rows[i].ver <= row'.av
    <3>1. rows[i].ver <= row.av \/ rows[i].ver = marking
      BY <1>0, <2>1 DEF ExecutedIsApplied
    <3>. QED
      BY <1>f, <1>2, <3>1 DEF Applies
  <2>2. UNCHANGED rows
    BY <1>2 DEF Applies
  <2>. QED
    BY <2>1, <2>2 DEF ExecutedIsApplied
<1>3. CASE Pushed
  <2>1. row'.av = row.av /\ UNCHANGED marking
    BY <1>3 DEF Pushed, Ensured
  <2>2. CASE UNCHANGED rows
    BY <1>0, <2>1, <2>2 DEF ExecutedIsApplied
  <2>3. CASE Appended("update", row.cv, tenant)
    <3>1. rows'[Len(rows) + 1].status # "executed"
      BY <2>3 DEF Appended
    <3>. QED
      BY <1>0, <2>1, <2>3, <3>1, AppendedRows DEF ExecutedIsApplied
  <2>. QED
    BY <1>3, <2>2, <2>3 DEF Pushed, Ensured
<1>4. CASE Received
  <2>1. PICK d \in Nat : Delivery(d)
    BY <1>4 DEF Received
  <2>2. row' = row /\ marking' = marking
    BY <1>4 DEF Received
  <2>3. /\ DOMAIN rows' = DOMAIN rows
        /\ \A i \in DOMAIN rows :
             /\ rows'[i].ver = rows[i].ver
             /\ rows'[i].status = "executed" => rows[i].status = "executed"
    BY <1>0, <2>1, ReceivedRows
  <2>. QED
    BY <1>0, <2>2, <2>3 DEF ExecutedIsApplied
<1>5. ASSUME NEW e \in DOMAIN rows, NEW success \in BOOLEAN, Acked(e, success)
      PROVE  ExecutedIsApplied'
  <2>1. success
    BY <1>0, <1>f, <1>5 DEF Acked, NothingLost
  <2>2. marking = 0 /\ marking' = rows[e].ver /\ row' = row
    BY <1>5, <2>1 DEF Acked
  <2>3. ASSUME NEW i \in DOMAIN rows, rows'[i].status = "executed"
        PROVE  rows[i].ver <= row.av \/ rows[i].ver = rows[e].ver
    <3>1. CASE rows[i].id = rows[e].id
      BY <1>0, <3>1 DEF TypeInv, DistinctIds
    <3>2. CASE rows[i].id # rows[e].id
      <4>1. rows[i].status = "executed"
        BY <1>5, <2>3, <3>2 DEF Acked, Restatus
      <4>2. rows[i].ver <= row.av \/ rows[i].ver = 0
        BY <1>0, <2>2, <4>1 DEF ExecutedIsApplied
      <4>3. 1 <= rows[i].ver
        BY <1>0 DEF Issued
      <4>. QED
        BY <4>2, <4>3
    <3>. QED
      BY <3>1, <3>2
  <2>4. DOMAIN rows' = DOMAIN rows /\ \A i \in DOMAIN rows : rows'[i].ver = rows[i].ver
    BY <1>5 DEF Acked, Restatus
  <2>. QED
    BY <2>2, <2>3, <2>4 DEF ExecutedIsApplied
<1>6. ASSUME NEW e \in DOMAIN rows, Expired(e)
      PROVE  ExecutedIsApplied'
  <2>1. row' = row /\ marking' = marking /\ Without(e)
    BY <1>6 DEF Expired
  <2>2. \A j \in DOMAIN rows' : Old(e, j) \in DOMAIN rows /\ rows'[j] = rows[Old(e, j)]
    BY <1>0, <2>1, ExpiredRows
  <2>. QED
    BY <1>0, <2>1, <2>2 DEF ExecutedIsApplied
<1>. QED
  BY <1>0, <1>1, <1>2, <1>3, <1>4, <1>5, <1>6, FaultFreeStep DEF Aside

\* Every other row stays when one has gone.
LEMMA OthersStay ==
  ASSUME TypeInv, NEW e \in DOMAIN rows, Without(e), NEW i \in DOMAIN rows, i # e
  PROVE  \E j \in DOMAIN rows' : rows'[j] = rows[i]
<1>1. /\ Len(rows) \in Nat /\ DOMAIN rows = 1 .. Len(rows)
      /\ DOMAIN rows' = 1 .. Len(rows) - 1
      /\ \A j \in DOMAIN rows' : rows'[j] = rows[IF j < e THEN j ELSE j + 1]
  BY Fields DEF Without
<1>2. CASE i < e
  <2>1. i \in DOMAIN rows'
    BY <1>1, <1>2
  <2>. QED
    BY <1>1, <1>2, <2>1
<1>3. CASE e < i
  <2>1. i - 1 \in DOMAIN rows' /\ ~(i - 1 < e) /\ (i - 1) + 1 = i
    BY <1>1, <1>3
  <2>2. rows'[i - 1] = rows[(i - 1) + 1]
    BY <1>1, <2>1
  <2>. QED
    BY <2>1, <2>2
<1>. QED
  BY <1>1, <1>2, <1>3

\* The row of a pending version goes only with the ack that applies it.
LEMMA PendingIsSentStep ==
  ASSUME Managed, faults' = 0, PendingInv, [Next]_vars
  PROVE  PendingIsSent'
<1>0. /\ TypeInv /\ Steady /\ Issued /\ NothingLost /\ OnLoop
      /\ ExecutedIsApplied /\ PendingIsSent
  BY DEF PendingInv, VersionInv
<1>f. /\ row.cv \in Nat /\ row.av \in Nat /\ marking \in Nat
      /\ \A i \in DOMAIN rows : rows[i].ver \in Nat /\ rows[i].id \in Id
  BY <1>0, Fields
<1> DEFINE Sent == InQueue("update", row.cv, {"queued", "delivered"})
<1>1. CASE Saved \/ Bumped
  BY <1>1 DEF PendingIsSent, Saved, Bumped
<1>2. CASE \/ Edited \/ Listed \/ Heard \/ Stutters
           \/ \E e \in DOMAIN rows : Handles(e)
  <2>1. UNCHANGED <<row, rows, marking>>
    BY <1>2 DEF Edited, Listed, Heard, Stutters, Handles
  <2>2. /\ tel.pc \in {"drifted", "ensure"} => tel'.pc \in {"drifted", "ensure"}
        /\ admin.pc = "ensure" => admin'.pc = "ensure"
    BY <1>2 DEF Edited, Listed, Heard, Stutters, Handles
  <2>. QED
    BY <1>0, <2>1, <2>2 DEF PendingIsSent, InQueue
<1>3. CASE Applies
  <2>1. UNCHANGED <<rows, tel, admin>> /\ row'.cv = row.cv
    BY <1>3 DEF Applies
  <2>2. row.cv > row'.av => row.cv > row.av /\ marking # row.cv
    BY <1>f, <1>3 DEF Applies
  <2>. QED
    BY <1>0, <2>1, <2>2 DEF PendingIsSent, InQueue
<1>4. CASE Pushed
  <2>1. row'.cv = row.cv /\ row'.av = row.av /\ UNCHANGED marking
    BY <1>4 DEF Pushed, Ensured
  <2>2. CASE NeedsUpdate /\ Appended("update", row.cv, tenant)
    <3>1. /\ Len(rows) + 1 \in DOMAIN rows'
          /\ rows'[Len(rows) + 1].kind = "update" /\ rows'[Len(rows) + 1].ver = row.cv
          /\ rows'[Len(rows) + 1].status = "queued"
      BY <1>0, <1>f, <2>2, AppendedRows, Fields DEF Appended
    <3>. QED
      BY <2>1, <3>1 DEF PendingIsSent, InQueue
  <2>3. CASE ~NeedsUpdate /\ UNCHANGED <<rows, row>>
    <3>1. SUFFICES ASSUME row.cv > row.av
                   PROVE  Sent \/ marking = row.cv
      BY <2>1, <2>3 DEF PendingIsSent, InQueue
    <3>2. PICK i \in DOMAIN rows :
            /\ rows[i].kind = "update" /\ rows[i].ver = row.cv
            /\ rows[i].status \in {"queued", "delivered", "executed"}
      BY <2>3, <3>1 DEF NeedsUpdate, InQueue
    <3>3. CASE rows[i].status = "executed"
      <4>1. rows[i].ver <= row.av \/ rows[i].ver = marking
        BY <1>0, <3>3 DEF ExecutedIsApplied
      <4>. QED
        BY <1>f, <3>1, <3>2, <4>1
    <3>4. CASE rows[i].status # "executed"
      BY <3>2, <3>4 DEF InQueue
    <3>. QED
      BY <3>3, <3>4
  <2>. QED
    BY <1>4, <2>2, <2>3 DEF Pushed, Ensured
<1>5. CASE Received
  <2>1. PICK d \in Nat : Delivery(d)
    BY <1>5 DEF Received
  <2>2. UNCHANGED <<row, marking, tel, admin>>
    BY <1>5 DEF Received
  <2>3. Sent => Sent'
    BY <2>1, <2>2 DEF Delivery, Restatus, InQueue
  <2>. QED
    BY <1>0, <2>2, <2>3 DEF PendingIsSent
<1>6. ASSUME NEW e \in DOMAIN rows, NEW success \in BOOLEAN, Acked(e, success)
      PROVE  PendingIsSent'
  <2>1. success
    BY <1>0, <1>f, <1>6 DEF Acked, NothingLost
  <2>2. /\ marking = 0 /\ marking' = rows[e].ver
        /\ UNCHANGED <<row, tel, admin>>
    BY <1>6, <2>1 DEF Acked
  <2>3. ASSUME Sent
        PROVE  Sent' \/ marking' = row.cv
    <3>1. PICK i \in DOMAIN rows :
            /\ rows[i].kind = "update" /\ rows[i].ver = row.cv
            /\ rows[i].status \in {"queued", "delivered"}
      BY <2>3 DEF InQueue
    <3>2. CASE rows[i].id = rows[e].id
      BY <1>0, <2>2, <3>1, <3>2 DEF TypeInv, DistinctIds
    <3>3. CASE rows[i].id # rows[e].id
      <4>1. /\ i \in DOMAIN rows' /\ rows'[i].kind = "update" /\ rows'[i].ver = row.cv
            /\ rows'[i].status \in {"queued", "delivered"}
        BY <1>6, <3>1, <3>3 DEF Acked, Restatus
      <4>. QED
        BY <2>2, <4>1 DEF InQueue
    <3>. QED
      BY <3>2, <3>3
  <2>4. row.cv > row.av => marking # row.cv
    BY <1>f, <2>2
  <2>. QED
    BY <1>0, <2>2, <2>3, <2>4 DEF PendingIsSent
<1>7. ASSUME NEW e \in DOMAIN rows, Expired(e)
      PROVE  PendingIsSent'
  <2>1. UNCHANGED <<row, marking, tel, admin>> /\ Without(e)
    BY <1>7 DEF Expired
  <2>2. rows[e].status = "executed"
    <3>1. faults' # faults + 1
      BY TypesSplit, <1>0 DEF TypeInv, RestTypes
    <3>2. SUFFICES ASSUME rows[e].status = "delivered"
                   PROVE  InBacklog(rows[e].id) \/ Answered(rows[e].id)
      BY <1>7, <3>1 DEF Expired, InBacklog, Answered
    <3>. QED
      BY <1>0, <3>2 DEF NothingLost, DeliveredIds
  <2>3. ASSUME Sent
        PROVE  Sent'
    <3>1. PICK i \in DOMAIN rows :
            /\ rows[i].kind = "update" /\ rows[i].ver = row.cv
            /\ rows[i].status \in {"queued", "delivered"}
      BY <2>3 DEF InQueue
    <3>2. PICK j \in DOMAIN rows' : rows'[j] = rows[i]
      BY <1>0, <2>1, <2>2, <3>1, OthersStay
    <3>. QED
      BY <2>1, <3>1, <3>2 DEF InQueue
  <2>. QED
    BY <1>0, <2>1, <2>3 DEF PendingIsSent
<1>. QED
  BY <1>0, <1>1, <1>2, <1>3, <1>4, <1>5, <1>6, <1>7, FaultFreeStep DEF Aside

\* A version that a managed spoke has not applied is on its way to it whenever
\* no handler is about to change that, if tenants are edited on the event loop
\* only, until a command, an ack or a step is lost or a command outlives its
\* day in the queue of a spoke that stays away: until then the drift check may
\* leave a spoke with a pending version alone.
THEOREM PendingIsInFlightCorrect ==
  ASSUME Managed, Paths \subseteq {"superadmin"}
  PROVE  Spec => []PendingIsInFlight
<1> DEFINE Inv == VersionInv /\ (faults = 0 => PendingInv)
<1>1. Init => Inv
  <2> SUFFICES ASSUME Init
               PROVE  VersionInv /\ PendingInv
    OBVIOUS
  <2>1. /\ rows = <<>> /\ DOMAIN rows = {} /\ marking = 0
        /\ backlog = <<>> /\ answers = {}
        /\ row.cv = 0 /\ row.av = 0
        /\ admin.pc = "idle" /\ admin.path = "superadmin"
    BY EmptySeq DEF Init, Approved, NoEdit
  <2>2. NothingLost /\ OnLoop /\ ExecutedIsApplied /\ PendingIsSent
    BY <2>1 DEF NothingLost, DeliveredIds, OnLoop, ExecutedIsApplied, PendingIsSent
  <2>. QED
    BY <2>2, VersionInit DEF PendingInv
<1>2. Inv /\ [Next]_vars => Inv'
  <2> SUFFICES ASSUME VersionInv, faults = 0 => PendingInv, [Next]_vars
               PROVE  VersionInv' /\ (faults' = 0 => PendingInv')
    OBVIOUS
  <2>1. VersionInv'
    BY VersionStep
  <2>2. ASSUME faults' = 0
        PROVE  PendingInv'
    <3>1. faults = 0
      <4>1. faults \in Nat
        BY TypesSplit DEF VersionInv, TypeInv, RestTypes
      <4>. QED
        BY <2>2, <4>1, FaultsCounted
    <3>2. PendingInv
      BY <3>1
    <3>3. NothingLost' /\ OnLoop' /\ ExecutedIsApplied' /\ PendingIsSent'
      BY <2>2, <3>2, NothingLostStep, OnLoopStep, ExecutedIsAppliedStep, PendingIsSentStep
    <3>. QED
      BY <2>1, <3>3 DEF PendingInv
  <2>. QED
    BY <2>1, <2>2
<1>3. Inv => PendingIsInFlight
  <2> SUFFICES ASSUME PendingInv, Quiet, row.cv > row.av
               PROVE  InQueue("update", row.cv, {"queued", "delivered"})
    BY DEF PendingIsInFlight
  <2>1. row.cv \in Nat /\ row.av \in Nat
    BY Fields DEF PendingInv, VersionInv
  <2>2. marking # row.cv
    BY <2>1 DEF Quiet
  <2>. QED
    BY <2>2 DEF PendingInv, PendingIsSent, Quiet
<1> HIDE DEF Inv
<1>. QED
  BY <1>1, <1>2, <1>3, PTL DEF Spec

=============================================================================
