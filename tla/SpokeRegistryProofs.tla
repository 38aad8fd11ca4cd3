------------------------- MODULE SpokeRegistryProofs -------------------------
(***************************************************************************)
(* Theorems about the registry of spokes, for any set of spokes, ids,      *)
(* tenants and names and any number of approvals, heartbeats and crashes:  *)
(* the names of a tenant that were looked up are distinct, a spoke has one *)
(* record, and one tenant.                                                 *)
(***************************************************************************)
EXTENDS SpokeRegistry, TLAPS

-----------------------------------------------------------------------------
(* The inductive invariant.                                                *)

\* The name is in use in the tenant by a spoke with id i, and was looked up.
Claim(t, name, i) ==
  \/ /\ IsApproved(<<t, i>>) /\ row[<<t, i>>].checked
     /\ row[<<t, i>>].name = name
  \/ pending[i] # Absent /\ pending[i].hint = t /\ pending[i].name = name

\* The spoke h may use the name.
Free(t, name, h) == \A i \in Id : Claim(t, name, i) => host[i] = h

Distinct ==
  \A t \in Tenant, name \in Name, i, j \in Id :
    Claim(t, name, i) /\ Claim(t, name, j) => host[i] = host[j]

\* The ids a coroutine handles belong to one spoke.
OneHost ==
  /\ loop.pc \in {"rekey", "save"} => host[loop.asked] = host[loop.id]
  /\ loop.pc = "pend" /\ loop.found # NoId => host[loop.found] = host[loop.id]

\* No other spoke can take the name that a coroutine has read, or checked in
\* an earlier step and not saved yet.
StaysFree ==
  /\ loop.pc \in {"rekey", "save"} /\ loop.row.checked =>
       Free(loop.tenant, loop.row.name, host[loop.id])
  /\ loop.pc = "approve" => Free(loop.tenant, loop.name, host[loop.id])

\* An approval under way has been counted in.
Budget == loop.pc \in {"auto", "approve"} => approvals < MaxApproval

TypeInv == TypeOK /\ Budget

NamesInv == TypeInv /\ OneHost /\ StaysFree /\ Distinct

\* The records of the spoke h: at most the row of tenant t and id i, or the
\* pending registration with id i, or one of a kind.
RowsOnly(h, t, i) ==
  \A u \in Tenant, j \in Id : host[j] = h /\ IsApproved(<<u, j>>) => u = t /\ j = i
NoRows(h) == \A u \in Tenant, j \in Id : host[j] = h => ~IsApproved(<<u, j>>)
PendingOnly(h, i) == \A j \in Id : host[j] = h /\ pending[j] # Absent => j = i
NoPending(h) == \A j \in Id : host[j] = h => pending[j] = Absent
OneRow(h) ==
  \A t, u \in Tenant, i, j \in Id :
    /\ host[i] = h /\ IsApproved(<<t, i>>)
    /\ host[j] = h /\ IsApproved(<<u, j>>)
    => t = u /\ i = j
OnePending(h) ==
  \A i, j \in Id :
    host[i] = h /\ pending[i] # Absent /\ host[j] = h /\ pending[j] # Absent => i = j
Single(h) == OneRow(h) /\ OnePending(h) /\ (NoRows(h) \/ NoPending(h))

\* What a coroutine has found out about the records of its spoke, and what its
\* own steps have left of them.
Expected(h) ==
  /\ loop.pc \in {"rekey", "save"} => RowsOnly(h, loop.tenant, loop.id) /\ NoPending(h)
  /\ loop.pc = "auto" => NoRows(h)
  /\ loop.pc = "clean" => RowsOnly(h, loop.tenant, loop.id) /\ OnePending(h)
  /\ loop.pc = "pend" => NoRows(h)
  /\ loop.pc = "pend" /\ loop.found = NoId => NoPending(h)
  /\ loop.pc = "pend" /\ loop.found # NoId => PendingOnly(h, loop.found)
  /\ loop.pc = "approve" => NoRows(h) /\ PendingOnly(h, loop.id)
  /\ loop.pc = "unlink" => RowsOnly(h, loop.tenant, loop.id) /\ PendingOnly(h, loop.id)

Finishing(h) == loop.pc \in {"clean", "unlink"} /\ h = host[loop.id]

\* Nothing has come in between: no crash, and no heartbeat's copy.
Steady == crashes = 0 /\ ~overtaken

RecordsInv ==
  Steady =>
    /\ \A h \in Host : Single(h) \/ Finishing(h)
    /\ loop.pc # "idle" => Expected(host[loop.id])

IInv == NamesInv /\ RecordsInv

-----------------------------------------------------------------------------
(* Types.                                                                  *)

\* What a coroutine keeps is as its place says.
LEMMA LoopKinds ==
  ASSUME TypeOK
  PROVE  /\ loop.pc \in {"rekey", "save"} => loop \in Registering
         /\ loop.pc = "auto" => loop \in Joining
         /\ loop.pc = "pend" => loop \in Waiting
         /\ loop.pc = "approve" => loop \in Approving
         /\ loop.pc \in {"clean", "unlink"} => loop \in Ending
  BY DEF TypeOK, Idle, Registering, Joining, Waiting, Approving, Ending

\* A row that is found is an approved one of the spoke.
LEMMA FoundRow ==
  ASSUME TypeOK, NEW h \in Host, NEW asked \in Id \cup {NoId},
         asked # NoId => host[asked] = h, NEW at \in Found(asked, h)
  PROVE  /\ at \in Tenant \X Id /\ IsApproved(at) /\ row[at] \in Row
         /\ host[at[2]] = h
  BY RegistryAssumption DEF Found, ById, ByHost, IsApproved, TypeOK

\* If none is found the spoke has no approved row.
LEMMA NoneFound ==
  ASSUME NEW h \in Host, NEW asked \in Id \cup {NoId}, Found(asked, h) = {}
  PROVE  NoRows(h)
<1>1. ByHost(h) = {}
  BY DEF Found
<1>2. ASSUME NEW u \in Tenant, NEW j \in Id, host[j] = h, IsApproved(<<u, j>>)
      PROVE  FALSE
  <2>1. <<u, j>> \in ByHost(h)
    BY <1>2 DEF ByHost
  <2> QED
    BY <1>1, <2>1
<1> QED
  BY <1>2 DEF NoRows

\* A pending registration that is found is the spoke's.
LEMMA FoundWaiting ==
  ASSUME NEW h \in Host, NEW asked, NEW i \in FoundPending(asked, h)
  PROVE  i \in Id /\ pending[i] # Absent /\ host[i] = h
  BY DEF FoundPending, PendingOf

\* If none is found there is none.
LEMMA NoneWaiting ==
  ASSUME NEW h \in Host, NEW asked, FoundPending(asked, h) = {}
  PROVE  NoPending(h)
  BY DEF FoundPending, PendingOf, NoPending

\* The three outcomes of a registration's lookups.
Rekeys(h, asked, name, brings) ==
  \E at \in Found(asked, h) :
    loop' = [pc |-> "rekey", tenant |-> at[1], id |-> at[2],
             row |-> row[at], name |-> name, brings |-> brings,
             asked |-> IF asked = NoId THEN at[2] ELSE asked]

\* A spoke without a record is approved at once,
Joins(h, asked, name) ==
  /\ NoRows(h) /\ approvals < MaxApproval
  /\ \E t \in Tenant, i \in Id :
       /\ host[i] = h
       /\ loop' = [pc |-> "auto", tenant |-> t, id |-> i, name |-> name]

\* or waits under the id it asks for.
Waits(h, name) ==
  /\ NoRows(h)
  /\ \E i \in Id, found \in Id \cup {NoId}, hint \in Tenant \cup {NoTenant} :
       /\ host[i] = h
       /\ found = NoId => NoPending(h)
       /\ found # NoId => host[found] = h /\ pending[found] # Absent
       /\ loop' = [pc |-> "pend", found |-> found,
                   old |-> IF found = NoId THEN Absent ELSE pending[found],
                   name |-> name, hint |-> hint, id |-> i]

\* A registration comes to one of them.
LEMMA RegisterCases ==
  ASSUME TypeOK, NEW h \in Host, NEW asked \in Id \cup {NoId}, NEW name \in Name,
         NEW hint \in Tenant \cup {NoTenant}, NEW brings, NEW psk,
         Register(h, asked, name, hint, brings, psk)
  PROVE  \/ Rekeys(h, asked, name, brings)
         \/ Joins(h, asked, name)
         \/ Waits(h, name)
<1>1. CASE \E at \in Found(asked, h) : TRUE
  BY <1>1 DEF Register, Rekeys
<1>2. CASE Found(asked, h) = {}
  <2>1. NoRows(h)
    BY <1>2, NoneFound
  <2>2. \/ Joins(h, asked, name)
        \/ \E i \in FoundPending(asked, h) :
             loop' = [pc |-> "pend", found |-> i, old |-> pending[i],
                      name |-> name, hint |-> hint,
                      id |-> IF asked = NoId THEN i ELSE asked]
        \/ /\ FoundPending(asked, h) = {}
           /\ \E i \in Id :
                /\ host[i] = h
                /\ loop' = [pc |-> "pend", found |-> NoId, old |-> Absent,
                            id |-> i, name |-> name, hint |-> hint]
    BY <1>2, <2>1 DEF Register, Joins
  <2>3. ASSUME NEW i \in FoundPending(asked, h),
               loop' = [pc |-> "pend", found |-> i, old |-> pending[i],
                        name |-> name, hint |-> hint,
                        id |-> IF asked = NoId THEN i ELSE asked]
        PROVE  Waits(h, name)
    <3>1. i \in Id /\ pending[i] # Absent /\ host[i] = h
      BY FoundWaiting
    <3>2. PICK j \in Id : j = (IF asked = NoId THEN i ELSE asked) /\ host[j] = h
      BY <3>1 DEF Register
    <3> QED
      BY <2>1, <2>3, <3>1, <3>2, RegistryAssumption DEF Waits
  <2>4. CASE /\ FoundPending(asked, h) = {}
             /\ \E i \in Id :
                  /\ host[i] = h
                  /\ loop' = [pc |-> "pend", found |-> NoId, old |-> Absent,
                              id |-> i, name |-> name, hint |-> hint]
    <3>1. NoPending(h)
      BY <2>4, NoneWaiting
    <3> QED
      BY <2>1, <2>4, <3>1 DEF Waits
  <2> QED
    BY <2>2, <2>3, <2>4
<1> QED
  BY <1>1, <1>2

\* Registrations keep the types.
LEMMA RegisterType ==
  ASSUME TypeInv, NEW h \in Host, NEW asked \in Id \cup {NoId}, NEW name \in Name,
         NEW hint \in Tenant \cup {NoTenant}, NEW brings \in {"same", "news", "oldKey"}, NEW psk,
         Register(h, asked, name, hint, brings, psk)
  PROVE  TypeInv'
<1>1. UNCHANGED <<row, pending, beatVars, approvals, crashes>>
  BY DEF Register
<1>2. /\ loop' \in Registering \cup Joining \cup Waiting
      /\ loop'.pc \in {"auto", "approve"} => approvals < MaxApproval
  <2>1. ASSUME Rekeys(h, asked, name, brings)
        PROVE  loop' \in Registering /\ loop'.pc = "rekey"
    <3>1. asked # NoId => host[asked] = h
      BY DEF Register
    <3>2. PICK at \in Found(asked, h) :
            loop' = [pc |-> "rekey", tenant |-> at[1], id |-> at[2],
                     row |-> row[at], name |-> name, brings |-> brings,
                     asked |-> IF asked = NoId THEN at[2] ELSE asked]
      BY <2>1 DEF Rekeys
    <3>3. at \in Tenant \X Id /\ row[at] \in Row
      BY <3>1, FoundRow DEF TypeInv
    <3> QED
      BY <3>2, <3>3 DEF Registering
  <2>2. ASSUME Joins(h, asked, name)
        PROVE  loop' \in Joining /\ approvals < MaxApproval
    BY <2>2 DEF Joins, Joining
  <2>3. ASSUME Waits(h, name)
        PROVE  loop' \in Waiting /\ loop'.pc = "pend"
    BY <2>3 DEF Waits, Waiting, TypeInv, TypeOK, Budget, beatVars
  <2> QED
    BY <2>1, <2>2, <2>3, RegisterCases DEF TypeInv
<1> QED
  BY <1>1, <1>2 DEF TypeInv, TypeOK, Budget, beatVars

\* A rekeying does.
LEMMA RekeyType == ASSUME TypeInv, RekeySpoke PROVE TypeInv'
<1>1. loop \in Registering
  BY LoopKinds DEF RekeySpoke, TypeInv
<1>2. <<loop.tenant, loop.id>> \in Tenant \X Id /\ <<loop.tenant, loop.asked>> \in Tenant \X Id
  BY <1>1 DEF Registering
<1>3. loop' \in {Idle} \cup Registering /\ loop'.pc \in {"idle", "save"}
  <2>1. PICK moved : moved = [loop EXCEPT !.pc = "save", !.id = loop.asked]
    OBVIOUS
  <2>2. moved \in Registering
    BY <1>1, <2>1 DEF Registering
  <2>3. moved.pc = "save"
    BY <1>1, <2>1 DEF Registering
  <2>4. loop' \in {Idle, moved}
    BY <2>1 DEF RekeySpoke
  <2> QED
    BY <2>2, <2>3, <2>4 DEF Idle
<1>4. row' \in [Tenant \X Id -> Row \cup {Absent}]
  <2>1. PICK old \in Tenant \X Id, new \in Tenant \X Id :
          old = <<loop.tenant, loop.id>> /\ new = <<loop.tenant, loop.asked>>
    BY <1>2
  <2>2. row' = row \/ row' = [row EXCEPT ![new] = row[old], ![old] = Absent]
    BY <2>1 DEF RekeySpoke
  <2> QED
    BY <2>2 DEF TypeInv, TypeOK
<1> QED
  BY <1>3, <1>4 DEF RekeySpoke, TypeInv, TypeOK, Budget, beatVars

\* What a registration saves is the row it read, or the same under a name that
\* it has looked up.
Updated == IF loop.row.name = loop.name THEN loop.row
           ELSE [loop.row EXCEPT !.name = loop.name, !.checked = TRUE]

LEMMA UpdatedRow ==
  ASSUME loop \in Registering
  PROVE  /\ Updated \in Row /\ Updated.name = loop.name
         /\ loop.row.name = loop.name => Updated.checked = loop.row.checked
<1>1. loop.row \in Row /\ loop.name \in Name
  BY DEF Registering
<1>2. CASE loop.row.name = loop.name
  BY <1>1, <1>2 DEF Updated
<1>3. CASE loop.row.name # loop.name
  <2>1. Updated = [status |-> loop.row.status, name |-> loop.name, checked |-> TRUE]
    BY <1>1, <1>3 DEF Updated, Row
  <2> QED
    BY <1>1, <1>3, <2>1 DEF Row
<1> QED
  BY <1>2, <1>3

\* A row that is approved.
LEMMA ApprovedRowType ==
  ASSUME NEW name \in Name
  PROVE  ApprovedRow(name) \in Row /\ ApprovedRow(name).name = name
  BY DEF ApprovedRow, Row

\* So do the other steps of a registration,
LEMMA SaveType ==
  ASSUME TypeInv, SaveRegistered \/ AutoApprove \/ CleanPending
  PROVE  TypeInv'
<1>1. CASE SaveRegistered
  <2>1. loop \in Registering
    BY <1>1, LoopKinds DEF SaveRegistered, TypeInv
  <2>2. <<loop.tenant, loop.id>> \in Tenant \X Id /\ Updated \in Row
    BY <2>1, UpdatedRow DEF Registering
  <2>3. row' \in {row, [row EXCEPT ![<<loop.tenant, loop.id>>] = Updated]}
    BY <1>1 DEF SaveRegistered, Updated
  <2>4. row' \in [Tenant \X Id -> Row \cup {Absent}]
    BY <2>2, <2>3 DEF TypeInv, TypeOK
  <2> QED
    BY <1>1, <2>4 DEF SaveRegistered, Idle, TypeInv, TypeOK, Budget, beatVars
<1>2. CASE AutoApprove
  <2>1. loop \in Joining
    BY <1>2, LoopKinds DEF AutoApprove, TypeInv
  <2>2. /\ <<loop.tenant, loop.id>> \in Tenant \X Id
        /\ ApprovedRow(loop.name) \in Row
        /\ [pc |-> "clean", tenant |-> loop.tenant, id |-> loop.id] \in Ending
    BY <2>1, ApprovedRowType DEF Joining, Ending
  <2>3. row' \in [Tenant \X Id -> Row \cup {Absent}]
    BY <1>2, <2>2 DEF AutoApprove, TypeInv, TypeOK, Budget, beatVars
  <2>4. loop' \in {Idle} \cup Ending
    BY <1>2, <2>2 DEF AutoApprove
  <2>5. approvals' \in 0 .. MaxApproval
    BY <1>2, RegistryAssumption DEF AutoApprove, TypeInv, TypeOK, Budget, beatVars
  <2>6. loop'.pc \in {"idle", "clean"}
    BY <1>2 DEF AutoApprove, Idle
  <2> QED
    BY <1>2, <2>3, <2>4, <2>5, <2>6 DEF AutoApprove, TypeInv, TypeOK, Budget, beatVars
<1>3. CASE CleanPending
  BY <1>3 DEF CleanPending, Idle, TypeInv, TypeOK, Budget, beatVars
<1> QED
  BY <1>1, <1>2, <1>3

\* and of the pending ones: the record that is written and the one that moves
\* are well typed.
LEMMA PendType == ASSUME TypeInv, SavePending PROVE TypeInv'
<1>1. loop \in Waiting
  BY LoopKinds DEF SavePending, TypeInv
<1>2. \A m \in [Id -> Pending \cup {Absent}] :
        \A i \in Id : \A x \in Pending \cup {Absent} :
          [m EXCEPT ![i] = x] \in [Id -> Pending \cup {Absent}]
  OBVIOUS
<1>3. loop.found \in Id => [pending EXCEPT ![loop.id] = pending[loop.found],
                                           ![loop.found] = Absent]
                              \in [Id -> Pending \cup {Absent}]
  BY <1>1 DEF TypeInv, TypeOK, Waiting
<1>4. ASSUME NEW hint, hint = IF loop.hint # NoTenant \/ loop.old = Absent THEN loop.hint
                              ELSE loop.old.hint
      PROVE  [name |-> loop.name, hint |-> hint] \in Pending
  BY <1>1, <1>4 DEF Waiting, Pending
<1>5. PICK hint :
        hint = IF loop.hint # NoTenant \/ loop.old = Absent THEN loop.hint ELSE loop.old.hint
  OBVIOUS
<1>6. PICK moved \in [Id -> Pending \cup {Absent}] :
        moved = IF loop.found \in Id \ {loop.id} /\ pending[loop.found] # Absent
                THEN [pending EXCEPT ![loop.id] = pending[loop.found], ![loop.found] = Absent]
                ELSE pending
  BY <1>3 DEF TypeInv, TypeOK
<1>7. pending' \in {moved, [moved EXCEPT ![loop.id] = [name |-> loop.name, hint |-> hint]]}
  BY <1>5, <1>6 DEF SavePending
<1>8. pending' \in [Id -> Pending \cup {Absent}]
  BY <1>1, <1>2, <1>4, <1>5, <1>7 DEF Waiting
<1> QED
  BY <1>8 DEF SavePending, Idle, TypeInv, TypeOK, Budget, beatVars

\* and the steps of an approval.
LEMMA ApproveType ==
  ASSUME TypeInv,
         \/ \E i \in Id, t \in Tenant : Approve(i, t)
         \/ SaveApproved \/ DeleteApproved
  PROVE  TypeInv'
<1>1. ASSUME NEW i \in Id, NEW t \in Tenant, Approve(i, t) PROVE TypeInv'
  <2>1. pending[i].name \in Name
    BY <1>1 DEF Approve, TypeInv, TypeOK, Pending
  <2>2. loop' \in Approving
    BY <1>1, <2>1 DEF Approve, Approving
  <2> QED
    BY <1>1, <2>2 DEF Approve, TypeInv, TypeOK, Budget, beatVars
<1>2. CASE SaveApproved
  <2>1. loop \in Approving
    BY <1>2, LoopKinds DEF SaveApproved, TypeInv
  <2>2. /\ <<loop.tenant, loop.id>> \in Tenant \X Id
        /\ ApprovedRow(loop.name) \in Row
        /\ [pc |-> "unlink", tenant |-> loop.tenant, id |-> loop.id] \in Ending
    BY <2>1, ApprovedRowType DEF Approving, Ending
  <2>3. row' \in [Tenant \X Id -> Row \cup {Absent}]
    BY <1>2, <2>2 DEF SaveApproved, TypeInv, TypeOK
  <2>4. loop' \in Ending /\ loop'.pc = "unlink"
    BY <1>2, <2>2 DEF SaveApproved
  <2>5. approvals' \in 0 .. MaxApproval
    BY <1>2, RegistryAssumption DEF SaveApproved, TypeInv, TypeOK, Budget, beatVars
  <2> QED
    BY <1>2, <2>3, <2>4, <2>5 DEF SaveApproved, TypeInv, TypeOK, Budget, beatVars
<1>3. CASE DeleteApproved
  BY <1>3 DEF DeleteApproved, Idle, TypeInv, TypeOK, Budget, beatVars
<1> QED
  BY <1>1, <1>2, <1>3

\* So do the threads,
LEMMA ThreadType ==
  ASSUME TypeInv,
         \/ \E i \in Id : RejectPending(i)
         \/ \E at \in Tenant \X Id : RevokeSpoke(at) \/ DeleteSpoke(at)
  PROVE  TypeInv'
<1>1. ASSUME NEW i \in Id, RejectPending(i) PROVE TypeInv'
  BY <1>1 DEF RejectPending, TypeInv, TypeOK, Budget, beatVars
<1>2. ASSUME NEW at \in Tenant \X Id, RevokeSpoke(at) PROVE TypeInv'
  <2>1. row[at] \in Row
    BY <1>2 DEF RevokeSpoke, IsApproved, TypeInv, TypeOK
  <2>2. [row[at] EXCEPT !.status = "revoked"] \in Row
    BY <2>1 DEF Row
  <2>3. row' \in [Tenant \X Id -> Row \cup {Absent}]
    BY <1>2, <2>2 DEF RevokeSpoke, TypeInv, TypeOK
  <2> QED
    BY <1>2, <2>3 DEF RevokeSpoke, TypeInv, TypeOK, Budget, beatVars
<1>3. ASSUME NEW at \in Tenant \X Id, DeleteSpoke(at) PROVE TypeInv'
  BY <1>3 DEF DeleteSpoke, TypeInv, TypeOK, Budget, beatVars
<1> QED
  BY <1>1, <1>2, <1>3

\* the heartbeats and a crash.
LEMMA BeatType ==
  ASSUME TypeInv,
         \/ \E at \in Tenant \X Id : BeginHeartbeat(at)
         \/ \E name \in Name : SaveHeartbeat(name)
         \/ EndHeartbeat \/ Crash
  PROVE  TypeInv'
<1>1. ASSUME NEW at \in Tenant \X Id, BeginHeartbeat(at) PROVE TypeInv'
  BY <1>1 DEF BeginHeartbeat, TypeInv, TypeOK, Budget, beatVars
<1>2. ASSUME NEW name \in Name, SaveHeartbeat(name) PROVE TypeInv'
  <2>1. [status |-> "approved", name |-> name, checked |-> FALSE] \in Row
    BY DEF Row
  <2>2. row' \in [Tenant \X Id -> Row \cup {Absent}]
    BY <1>2, <2>1 DEF SaveHeartbeat, TypeInv, TypeOK
  <2>3. beats' \in Nat /\ crashes' \in Nat /\ beats' + crashes' <= MaxTrouble
    BY <1>2, RegistryAssumption DEF SaveHeartbeat, TypeInv, TypeOK
  <2>4. beat' \in (Tenant \X Id) \cup {Absent} /\ overtaken' \in BOOLEAN
    BY <1>2 DEF SaveHeartbeat, TypeInv, TypeOK
  <2>5. UNCHANGED <<pending, loop, approvals>>
    BY <1>2 DEF SaveHeartbeat
  <2> QED
    BY <2>2, <2>3, <2>4, <2>5 DEF TypeInv, TypeOK, Budget, beatVars
<1>3. CASE EndHeartbeat
  BY <1>3 DEF EndHeartbeat, TypeInv, TypeOK, Budget, beatVars
<1>4. CASE Crash
  <2>1. beats' \in Nat /\ crashes' \in Nat /\ beats' + crashes' <= MaxTrouble
    BY <1>4, RegistryAssumption DEF Crash, TypeInv, TypeOK
  <2> QED
    BY <1>4, <2>1 DEF Crash, Idle, TypeInv, TypeOK, Budget, beatVars
<1> QED
  BY <1>1, <1>2, <1>3, <1>4

\* Every step keeps the types.
LEMMA NextType == ASSUME TypeInv, [Next]_vars PROVE TypeInv'
<1>1. CASE UNCHANGED vars
  BY <1>1 DEF vars, TypeInv, TypeOK, Budget, beatVars
<1>2. ASSUME Next PROVE TypeInv'
  BY <1>2, RegisterType, RekeyType, SaveType, PendType, ApproveType, ThreadType, BeatType
     DEF Next
<1> QED
  BY <1>1, <1>2

\* The initial state has the types.
LEMMA InitType == Init => TypeInv
<1> SUFFICES ASSUME Init PROVE TypeInv
  OBVIOUS
<1>1. /\ approvals \in 0 .. MaxApproval
      /\ beats \in Nat /\ crashes \in Nat /\ beats + crashes <= MaxTrouble
  BY RegistryAssumption DEF Init
<1>2. row \in [Tenant \X Id -> Row \cup {Absent}] /\ pending \in [Id -> Pending \cup {Absent}]
  BY DEF Init
<1> QED
  BY <1>1, <1>2 DEF Init, TypeInv, TypeOK, Budget, Idle

\* Every state of the registry has the types declared for it.
THEOREM TypeCorrect == Spec => []TypeOK
<1>1. TypeInv => TypeOK
  BY DEF TypeInv
<1> QED
  BY InitType, NextType, <1>1, PTL DEF Spec

-----------------------------------------------------------------------------
(* Names.                                                                  *)

\* Every name in use was in use by the same spoke before.
Kept ==
  \A t \in Tenant, name \in Name, i \in Id :
    Claim(t, name, i)' => \E j \in Id : Claim(t, name, j) /\ host[j] = host[i]

\* No approved row and no pending registration is added, and none gets a name
\* that is looked up.
Shrinks ==
  /\ \A t \in Tenant, i \in Id :
       IsApproved(<<t, i>>)' =>
         /\ IsApproved(<<t, i>>)
         /\ row'[<<t, i>>].checked => row'[<<t, i>>] = row[<<t, i>>]
  /\ \A i \in Id : pending'[i] # Absent => pending'[i] = pending[i]

\* If nothing is added the names in use are kept.
LEMMA ShrinksKept == Shrinks => Kept
<1> SUFFICES ASSUME Shrinks, NEW t \in Tenant, NEW name \in Name, NEW i \in Id,
                    Claim(t, name, i)'
             PROVE  Claim(t, name, i)
  BY DEF Kept
<1> QED
  BY DEF Shrinks, Claim, IsApproved

\* Two spokes do not get a name that was free or another's.
LEMMA KeptNames ==
  ASSUME Kept
  PROVE  /\ Distinct => Distinct'
         /\ \A t \in Tenant, name \in Name : \A h : Free(t, name, h) => Free(t, name, h)'
<1>1. ASSUME Distinct PROVE Distinct'
  <2> SUFFICES ASSUME NEW t \in Tenant, NEW name \in Name, NEW i \in Id, NEW j \in Id,
                      Claim(t, name, i)', Claim(t, name, j)'
               PROVE  host[i] = host[j]
    BY DEF Distinct
  <2>1. PICK k \in Id : Claim(t, name, k) /\ host[k] = host[i]
    BY DEF Kept
  <2>2. PICK l \in Id : Claim(t, name, l) /\ host[l] = host[j]
    BY DEF Kept
  <2> QED
    BY <1>1, <2>1, <2>2 DEF Distinct
<1>2. ASSUME NEW t \in Tenant, NEW name \in Name, NEW h, Free(t, name, h),
             NEW i \in Id, Claim(t, name, i)'
      PROVE  host[i] = h
  BY <1>2 DEF Kept, Free
<1> QED
  BY <1>1, <1>2 DEF Free

\* A spoke may take a name that is free for it.
LEMMA TakesFree ==
  ASSUME Distinct, NEW t \in Tenant, NEW name \in Name, NEW h, Free(t, name, h),
         \A u \in Tenant, other \in Name, i \in Id :
           Claim(u, other, i)' =>
             \/ \E j \in Id : Claim(u, other, j) /\ host[j] = host[i]
             \/ u = t /\ other = name /\ host[i] = h
  PROVE  Distinct'
<1> SUFFICES ASSUME NEW u \in Tenant, NEW other \in Name, NEW i \in Id, NEW j \in Id,
                    Claim(u, other, i)', Claim(u, other, j)'
             PROVE  host[i] = host[j]
  BY DEF Distinct
<1>1. \/ \E k \in Id : Claim(u, other, k) /\ host[k] = host[i]
      \/ u = t /\ other = name /\ host[i] = h
  OBVIOUS
<1>2. \/ \E k \in Id : Claim(u, other, k) /\ host[k] = host[j]
      \/ u = t /\ other = name /\ host[j] = h
  OBVIOUS
<1> QED
  BY <1>1, <1>2 DEF Distinct, Free

\* The lookup that the code makes.
LEMMA NotTaken ==
  ASSUME NEW t, NEW name, NEW h, ~NameTaken(t, name, h)
  PROVE  Free(t, name, h)
  BY DEF NameTaken, Free, Claim

\* A coroutine that goes on in another place, while no name is taken.
LEMMA KeptElsewhere ==
  ASSUME NamesInv, TypeInv', Kept,
         loop' = loop \/ loop'.pc \notin {"rekey", "save", "pend", "approve"}
  PROVE  NamesInv'
<1>1. Kept
  OBVIOUS
<1>2. Distinct'
  BY <1>1, KeptNames DEF NamesInv
<1>3. CASE loop'.pc \notin {"rekey", "save", "pend", "approve"}
  BY <1>2, <1>3 DEF NamesInv, OneHost, StaysFree
<1>4. CASE loop' = loop
  <2>1. loop.pc \in {"rekey", "save"} /\ loop.row.checked =>
          Free(loop.tenant, loop.row.name, host[loop.id])'
    <3> SUFFICES ASSUME loop.pc \in {"rekey", "save"}, loop.row.checked
                 PROVE  Free(loop.tenant, loop.row.name, host[loop.id])'
      OBVIOUS
    <3>1. loop \in Registering
      BY LoopKinds DEF NamesInv, TypeInv
    <3>2. PICK t \in Tenant, name \in Name, h \in {host[loop.id]} :
            t = loop.tenant /\ name = loop.row.name /\ h = host[loop.id]
      BY <3>1 DEF Registering, Row
    <3>3. Free(t, name, h)
      BY <3>2 DEF NamesInv, StaysFree
    <3>4. Free(t, name, h)'
      BY <1>1, <3>3, KeptNames
    <3> QED
      BY <1>4, <3>2, <3>4
  <2>2. loop.pc = "approve" => Free(loop.tenant, loop.name, host[loop.id])'
    <3> SUFFICES ASSUME loop.pc = "approve"
                 PROVE  Free(loop.tenant, loop.name, host[loop.id])'
      OBVIOUS
    <3>1. loop \in Approving
      BY LoopKinds DEF NamesInv, TypeInv
    <3>2. PICK t \in Tenant, name \in Name, h \in {host[loop.id]} :
            t = loop.tenant /\ name = loop.name /\ h = host[loop.id]
      BY <3>1 DEF Approving
    <3>3. Free(t, name, h)
      BY <3>2 DEF NamesInv, StaysFree
    <3>4. Free(t, name, h)'
      BY <1>1, <3>3, KeptNames
    <3> QED
      BY <1>4, <3>2, <3>4
  <2> QED
    BY <1>2, <1>4, <2>1, <2>2 DEF NamesInv, OneHost, StaysFree
<1> QED
  BY <1>3, <1>4

\* In particular while nothing is added.
LEMMA Elsewhere ==
  ASSUME NamesInv, TypeInv', Shrinks,
         loop' = loop \/ loop'.pc \notin {"rekey", "save", "pend", "approve"}
  PROVE  NamesInv'
  BY ShrinksKept, KeptElsewhere

\* The steps that add nothing.
LEMMA Shrinking ==
  ASSUME TypeInv,
         \/ UNCHANGED <<row, pending>>
         \/ \E name \in Name : SaveHeartbeat(name) /\ IsApproved(beat)
         \/ CleanPending \/ DeleteApproved
         \/ \E i \in Id : RejectPending(i)
         \/ \E at \in Tenant \X Id : RevokeSpoke(at) \/ DeleteSpoke(at)
  PROVE  Shrinks
<1>1. CASE UNCHANGED <<row, pending>>
  BY <1>1 DEF Shrinks, IsApproved
<1>2. ASSUME UNCHANGED row, NEW gone \in SUBSET Id,
             pending' = [i \in Id |-> IF i \in gone THEN Absent ELSE pending[i]]
      PROVE  Shrinks
  BY <1>2 DEF Shrinks, IsApproved
<1>3. CASE CleanPending
  <2>1. loop.id \in Id
    BY <1>3, LoopKinds DEF CleanPending, Ending, TypeInv
  <2>2. PICK stale \in Id : pending' = [pending EXCEPT ![stale] = Absent, ![loop.id] = Absent]
    BY <1>3, <2>1 DEF CleanPending, PendingOf
  <2>3. PICK gone \in SUBSET Id : gone = {stale, loop.id}
    BY <2>1
  <2>4. pending' = [i \in Id |-> IF i \in gone THEN Absent ELSE pending[i]]
    BY <2>1, <2>2, <2>3 DEF TypeInv, TypeOK
  <2> QED
    BY <1>2, <1>3, <2>4 DEF CleanPending
<1>4. CASE DeleteApproved
  <2>1. pending' = [i \in Id |-> IF i \in {loop.id} \cap Id THEN Absent ELSE pending[i]]
    BY <1>4 DEF DeleteApproved, TypeInv, TypeOK
  <2> QED
    BY <1>2, <1>4, <2>1 DEF DeleteApproved
<1>5. ASSUME NEW i \in Id, RejectPending(i) PROVE Shrinks
  <2>1. pending' = [j \in Id |-> IF j \in {i} THEN Absent ELSE pending[j]]
    BY <1>5 DEF RejectPending, TypeInv, TypeOK
  <2> QED
    BY <1>2, <1>5, <2>1 DEF RejectPending
<1>6. ASSUME NEW at \in Tenant \X Id, RevokeSpoke(at) PROVE Shrinks
  <2>1. row[at] \in Row
    BY <1>6 DEF RevokeSpoke, IsApproved, TypeInv, TypeOK
  <2>2. PICK x : x = [row[at] EXCEPT !.status = "revoked"]
    OBVIOUS
  <2>a. x.status = "revoked"
    BY <2>1, <2>2 DEF Row
  <2>3. row' = [row EXCEPT ![at] = x]
    BY <1>6, <2>2 DEF RevokeSpoke
  <2>4. \A t \in Tenant, i \in Id :
          <<t, i>> # at => row'[<<t, i>>] = row[<<t, i>>]
    BY <2>3 DEF TypeInv, TypeOK
  <2>5. row'[at].status = "revoked"
    BY <2>a, <2>3 DEF TypeInv, TypeOK
  <2> QED
    BY <1>6, <2>4, <2>5 DEF RevokeSpoke, Shrinks, IsApproved
<1>7. ASSUME NEW at \in Tenant \X Id, DeleteSpoke(at) PROVE Shrinks
  <2>1. row' = [row EXCEPT ![at] = Absent]
    BY <1>7 DEF DeleteSpoke
  <2>2. \A t \in Tenant, i \in Id :
          row'[<<t, i>>] = IF <<t, i>> = at THEN Absent ELSE row[<<t, i>>]
    BY <2>1 DEF TypeInv, TypeOK
  <2> QED
    BY <1>7, <2>2 DEF DeleteSpoke, Shrinks, IsApproved
<1>8. ASSUME NEW name \in Name, SaveHeartbeat(name), IsApproved(beat) PROVE Shrinks
  <2>0. PICK x : x = [status |-> "approved", name |-> name, checked |-> FALSE]
    OBVIOUS
  <2>1. row' = [row EXCEPT ![beat] = x] /\ pending' = pending /\ x.checked = FALSE
    BY <1>8, <2>0 DEF SaveHeartbeat
  <2>2. \A at \in Tenant \X Id : row'[at] = IF at = beat THEN x ELSE row[at]
    BY <2>1 DEF TypeInv, TypeOK
  <2>3. ASSUME NEW t \in Tenant, NEW i \in Id, IsApproved(<<t, i>>)'
        PROVE  /\ IsApproved(<<t, i>>)
               /\ row'[<<t, i>>].checked => row'[<<t, i>>] = row[<<t, i>>]
    <3>1. CASE <<t, i>> = beat
      BY <1>8, <2>1, <2>2, <3>1
    <3>2. CASE <<t, i>> # beat
      <4>1. row'[<<t, i>>] = row[<<t, i>>]
        BY <2>2, <3>2
      <4> QED
        BY <2>3, <4>1 DEF IsApproved
    <3> QED
      BY <3>1, <3>2
  <2> QED
    BY <2>1, <2>3 DEF Shrinks
<1> QED
  BY <1>1, <1>3, <1>4, <1>5, <1>6, <1>7, <1>8

\* A heartbeat takes no name, wherever its copy goes.
LEMMA HeartbeatKept ==
  ASSUME TypeInv, NEW name \in Name, SaveHeartbeat(name)
  PROVE  Kept
<1>0. PICK x : x = [status |-> "approved", name |-> name, checked |-> FALSE]
  OBVIOUS
<1>1. row' = [row EXCEPT ![beat] = x] /\ pending' = pending /\ x.checked = FALSE
  BY <1>0 DEF SaveHeartbeat
<1>2. \A at \in Tenant \X Id : row'[at] = IF at = beat THEN x ELSE row[at]
  BY <1>1 DEF TypeInv, TypeOK
<1> SUFFICES ASSUME NEW t \in Tenant, NEW other \in Name, NEW i \in Id, Claim(t, other, i)'
             PROVE  Claim(t, other, i)
  BY DEF Kept
<1>3. CASE <<t, i>> = beat
  BY <1>1, <1>2, <1>3 DEF Claim
<1>4. CASE <<t, i>> # beat
  BY <1>1, <1>2, <1>4 DEF Claim, IsApproved
<1> QED
  BY <1>3, <1>4

\* The name of an approved row that was looked up is in use by its spoke alone.
LEMMA RowHolds ==
  ASSUME TypeOK, Distinct, NEW t \in Tenant, NEW i \in Id, IsApproved(<<t, i>>),
         row[<<t, i>>].checked
  PROVE  row[<<t, i>>].name \in Name /\ Free(t, row[<<t, i>>].name, host[i])
<1>1. PICK name \in Name : name = row[<<t, i>>].name
  BY DEF TypeOK, IsApproved, Row
<1>2. Claim(t, name, i)
  BY <1>1 DEF Claim
<1> QED
  BY <1>1, <1>2 DEF Distinct, Free

\* A registration holds the name it finds.
LEMMA RegisterNames ==
  ASSUME NamesInv, NEW h \in Host, NEW asked \in Id \cup {NoId}, NEW name \in Name,
         NEW hint \in Tenant \cup {NoTenant}, NEW brings \in {"same", "news", "oldKey"}, NEW psk,
         Register(h, asked, name, hint, brings, psk)
  PROVE  NamesInv'
<1>a. TypeInv /\ TypeOK /\ Distinct
  BY DEF NamesInv, TypeInv
<1>b. TypeInv'
  BY <1>a, RegisterType
<1>1. UNCHANGED <<row, pending>> /\ (asked # NoId => host[asked] = h)
  BY DEF Register
<1>2. Shrinks
  BY <1>a, <1>1, Shrinking
<1>3. CASE Rekeys(h, asked, name, brings)
  <2>1. PICK at \in Found(asked, h) :
          loop' = [pc |-> "rekey", tenant |-> at[1], id |-> at[2],
                   row |-> row[at], name |-> name, brings |-> brings,
                   asked |-> IF asked = NoId THEN at[2] ELSE asked]
    BY <1>3 DEF Rekeys
  <2>2. at \in Tenant \X Id /\ IsApproved(at) /\ host[at[2]] = h
    BY <1>a, <1>1, FoundRow
  <2>3. PICK t \in Tenant, i \in Id : at = <<t, i>> /\ at[1] = t /\ at[2] = i
    BY <2>2
  <2>4. row[at].checked => Free(t, row[at].name, h) /\ row[at].name \in Name
    BY <1>a, <2>2, <2>3, RowHolds
  <2>5. ASSUME row[at].checked PROVE Free(t, row[at].name, h)'
    <3>1. PICK n \in Name : n = row[at].name
      BY <2>4, <2>5
    <3>2. Free(t, n, h)'
      BY <1>2, <2>4, <2>5, <3>1, ShrinksKept, KeptNames
    <3> QED
      BY <1>1, <3>1, <3>2
  <2>6. /\ loop'.pc = "rekey" /\ loop'.tenant = t /\ loop'.id = i /\ loop'.row = row[at]
        /\ host[loop'.asked] = h
    BY <1>1, <2>1, <2>2, <2>3
  <2>7. StaysFree' /\ OneHost'
    BY <1>1, <2>2, <2>3, <2>5, <2>6 DEF StaysFree, OneHost
  <2> QED
    BY <1>a, <1>b, <1>2, <2>7, ShrinksKept, KeptNames DEF NamesInv
<1>4. CASE Joins(h, asked, name)
  <2>1. loop'.pc = "auto"
    BY <1>4 DEF Joins
  <2> QED
    BY <1>b, <1>2, <2>1, Elsewhere
<1>5. CASE Waits(h, name)
  <2>1. /\ loop'.pc = "pend"
        /\ loop'.found # NoId => host[loop'.found] = host[loop'.id]
    BY <1>5 DEF Waits
  <2> QED
    BY <1>a, <1>b, <1>2, <2>1, ShrinksKept, KeptNames DEF NamesInv, OneHost, StaysFree
<1> QED
  BY <1>a, <1>3, <1>4, <1>5, RegisterCases

\* What a rekeying does: it fails, or there is nothing to move, or the row
\* moves to the id that no row has.
LEMMA RekeyFacts ==
  ASSUME TypeInv, RekeySpoke
  PROVE  /\ loop \in Registering /\ UNCHANGED <<pending, beatVars, crashes>>
         /\ \/ loop' = Idle /\ UNCHANGED row
            \/ /\ loop' \in Registering /\ loop'.pc = "save"
               /\ loop'.tenant = loop.tenant /\ loop'.row = loop.row
               /\ loop'.id = loop.asked /\ loop'.asked = loop.asked
               /\ \/ UNCHANGED row /\ row[<<loop.tenant, loop.id>>] = Absent
                  \/ UNCHANGED row /\ loop.asked = loop.id
                  \/ \E old, new \in Tenant \X Id :
                       /\ old = <<loop.tenant, loop.id>> /\ new = <<loop.tenant, loop.asked>>
                       /\ old # new /\ row[new] = Absent
                       /\ row' = [row EXCEPT ![new] = row[old], ![old] = Absent]
<1>1. loop \in Registering
  BY LoopKinds DEF RekeySpoke, TypeInv
<1>2. PICK moved : moved = [loop EXCEPT !.pc = "save", !.id = loop.asked]
  OBVIOUS
<1>3. moved \in Registering
  BY <1>1, <1>2 DEF Registering
<1>4. /\ moved.pc = "save" /\ moved.tenant = loop.tenant /\ moved.row = loop.row
      /\ moved.id = loop.asked /\ moved.asked = loop.asked
  BY <1>1, <1>2 DEF Registering
<1>5. PICK old \in Tenant \X Id, new \in Tenant \X Id :
        old = <<loop.tenant, loop.id>> /\ new = <<loop.tenant, loop.asked>>
  BY <1>1 DEF Registering
<1>6. \/ loop' = Idle /\ UNCHANGED row
      \/ /\ loop' = moved
         /\ \/ UNCHANGED row /\ (row[old] = Absent \/ old = new)
            \/ /\ old # new /\ row[new] = Absent
               /\ row' = [row EXCEPT ![new] = row[old], ![old] = Absent]
  BY <1>2, <1>5 DEF RekeySpoke
<1>7. old = new => loop.asked = loop.id
  BY <1>5
<1>8. UNCHANGED <<pending, beatVars, crashes>>
  BY DEF RekeySpoke
<1>9. CASE loop' = Idle /\ UNCHANGED row
  BY <1>1, <1>8, <1>9
<1>10. CASE /\ loop' = moved
            /\ UNCHANGED row /\ (row[old] = Absent \/ old = new)
  BY <1>1, <1>3, <1>4, <1>5, <1>7, <1>8, <1>10
<1>11. CASE /\ loop' = moved
            /\ old # new /\ row[new] = Absent
            /\ row' = [row EXCEPT ![new] = row[old], ![old] = Absent]
  BY <1>1, <1>3, <1>4, <1>5, <1>8, <1>11
<1> QED
  BY <1>6, <1>9, <1>10, <1>11

\* The rows after a move.
LEMMA MovedRow ==
  ASSUME TypeOK, NEW old \in Tenant \X Id, NEW new \in Tenant \X Id, old # new,
         row' = [row EXCEPT ![new] = row[old], ![old] = Absent]
  PROVE  /\ row'[old] = Absent /\ row'[new] = row[old]
         /\ \A at \in Tenant \X Id : at # old /\ at # new => row'[at] = row[at]
  BY DEF TypeOK

\* The moved row keeps its name and its spoke.
LEMMA RekeyNames == ASSUME NamesInv, RekeySpoke PROVE NamesInv'
<1>a. TypeInv /\ TypeOK /\ Distinct
  BY DEF NamesInv, TypeInv
<1>b. TypeInv'
  BY <1>a, RekeyType
<1>1. /\ loop \in Registering /\ UNCHANGED <<pending, beatVars, crashes>>
      /\ \/ loop' = Idle /\ UNCHANGED row
         \/ /\ loop' \in Registering /\ loop'.pc = "save"
            /\ loop'.tenant = loop.tenant /\ loop'.row = loop.row
            /\ loop'.id = loop.asked /\ loop'.asked = loop.asked
            /\ \/ UNCHANGED row /\ row[<<loop.tenant, loop.id>>] = Absent
               \/ UNCHANGED row /\ loop.asked = loop.id
               \/ \E old, new \in Tenant \X Id :
                    /\ old = <<loop.tenant, loop.id>> /\ new = <<loop.tenant, loop.asked>>
                    /\ old # new /\ row[new] = Absent
                    /\ row' = [row EXCEPT ![new] = row[old], ![old] = Absent]
  BY <1>a, RekeyFacts
<1>2. Kept
  <2>1. CASE UNCHANGED row
    BY <1>a, <1>1, <2>1, Shrinking, ShrinksKept
  <2>2. ASSUME NEW old \in Tenant \X Id, NEW new \in Tenant \X Id,
               old = <<loop.tenant, loop.id>>, new = <<loop.tenant, loop.asked>>, old # new,
               row' = [row EXCEPT ![new] = row[old], ![old] = Absent]
        PROVE  Kept
    <3> SUFFICES ASSUME NEW t \in Tenant, NEW name \in Name, NEW i \in Id,
                        Claim(t, name, i)'
                 PROVE  \E j \in Id : Claim(t, name, j) /\ host[j] = host[i]
      BY DEF Kept
    <3>0. /\ row'[old] = Absent /\ row'[new] = row[old]
          /\ \A at \in Tenant \X Id : at # old /\ at # new => row'[at] = row[at]
      <4>1. row' = [row EXCEPT ![new] = row[old], ![old] = Absent] /\ old # new
        BY <2>2
      <4> QED
        BY <1>a, <4>1 DEF TypeOK
    <3>1. CASE <<t, i>> = new
      <4>1. t = loop.tenant /\ i = loop.asked /\ loop.id \in Id
        BY <1>1, <2>2, <3>1 DEF Registering
      <4>2. host[loop.id] = host[i]
        BY <4>1 DEF NamesInv, OneHost, RekeySpoke
      <4>3. IsApproved(<<t, i>>)' => IsApproved(old) /\ row'[<<t, i>>] = row[old]
        BY <3>0, <3>1 DEF IsApproved
      <4>4. Claim(t, name, loop.id) \/ Claim(t, name, i)
        BY <1>1, <2>2, <4>1, <4>3 DEF Claim
      <4> QED
        BY <4>1, <4>2, <4>4
    <3>2. CASE <<t, i>> # new
      <4>1. IsApproved(<<t, i>>)' => IsApproved(<<t, i>>) /\ row'[<<t, i>>] = row[<<t, i>>]
        <5>1. PICK at : at = <<t, i>> /\ at # new /\ at \in Tenant \X Id
          <6>1. <<t, i>> \in Tenant \X Id
            OBVIOUS
          <6> QED
            BY <3>2, <6>1, Zenon
        <5>2. CASE at = old
          <6>1. row'[<<t, i>>] = Absent
            BY <3>0, <5>1, <5>2
          <6> QED
            BY <6>1 DEF IsApproved
        <5>3. CASE at # old
          BY <3>0, <5>1, <5>3 DEF IsApproved
        <5> QED
          BY <5>2, <5>3
      <4> QED
        BY <1>1, <4>1 DEF Claim
    <3> QED
      BY <3>1, <3>2
  <2> QED
    BY <1>1, <2>1, <2>2
<1>3. Distinct'
  BY <1>a, <1>2, KeptNames
<1>4. CASE loop'.pc # "save"
  BY <1>b, <1>1, <1>3, <1>4 DEF NamesInv, OneHost, StaysFree, Idle
<1>5. CASE loop'.pc = "save"
  <2>1. /\ loop'.tenant = loop.tenant /\ loop'.row = loop.row
        /\ loop'.id = loop.asked /\ loop'.asked = loop.asked
    BY <1>1, <1>5 DEF Idle
  <2>2. /\ host[loop.asked] = host[loop.id]
        /\ loop.row.checked => Free(loop.tenant, loop.row.name, host[loop.id])
    BY DEF NamesInv, OneHost, StaysFree, RekeySpoke
  <2>3. PICK t \in Tenant, name \in Name, h \in {host[loop.id]} :
          t = loop.tenant /\ name = loop.row.name /\ h = host[loop.id]
    BY <1>1 DEF Registering, Row
  <2>4. loop.row.checked => Free(t, name, h)'
    BY <1>2, <2>2, <2>3, KeptNames
  <2>5. loop'.row.checked => Free(loop.tenant, loop.row.name, host[loop.id])'
    BY <2>1, <2>2, <2>3, <2>4
  <2> QED
    BY <1>b, <1>3, <1>5, <2>1, <2>5 DEF NamesInv, OneHost, StaysFree
<1> QED
  BY <1>4, <1>5

\* A row written with a name that is free for its spoke, or not looked up.
LEMMA WrittenRow ==
  ASSUME TypeOK, Distinct, NEW t \in Tenant, NEW i \in Id, NEW x \in Row,
         row' = [row EXCEPT ![<<t, i>>] = x], UNCHANGED pending,
         x.checked => Free(t, x.name, host[i])
  PROVE  Distinct'
<1>1. /\ row'[<<t, i>>] = x
      /\ \A u \in Tenant, j \in Id : <<u, j>> # <<t, i>> => row'[<<u, j>>] = row[<<u, j>>]
  BY DEF TypeOK
<1>2. PICK name \in Name : name = x.name
  BY DEF Row
<1>3. ASSUME NEW u \in Tenant, NEW other \in Name, NEW j \in Id, Claim(u, other, j)'
      PROVE  \/ \E k \in Id : Claim(u, other, k) /\ host[k] = host[j]
             \/ x.checked /\ u = t /\ other = name /\ host[j] = host[i]
  <2>1. CASE <<u, j>> = <<t, i>>
    BY <1>1, <1>2, <1>3, <2>1 DEF Claim
  <2>2. CASE <<u, j>> # <<t, i>>
    BY <1>1, <1>3, <2>2 DEF Claim, IsApproved
  <2> QED
    BY <2>1, <2>2
<1>4. CASE x.checked
  BY <1>2, <1>3, <1>4, TakesFree
<1>5. CASE ~x.checked
  BY <1>3, <1>5, KeptNames DEF Kept
<1> QED
  BY <1>4, <1>5

\* A registered row is saved under a name that the spoke holds or is free.
LEMMA SaveNames == ASSUME NamesInv, SaveRegistered PROVE NamesInv'
<1>a. TypeInv /\ TypeOK /\ Distinct
  BY DEF NamesInv, TypeInv
<1>b. TypeInv' /\ UNCHANGED pending /\ loop'.pc = "idle"
  BY <1>a, SaveType DEF SaveRegistered, Idle
<1>c. loop \in Registering
  BY <1>a, LoopKinds DEF SaveRegistered
<1>1. CASE UNCHANGED row
  BY <1>a, <1>b, <1>1, Shrinking, Elsewhere
<1>2. CASE row' # row
  <2>1. Updated \in Row /\ Updated.name = loop.name
    BY <1>c, UpdatedRow
  <2>2. row' = [row EXCEPT ![<<loop.tenant, loop.id>>] = Updated]
    BY <1>2 DEF SaveRegistered, Updated
  <2>3. \/ loop.row.name = loop.name
        \/ ~NameTaken(loop.tenant, loop.name, host[loop.id])
    BY <1>2 DEF SaveRegistered
  <2>4. Updated.checked => Free(loop.tenant, Updated.name, host[loop.id])
    BY <1>c, <2>1, <2>3, UpdatedRow, NotTaken DEF NamesInv, StaysFree, SaveRegistered
  <2>5. PICK t \in Tenant, i \in Id : t = loop.tenant /\ i = loop.id
    BY <1>c DEF Registering
  <2>6. Distinct'
    BY <1>a, <1>b, <2>1, <2>2, <2>4, <2>5, WrittenRow
  <2> QED
    BY <1>b, <2>6 DEF NamesInv, OneHost, StaysFree
<1> QED
  BY <1>1, <1>2

\* The name of an automatic approval is free.
LEMMA AutoNames == ASSUME NamesInv, AutoApprove PROVE NamesInv'
<1>a. TypeInv /\ TypeOK /\ Distinct
  BY DEF NamesInv, TypeInv
<1>b. TypeInv' /\ UNCHANGED pending /\ loop'.pc \in {"idle", "clean"}
  BY <1>a, SaveType DEF AutoApprove, Idle
<1>c. loop \in Joining
  BY <1>a, LoopKinds DEF AutoApprove
<1>1. CASE UNCHANGED row
  BY <1>a, <1>b, <1>1, Shrinking, Elsewhere
<1>2. CASE row' # row
  <2>1. PICK x : x = ApprovedRow(loop.name)
    OBVIOUS
  <2>2. x \in Row /\ x.name = loop.name
    BY <1>c, <2>1, ApprovedRowType DEF Joining
  <2>3. /\ row' = [row EXCEPT ![<<loop.tenant, loop.id>>] = x]
        /\ ~NameTaken(loop.tenant, loop.name, host[loop.id])
    BY <1>2, <2>1 DEF AutoApprove
  <2>4. Free(loop.tenant, x.name, host[loop.id])
    BY <2>2, <2>3, NotTaken
  <2>5. PICK t \in Tenant, i \in Id : t = loop.tenant /\ i = loop.id
    BY <1>c DEF Joining
  <2>6. Distinct'
    BY <1>a, <1>b, <2>2, <2>3, <2>4, <2>5, WrittenRow
  <2> QED
    BY <1>b, <2>6 DEF NamesInv, OneHost, StaysFree
<1> QED
  BY <1>1, <1>2

\* A pending registration i after it was saved: the new one, or the one that
\* was found under another id, or one that was there.
NewPending(i, hint) ==
  /\ i = loop.id
  /\ pending'[i] = [name |-> loop.name, hint |-> hint]
  /\ hint # NoTenant => ~NameTaken(hint, loop.name, host[loop.id])
MovedPending(i) ==
  /\ i = loop.id /\ loop.found \in Id /\ loop.found # i
  /\ pending[loop.found] # Absent /\ pending'[i] = pending[loop.found]
SamePending(i) ==
  /\ pending[i] # Absent /\ pending'[i] = pending[i]
  /\ i = loop.found => i = loop.id

\* There are no others.
LEMMA PendFacts ==
  ASSUME TypeInv, SavePending
  PROVE  /\ loop \in Waiting /\ loop.pc = "pend" /\ loop' = Idle /\ UNCHANGED <<row, beatVars, crashes>>
         /\ \E hint \in Tenant \cup {NoTenant} :
              \A i \in Id : pending'[i] # Absent =>
                NewPending(i, hint) \/ MovedPending(i) \/ SamePending(i)
<1>1. loop \in Waiting /\ loop' = Idle /\ UNCHANGED <<row, beatVars, crashes>>
  BY LoopKinds DEF SavePending, TypeInv
<1>2. PICK hint \in Tenant \cup {NoTenant} :
        hint = IF loop.hint # NoTenant \/ loop.old = Absent THEN loop.hint ELSE loop.old.hint
  BY <1>1 DEF Waiting, Pending
<1>3. PICK moved :
        moved = IF loop.found \in Id \ {loop.id} /\ pending[loop.found] # Absent
                THEN [pending EXCEPT ![loop.id] = pending[loop.found], ![loop.found] = Absent]
                ELSE pending
  OBVIOUS
<1>4. \/ pending' = moved
      \/ /\ pending' = [moved EXCEPT ![loop.id] = [name |-> loop.name, hint |-> hint]]
         /\ hint # NoTenant => ~NameTaken(hint, loop.name, host[loop.id])
  BY <1>2, <1>3 DEF SavePending
<1>5. ASSUME NEW i \in Id, moved[i] # Absent
      PROVE  \/ /\ i = loop.id /\ loop.found \in Id /\ loop.found # i
                /\ pending[loop.found] # Absent /\ moved[i] = pending[loop.found]
             \/ /\ pending[i] # Absent /\ moved[i] = pending[i]
                /\ i = loop.found => i = loop.id
  <2>1. CASE loop.found \in Id \ {loop.id} /\ pending[loop.found] # Absent
    <3>1. moved = [pending EXCEPT ![loop.id] = pending[loop.found], ![loop.found] = Absent]
      BY <1>3, <2>1
    <3>2. PICK f \in Id, d \in Id : f = loop.found /\ d = loop.id /\ f # d
      BY <1>1, <2>1 DEF Waiting
    <3>3. moved[i] = IF i = f THEN Absent ELSE IF i = d THEN pending[f] ELSE pending[i]
      BY <3>1, <3>2 DEF TypeInv, TypeOK
    <3> QED
      BY <1>5, <2>1, <3>2, <3>3
  <2>2. CASE ~(loop.found \in Id \ {loop.id} /\ pending[loop.found] # Absent)
    BY <1>3, <1>5, <2>2
  <2> QED
    BY <2>1, <2>2
<1>6. DOMAIN moved = Id
  BY <1>3 DEF TypeInv, TypeOK
<1>7. ASSUME NEW i \in Id, pending'[i] # Absent
      PROVE  NewPending(i, hint) \/ MovedPending(i) \/ SamePending(i)
  <2>1. CASE pending'[i] = moved[i]
    BY <1>5, <1>7, <2>1 DEF MovedPending, SamePending
  <2>2. CASE pending'[i] # moved[i]
    <3>1. /\ pending' = [moved EXCEPT ![loop.id] = [name |-> loop.name, hint |-> hint]]
          /\ hint # NoTenant => ~NameTaken(hint, loop.name, host[loop.id])
      BY <1>4, <2>2
    <3>2. i = loop.id
      BY <1>6, <2>2, <3>1
    <3>3. pending'[i] = [name |-> loop.name, hint |-> hint]
      BY <1>6, <3>1, <3>2
    <3> QED
      BY <3>1, <3>2, <3>3 DEF NewPending
  <2> QED
    BY <2>1, <2>2
<1> QED
  BY <1>1, <1>7 DEF SavePending

\* A registration that waits takes a name that is free, or keeps its own.
LEMMA PendNames == ASSUME NamesInv, SavePending PROVE NamesInv'
<1>a. TypeInv /\ TypeOK /\ Distinct
  BY DEF NamesInv, TypeInv
<1>b. TypeInv'
  BY <1>a, PendType
<1>1. loop \in Waiting /\ loop.pc = "pend" /\ loop' = Idle /\ UNCHANGED <<row, beatVars, crashes>>
  BY <1>a, PendFacts
<1>2. PICK hint \in Tenant \cup {NoTenant} :
        \A i \in Id : pending'[i] # Absent =>
          NewPending(i, hint) \/ MovedPending(i) \/ SamePending(i)
  BY <1>a, PendFacts
<1>3. ASSUME NEW t \in Tenant, NEW name \in Name, NEW i \in Id, Claim(t, name, i)'
      PROVE  \/ \E j \in Id : Claim(t, name, j) /\ host[j] = host[i]
             \/ NewPending(i, hint) /\ t = hint /\ name = loop.name
  <2>1. CASE (IsApproved(<<t, i>>) /\ row[<<t, i>>].checked /\ row[<<t, i>>].name = name)'
    BY <1>1, <2>1 DEF IsApproved, Claim
  <2>2. CASE pending'[i] # Absent /\ pending'[i].hint = t /\ pending'[i].name = name
    <3>1. CASE NewPending(i, hint)
      BY <2>2, <3>1 DEF NewPending
    <3>2. CASE MovedPending(i)
      <4>1. loop.found \in Id /\ loop.found # NoId /\ i = loop.id
        BY <3>2, RegistryAssumption DEF MovedPending
      <4>2. host[loop.found] = host[i]
        BY <1>1, <4>1 DEF NamesInv, OneHost
      <4>3. Claim(t, name, loop.found)
        BY <2>2, <3>2 DEF MovedPending, Claim
      <4> QED
        BY <4>1, <4>2, <4>3
    <3>3. CASE SamePending(i)
      BY <2>2, <3>3 DEF SamePending, Claim
    <3> QED
      BY <1>2, <2>2, <3>1, <3>2, <3>3
  <2> QED
    BY <1>3, <2>1, <2>2 DEF Claim
<1>4. Distinct'
  <2>1. CASE \E i \in Id : NewPending(i, hint) /\ hint # NoTenant
    <3>1. loop.id \in Id /\ loop.name \in Name /\ hint \in Tenant
      BY <1>1, <2>1 DEF Waiting
    <3>2. Free(hint, loop.name, host[loop.id])
      BY <2>1, NotTaken DEF NewPending
    <3>3. PICK h \in Host, name \in Name : h = host[loop.id] /\ name = loop.name
      BY <3>1, RegistryAssumption
    <3>4. \A t \in Tenant, other \in Name, i \in Id :
            Claim(t, other, i)' =>
              \/ \E j \in Id : Claim(t, other, j) /\ host[j] = host[i]
              \/ t = hint /\ other = name /\ host[i] = h
      BY <1>3, <3>3 DEF NewPending
    <3>5. Free(hint, name, h)
      BY <3>2, <3>3
    <3> QED
      BY <1>a, <3>1, <3>4, <3>5, TakesFree
  <2>2. CASE ~\E i \in Id : NewPending(i, hint) /\ hint # NoTenant
    <3>1. Kept
      BY <1>3, <2>2, RegistryAssumption DEF Kept
    <3> QED
      BY <1>a, <3>1, KeptNames
  <2> QED
    BY <2>1, <2>2
<1> QED
  BY <1>b, <1>1, <1>4 DEF NamesInv, OneHost, StaysFree, Idle

\* An approval saves the name that it has found free.
LEMMA ApproveNames ==
  ASSUME NamesInv, (\E i \in Id, t \in Tenant : Approve(i, t)) \/ SaveApproved
  PROVE  NamesInv'
<1>a. TypeInv /\ TypeOK /\ Distinct
  BY DEF NamesInv, TypeInv
<1>b. TypeInv'
  BY <1>a, ApproveType
<1>1. ASSUME NEW i \in Id, NEW t \in Tenant, Approve(i, t) PROVE NamesInv'
  <2>1. PICK name \in Name : name = pending[i].name
    BY <1>a, <1>1 DEF Approve, TypeOK, Pending
  <2>2. Free(t, name, host[i])
    BY <1>1, <2>1, NotTaken DEF Approve
  <2>3. Kept
    BY <1>a, <1>1, Shrinking, ShrinksKept DEF Approve
  <2>4. Free(t, name, host[i])'
    <3>1. PICK h : h = host[i]
      OBVIOUS
    <3>2. Free(t, name, h)'
      BY <2>2, <2>3, <3>1, KeptNames
    <3> QED
      BY <3>1, <3>2
  <2>5. /\ loop'.pc = "approve" /\ loop'.tenant = t /\ loop'.id = i /\ loop'.name = name
    BY <1>1, <2>1 DEF Approve
  <2> QED
    BY <1>a, <1>b, <2>3, <2>4, <2>5, KeptNames DEF NamesInv, OneHost, StaysFree
<1>2. CASE SaveApproved
  <2>1. loop \in Approving /\ UNCHANGED pending /\ loop'.pc = "unlink"
    BY <1>a, <1>2, LoopKinds DEF SaveApproved
  <2>2. PICK x : x = ApprovedRow(loop.name)
    OBVIOUS
  <2>3. x \in Row /\ x.name = loop.name
    BY <2>1, <2>2, ApprovedRowType DEF Approving
  <2>4. row' = [row EXCEPT ![<<loop.tenant, loop.id>>] = x]
    BY <1>2, <2>2 DEF SaveApproved
  <2>5. Free(loop.tenant, x.name, host[loop.id])
    BY <1>2, <2>3 DEF SaveApproved, NamesInv, StaysFree
  <2>6. PICK t \in Tenant, i \in Id : t = loop.tenant /\ i = loop.id
    BY <2>1 DEF Approving
  <2>7. Distinct'
    BY <1>a, <2>1, <2>3, <2>4, <2>5, <2>6, WrittenRow
  <2> QED
    BY <1>b, <2>1, <2>7 DEF NamesInv, OneHost, StaysFree
<1> QED
  BY <1>1, <1>2

\* Every step keeps the names apart.
LEMMA NextNames == ASSUME NamesInv, [Next]_vars PROVE NamesInv'
<1>a. TypeInv /\ TypeInv'
  BY NextType DEF NamesInv
<1>1. CASE UNCHANGED vars
  BY <1>a, <1>1, Shrinking, Elsewhere DEF vars
<1>2. CASE \/ CleanPending \/ DeleteApproved
           \/ \E i \in Id : RejectPending(i)
           \/ \E at \in Tenant \X Id : RevokeSpoke(at) \/ DeleteSpoke(at)
  <2>1. loop' = loop \/ loop'.pc = "idle"
    BY <1>2 DEF CleanPending, DeleteApproved, RejectPending, RevokeSpoke, DeleteSpoke, Idle
  <2>2. Shrinks
    BY <1>a, <1>2, Shrinking
  <2> QED
    BY <1>a, <2>1, <2>2, Elsewhere
<1>3. CASE EndHeartbeat \/ Crash \/ \E at \in Tenant \X Id : BeginHeartbeat(at)
  <2>1. /\ loop' = loop \/ loop'.pc = "idle"
        /\ UNCHANGED <<row, pending>>
    BY <1>3 DEF EndHeartbeat, Crash, BeginHeartbeat, Idle
  <2> QED
    BY <1>a, <2>1, Shrinking, Elsewhere
<1>4. ASSUME NEW name \in Name, SaveHeartbeat(name) PROVE NamesInv'
  <2>1. loop' = loop
    BY <1>4 DEF SaveHeartbeat
  <2> QED
    BY <1>a, <1>4, <2>1, HeartbeatKept, KeptElsewhere
<1> QED
  BY <1>1, <1>2, <1>3, <1>4, RegisterNames, RekeyNames, SaveNames, AutoNames, PendNames,
     ApproveNames DEF Next

\* Nobody has a name at the start.
LEMMA InitNames == Init => NamesInv
<1> SUFFICES ASSUME Init PROVE NamesInv
  OBVIOUS
<1>1. \A t \in Tenant, i \in Id : row[<<t, i>>] = Absent
  BY DEF Init
<1>2. \A t \in Tenant, name \in Name, i \in Id : ~Claim(t, name, i)
  BY <1>1 DEF Init, Claim, IsApproved
<1> QED
  BY <1>2, InitType DEF Init, NamesInv, OneHost, StaysFree, Distinct, Idle

\* NamesDistinct in the words of the code's lookups.
LEMMA DistinctNames == TypeOK /\ Distinct => NamesDistinct
<1> SUFFICES ASSUME TypeOK, Distinct, NEW t \in Tenant, NEW c \in Claims(t), NEW d \in Claims(t),
                    c[1] = d[1]
             PROVE  c[2] = d[2]
  BY DEF NamesDistinct
<1>1. ASSUME NEW e \in Claims(t)
      PROVE  \E i \in Id : e[1] \in Name /\ Claim(t, e[1], i) /\ e[2] = host[i]
  <2>1. CASE \E i \in Id : /\ IsApproved(<<t, i>>) /\ row[<<t, i>>].checked
                          /\ e = <<row[<<t, i>>].name, host[i]>>
    <3>1. PICK i \in Id : /\ IsApproved(<<t, i>>) /\ row[<<t, i>>].checked
                         /\ e = <<row[<<t, i>>].name, host[i]>>
      BY <2>1
    <3>2. row[<<t, i>>] \in Row
      BY <3>1 DEF TypeOK, IsApproved
    <3> QED
      BY <3>1, <3>2 DEF Claim, Row
  <2>2. CASE \E i \in Id : pending[i] # Absent /\ pending[i].hint = t
                             /\ e = <<pending[i].name, host[i]>>
    BY <2>2 DEF TypeOK, Claim, Pending
  <2> QED
    BY <2>1, <2>2 DEF Claims
<1>2. PICK i \in Id : c[1] \in Name /\ Claim(t, c[1], i) /\ c[2] = host[i]
  BY <1>1
<1>3. PICK j \in Id : Claim(t, d[1], j) /\ d[2] = host[j]
  BY <1>1
<1> QED
  BY <1>2, <1>3 DEF Distinct

\* Two spokes that are approved into a tenant, or registered for it, have
\* different names, whatever requests, revocations and crashes interleave, up
\* to the names that heartbeats write.
THEOREM NamesDistinctCorrect == Spec => []NamesDistinct
<1>1. NamesInv => NamesDistinct
  BY DistinctNames DEF NamesInv, TypeInv
<1> QED
  BY InitNames, NextNames, <1>1, PTL DEF Spec

-----------------------------------------------------------------------------
(* Records.                                                                *)

\* What is left of the records of a spoke, if nothing is added to them.
LEMMA FewerRecords ==
  ASSUME NEW h,
         \A t \in Tenant, i \in Id :
           host[i] = h /\ IsApproved(<<t, i>>)' => IsApproved(<<t, i>>),
         \A i \in Id : host[i] = h /\ pending'[i] # Absent => pending[i] # Absent
  PROVE  /\ \A t \in Tenant, i \in Id : RowsOnly(h, t, i) => RowsOnly(h, t, i)'
         /\ \A i \in Id : PendingOnly(h, i) => PendingOnly(h, i)'
         /\ NoRows(h) => NoRows(h)'
         /\ NoPending(h) => NoPending(h)'
         /\ OnePending(h) => OnePending(h)'
         /\ Single(h) => Single(h)'
<1>1. \A t \in Tenant, i \in Id : RowsOnly(h, t, i) => RowsOnly(h, t, i)'
  BY DEF RowsOnly
<1>2. \A i \in Id : PendingOnly(h, i) => PendingOnly(h, i)'
  BY DEF PendingOnly
<1>3. NoRows(h) => NoRows(h)'
  BY DEF NoRows
<1>4. NoPending(h) => NoPending(h)'
  BY DEF NoPending
<1>5. OnePending(h) => OnePending(h)'
  BY DEF OnePending
<1>6. OneRow(h) => OneRow(h)'
  BY DEF OneRow
<1> QED
  BY <1>1, <1>2, <1>3, <1>4, <1>5, <1>6 DEF Single

\* A step that adds nothing leaves at most the records there were.
LEMMA ShrinksRecords ==
  ASSUME Shrinks, NEW h
  PROVE  /\ \A t \in Tenant, i \in Id : RowsOnly(h, t, i) => RowsOnly(h, t, i)'
         /\ \A i \in Id : PendingOnly(h, i) => PendingOnly(h, i)'
         /\ NoRows(h) => NoRows(h)'
         /\ NoPending(h) => NoPending(h)'
         /\ OnePending(h) => OnePending(h)'
         /\ Single(h) => Single(h)'
<1>1. \A t \in Tenant, i \in Id : IsApproved(<<t, i>>)' => IsApproved(<<t, i>>)
  BY DEF Shrinks
<1>2. \A i \in Id : pending'[i] # Absent => pending[i] # Absent
  BY DEF Shrinks
<1> QED
  BY <1>1, <1>2, FewerRecords

\* Few records are a single one.
LEMMA FewRecords ==
  ASSUME NEW h
  PROVE  /\ \A t \in Tenant, i \in Id : (RowsOnly(h, t, i) /\ NoPending(h))' => Single(h)'
         /\ \A i \in Id : (NoRows(h) /\ PendingOnly(h, i))' => Single(h)'
<1>1. ASSUME NEW t \in Tenant, NEW i \in Id, RowsOnly(h, t, i)' PROVE OneRow(h)'
  BY <1>1 DEF RowsOnly, OneRow
<1>2. NoPending(h)' => OnePending(h)'
  BY DEF NoPending, OnePending
<1>3. NoRows(h)' => OneRow(h)'
  BY DEF NoRows, OneRow
<1>4. ASSUME NEW i \in Id, PendingOnly(h, i)' PROVE OnePending(h)'
  BY <1>4 DEF PendingOnly, OnePending
<1> QED
  BY <1>1, <1>2, <1>3, <1>4 DEF Single

\* A spoke with a row has that one alone, one with a pending registration too.
LEMMA SingleRecord ==
  ASSUME NEW h, Single(h)
  PROVE  /\ \A t \in Tenant, i \in Id :
              host[i] = h /\ IsApproved(<<t, i>>) => RowsOnly(h, t, i) /\ NoPending(h)
         /\ \A i \in Id :
              host[i] = h /\ pending[i] # Absent => NoRows(h) /\ PendingOnly(h, i)
<1>1. ASSUME NEW t \in Tenant, NEW i \in Id, host[i] = h, IsApproved(<<t, i>>)
      PROVE  RowsOnly(h, t, i) /\ NoPending(h)
  <2>1. ~NoRows(h)
    BY <1>1 DEF NoRows
  <2>2. RowsOnly(h, t, i)
    BY <1>1 DEF Single, OneRow, RowsOnly
  <2> QED
    BY <2>1, <2>2 DEF Single
<1>2. ASSUME NEW i \in Id, host[i] = h, pending[i] # Absent
      PROVE  NoRows(h) /\ PendingOnly(h, i)
  <2>1. ~NoPending(h)
    BY <1>2 DEF NoPending
  <2>2. PendingOnly(h, i)
    BY <1>2 DEF Single, OnePending, PendingOnly
  <2> QED
    BY <2>1, <2>2 DEF Single
<1> QED
  BY <1>1, <1>2

\* The invariant after a step without a crash.
LEMMA RecordsHold ==
  ASSUME TypeInv', \A h \in Host : (Single(h) \/ Finishing(h))',
         loop'.pc # "idle" => Expected(host[loop.id])'
  PROVE  RecordsInv'
  BY DEF RecordsInv

\* While nothing is added a coroutine finds what it expects.
LEMMA SameLoop ==
  ASSUME TypeInv, TypeInv', RecordsInv, Shrinks, loop' = loop, Steady' => Steady
  PROVE  RecordsInv'
<1> SUFFICES ASSUME Steady PROVE RecordsInv'
  BY DEF RecordsInv, Steady
<1>1. ASSUME NEW h \in Host PROVE (Single(h) \/ Finishing(h))'
  <2>1. Single(h) => Single(h)'
    BY ShrinksRecords
  <2>2. Finishing(h) => Finishing(h)'
    BY DEF Finishing
  <2>3. Single(h) \/ Finishing(h)
    BY DEF RecordsInv
  <2> QED
    BY <2>1, <2>2, <2>3
<1>2. ASSUME loop.pc # "idle" PROVE Expected(host[loop.id])'
  <2>1. PICK h : h = host[loop.id]
    OBVIOUS
  <2>2. Expected(h)
    BY <1>2, <2>1 DEF RecordsInv
  <2>3. /\ loop.pc \in {"rekey", "save", "clean", "approve", "unlink"} =>
             loop.tenant \in Tenant /\ loop.id \in Id
        /\ loop.pc = "pend" /\ loop.found # NoId => loop.found \in Id
    BY LoopKinds DEF TypeInv, Registering, Approving, Ending, Waiting
  <2>4. Expected(h)'
    <3>1. loop.pc \in {"rekey", "save"} => RowsOnly(h, loop.tenant, loop.id)' /\ NoPending(h)'
      BY <2>2, <2>3, ShrinksRecords DEF Expected
    <3>2. loop.pc = "auto" => NoRows(h)'
      BY <2>2, ShrinksRecords DEF Expected
    <3>3. loop.pc = "clean" => RowsOnly(h, loop.tenant, loop.id)' /\ OnePending(h)'
      BY <2>2, <2>3, ShrinksRecords DEF Expected
    <3>4. loop.pc = "pend" => NoRows(h)'
      BY <2>2, ShrinksRecords DEF Expected
    <3>5. loop.pc = "pend" /\ loop.found = NoId => NoPending(h)'
      BY <2>2, ShrinksRecords DEF Expected
    <3>6. loop.pc = "pend" /\ loop.found # NoId => PendingOnly(h, loop.found)'
      BY <2>2, <2>3, ShrinksRecords DEF Expected
    <3>7. loop.pc = "approve" => NoRows(h)' /\ PendingOnly(h, loop.id)'
      BY <2>2, <2>3, ShrinksRecords DEF Expected
    <3>8. loop.pc = "unlink" => RowsOnly(h, loop.tenant, loop.id)' /\ PendingOnly(h, loop.id)'
      BY <2>2, <2>3, ShrinksRecords DEF Expected
    <3> QED
      BY <3>1, <3>2, <3>3, <3>4, <3>5, <3>6, <3>7, <3>8 DEF Expected
  <2> QED
    BY <2>1, <2>4
<1> QED
  BY <1>1, <1>2, RecordsHold

\* A coroutine that ends without a record of its own leaves what there was.
LEMMA EndsEarly ==
  ASSUME TypeInv, TypeInv', RecordsInv, Shrinks, Steady' => Steady,
         loop.pc \notin {"clean", "unlink"}, loop'.pc = "idle"
  PROVE  RecordsInv'
<1> SUFFICES ASSUME Steady PROVE RecordsInv'
  BY DEF RecordsInv, Steady
<1>1. ASSUME NEW h \in Host PROVE (Single(h) \/ Finishing(h))'
  BY ShrinksRecords DEF RecordsInv, Finishing
<1>2. Expected(host[loop.id])'
  BY DEF Expected
<1> QED
  BY <1>1, <1>2, RecordsHold

\* What a registration finds out about a spoke.
LEMMA RegisterRecords ==
  ASSUME IInv, NEW h \in Host, NEW asked \in Id \cup {NoId}, NEW name \in Name,
         NEW hint \in Tenant \cup {NoTenant}, NEW brings \in {"same", "news", "oldKey"}, NEW psk,
         Register(h, asked, name, hint, brings, psk)
  PROVE  RecordsInv'
<1>a. TypeInv /\ TypeOK /\ RecordsInv
  BY DEF IInv, NamesInv, TypeInv
<1>b. TypeInv'
  BY <1>a, RegisterType
<1>1. UNCHANGED <<row, pending, beatVars, crashes>> /\ (asked # NoId => host[asked] = h) /\ loop.pc = "idle"
  BY DEF Register
<1>2. Shrinks
  BY <1>a, <1>1, Shrinking
<1> SUFFICES ASSUME Steady PROVE RecordsInv'
  BY <1>1 DEF RecordsInv, Steady, beatVars
<1>3. \A g \in Host : Single(g) /\ Single(g)'
  BY <1>a, <1>1, <1>2, ShrinksRecords DEF RecordsInv, Finishing
<1>4. CASE Rekeys(h, asked, name, brings)
  <2>1. PICK at \in Found(asked, h) :
          loop' = [pc |-> "rekey", tenant |-> at[1], id |-> at[2],
                   row |-> row[at], name |-> name, brings |-> brings,
                   asked |-> IF asked = NoId THEN at[2] ELSE asked]
    BY <1>4 DEF Rekeys
  <2>2. at \in Tenant \X Id /\ IsApproved(at) /\ host[at[2]] = h
    BY <1>a, <1>1, FoundRow
  <2>3. PICK t \in Tenant, i \in Id : at = <<t, i>> /\ at[1] = t /\ at[2] = i
    BY <2>2
  <2>4. RowsOnly(h, t, i) /\ NoPending(h)
    BY <1>3, <2>2, <2>3, SingleRecord
  <2>5. RowsOnly(h, t, i)' /\ NoPending(h)'
    BY <1>2, <2>4, ShrinksRecords
  <2>6. loop'.pc = "rekey" /\ loop'.tenant = t /\ loop'.id = i
    BY <2>1, <2>3
  <2>7. Expected(h)' /\ host[loop'.id] = h
    BY <2>2, <2>3, <2>5, <2>6 DEF Expected
  <2>8. Expected(host[loop.id])'
    BY <2>7
  <2> QED
    BY <1>b, <1>3, <2>8, RecordsHold
<1>5. CASE Joins(h, asked, name)
  <2>1. NoRows(h)' /\ loop'.pc = "auto" /\ host[loop'.id] = h
    BY <1>2, <1>5, ShrinksRecords DEF Joins
  <2>2. Expected(h)'
    BY <2>1 DEF Expected
  <2>3. Expected(host[loop.id])'
    BY <2>1, <2>2
  <2> QED
    BY <1>b, <1>3, <2>3, RecordsHold
<1>6. CASE Waits(h, name)
  <2>1. PICK i \in Id, found \in Id \cup {NoId}, from \in Tenant \cup {NoTenant} :
          /\ host[i] = h
          /\ found = NoId => NoPending(h)
          /\ found # NoId => host[found] = h /\ pending[found] # Absent
          /\ loop' = [pc |-> "pend", found |-> found,
                      old |-> IF found = NoId THEN Absent ELSE pending[found],
                      name |-> name, hint |-> from, id |-> i]
    BY <1>6 DEF Waits
  <2>2. NoRows(h)' /\ (found = NoId => NoPending(h)')
    BY <1>2, <1>6, <2>1, ShrinksRecords DEF Waits
  <2>3. found # NoId => PendingOnly(h, found)'
    BY <1>2, <1>3, <2>1, SingleRecord, ShrinksRecords
  <2>4. loop'.pc = "pend" /\ loop'.found = found /\ loop'.id = i
    BY <2>1
  <2>5. Expected(h)'
    BY <2>2, <2>3, <2>4 DEF Expected
  <2>6. Expected(host[loop.id])'
    BY <2>1, <2>4, <2>5
  <2> QED
    BY <1>b, <1>3, <2>6, RecordsHold
<1> QED
  BY <1>a, <1>4, <1>5, <1>6, RegisterCases

\* The moved row is the spoke's only record.
LEMMA RekeyRecords == ASSUME IInv, RekeySpoke PROVE RecordsInv'
<1>a. TypeInv /\ TypeOK /\ RecordsInv /\ loop.pc = "rekey"
  BY DEF IInv, NamesInv, TypeInv, RekeySpoke
<1>b. TypeInv'
  BY <1>a, RekeyType
<1>1. /\ loop \in Registering /\ UNCHANGED <<pending, beatVars, crashes>>
      /\ \/ loop' = Idle /\ UNCHANGED row
         \/ /\ loop' \in Registering /\ loop'.pc = "save"
            /\ loop'.tenant = loop.tenant /\ loop'.row = loop.row
            /\ loop'.id = loop.asked /\ loop'.asked = loop.asked
            /\ \/ UNCHANGED row /\ row[<<loop.tenant, loop.id>>] = Absent
               \/ UNCHANGED row /\ loop.asked = loop.id
               \/ \E old, new \in Tenant \X Id :
                    /\ old = <<loop.tenant, loop.id>> /\ new = <<loop.tenant, loop.asked>>
                    /\ old # new /\ row[new] = Absent
                    /\ row' = [row EXCEPT ![new] = row[old], ![old] = Absent]
  BY <1>a, RekeyFacts
<1> SUFFICES ASSUME Steady PROVE RecordsInv'
  BY <1>1 DEF RecordsInv, Steady, beatVars
<1>2. CASE loop' = Idle /\ UNCHANGED row
  <2>1. Shrinks
    BY <1>a, <1>1, <1>2, Shrinking
  <2> QED
    BY <1>a, <1>b, <1>1, <1>2, <2>1, EndsEarly DEF Idle, Steady, beatVars
<1>3. CASE loop'.pc = "save"
  <2>1. PICK h \in Host, t \in Tenant, i \in Id, n \in Id :
          /\ h = host[loop.id] /\ h = host[loop.asked]
          /\ t = loop.tenant /\ i = loop.id /\ n = loop.asked
    BY <1>a, <1>1, RegistryAssumption DEF Registering, IInv, NamesInv, OneHost
  <2>2. RowsOnly(h, t, i) /\ NoPending(h) /\ \A g \in Host : Single(g)
    BY <1>a, <2>1 DEF RecordsInv, Expected, Finishing
  <2>3. \/ UNCHANGED row /\ row[<<t, i>>] = Absent
        \/ UNCHANGED row /\ i = n
        \/ /\ <<t, i>> # <<t, n>> /\ row[<<t, n>>] = Absent
           /\ row' = [row EXCEPT ![<<t, n>>] = row[<<t, i>>], ![<<t, i>>] = Absent]
    BY <1>1, <1>3, <2>1 DEF Idle
  <2>4. ASSUME NEW u \in Tenant, NEW j \in Id, IsApproved(<<u, j>>)'
        PROVE  \/ IsApproved(<<u, j>>) /\ <<u, j>> # <<t, i>>
               \/ u = t /\ j = n
    <3>1. CASE UNCHANGED row /\ row[<<t, i>>] = Absent
      BY <2>4, <3>1 DEF IsApproved
    <3>2. CASE UNCHANGED row /\ i = n
      <4>1. <<u, j>> = <<t, i>> => u = t /\ j = n
        BY <3>2
      <4> QED
        BY <2>4, <3>2, <4>1 DEF IsApproved
    <3>3. CASE /\ <<t, i>> # <<t, n>> /\ row[<<t, n>>] = Absent
               /\ row' = [row EXCEPT ![<<t, n>>] = row[<<t, i>>], ![<<t, i>>] = Absent]
      <4>1. PICK old \in Tenant \X Id, new \in Tenant \X Id, at \in Tenant \X Id :
              old = <<t, i>> /\ new = <<t, n>> /\ at = <<u, j>>
        OBVIOUS
      <4>2. old # new /\ row' = [row EXCEPT ![new] = row[old], ![old] = Absent]
        BY <3>3, <4>1
      <4>3. /\ row'[old] = Absent
            /\ at # old /\ at # new => row'[at] = row[at]
        BY <1>a, <4>2 DEF TypeOK
      <4>4. row'[at] # Absent /\ row'[at].status = "approved"
        BY <2>4, <4>1 DEF IsApproved
      <4>5. at = new => u = t /\ j = n
        BY <4>1
      <4>6. at # new => IsApproved(at) /\ at # old
        BY <4>3, <4>4 DEF IsApproved
      <4> QED
        BY <4>1, <4>5, <4>6
    <3> QED
      BY <2>3, <3>1, <3>2, <3>3
  <2>5. RowsOnly(h, t, n)' /\ NoPending(h)'
    BY <1>1, <2>2, <2>4 DEF RowsOnly, NoPending
  <2>6. \A g \in Host : Single(g)'
    <3>1. Single(h)'
      BY <2>5, FewRecords
    <3>2. ASSUME NEW g \in Host, g # h PROVE Single(g)'
      BY <1>1, <2>1, <2>2, <2>4, <3>2, FewerRecords
    <3> QED
      BY <3>1, <3>2
  <2>7. Expected(h)' /\ host[loop'.id] = h
    BY <1>1, <1>3, <2>1, <2>5 DEF Expected, Idle
  <2>8. Expected(host[loop.id])'
    BY <2>7
  <2> QED
    BY <1>b, <2>6, <2>8, RecordsHold
<1> QED
  BY <1>1, <1>2, <1>3

\* A written row is one more of its spoke, and of no other.
LEMMA WrittenRecords ==
  ASSUME TypeOK, NEW t \in Tenant, NEW i \in Id, NEW x,
         row' = [row EXCEPT ![<<t, i>>] = x], UNCHANGED pending,
         RowsOnly(host[i], t, i) \/ NoRows(host[i])
  PROVE  /\ RowsOnly(host[i], t, i)'
         /\ NoPending(host[i]) => NoPending(host[i])'
         /\ PendingOnly(host[i], i) => PendingOnly(host[i], i)'
         /\ OnePending(host[i]) => OnePending(host[i])'
         /\ \A g \in Host : g # host[i] /\ Single(g) => Single(g)'
<1>1. \A u \in Tenant, j \in Id : <<u, j>> # <<t, i>> => row'[<<u, j>>] = row[<<u, j>>]
  BY DEF TypeOK
<1>2. ASSUME NEW u \in Tenant, NEW j \in Id, IsApproved(<<u, j>>)'
      PROVE  IsApproved(<<u, j>>) \/ (u = t /\ j = i)
  <2>1. CASE <<u, j>> = <<t, i>>
    BY <2>1
  <2>2. CASE <<u, j>> # <<t, i>>
    BY <1>1, <1>2, <2>2 DEF IsApproved
  <2> QED
    BY <2>1, <2>2
<1>3. RowsOnly(host[i], t, i)'
  BY <1>2 DEF RowsOnly, NoRows
<1>4. /\ NoPending(host[i]) => NoPending(host[i])'
      /\ PendingOnly(host[i], i) => PendingOnly(host[i], i)'
      /\ OnePending(host[i]) => OnePending(host[i])'
  BY DEF NoPending, PendingOnly, OnePending
<1>5. ASSUME NEW g \in Host, g # host[i], Single(g) PROVE Single(g)'
  BY <1>2, <1>5, FewerRecords
<1> QED
  BY <1>3, <1>4, <1>5

\* A registered row is saved where the spoke's only record is, or was.
LEMMA SaveRecords == ASSUME IInv, SaveRegistered PROVE RecordsInv'
<1>a. TypeInv /\ TypeOK /\ RecordsInv /\ loop.pc = "save" /\ loop \in Registering
  BY LoopKinds DEF IInv, NamesInv, TypeInv, SaveRegistered
<1>b. TypeInv' /\ UNCHANGED <<pending, beatVars, crashes>> /\ loop'.pc = "idle"
  BY <1>a, SaveType DEF SaveRegistered, Idle
<1> SUFFICES ASSUME Steady PROVE RecordsInv'
  BY <1>b DEF RecordsInv, Steady, beatVars
<1>1. CASE UNCHANGED row
  BY <1>a, <1>b, <1>1, Shrinking, EndsEarly DEF Steady, beatVars
<1>2. CASE row' # row
  <2>a. PICK t \in Tenant, i \in Id : t = loop.tenant /\ i = loop.id
    BY <1>a DEF Registering
  <2>b. PICK x : x = Updated
    OBVIOUS
  <2>1. row' = [row EXCEPT ![<<t, i>>] = x] /\ t = loop.tenant /\ i = loop.id
    BY <1>2, <2>a, <2>b DEF SaveRegistered, Updated
  <2>2. RowsOnly(host[i], t, i) /\ NoPending(host[i]) /\ \A g \in Host : Single(g)
    BY <1>a, <2>1 DEF RecordsInv, Expected, Finishing
  <2>3. /\ RowsOnly(host[i], t, i)' /\ NoPending(host[i])'
        /\ \A g \in Host : g # host[i] => Single(g)'
    BY <1>a, <1>b, <2>1, <2>2, WrittenRecords
  <2>4. Single(host[i])'
    BY <2>3, FewRecords
  <2> QED
    BY <1>b, <2>3, <2>4, RecordsHold
<1> QED
  BY <1>1, <1>2

\* A spoke that is approved at once has one row, and what was pending.
LEMMA AutoRecords == ASSUME IInv, AutoApprove PROVE RecordsInv'
<1>a. TypeInv /\ TypeOK /\ RecordsInv /\ loop.pc = "auto" /\ loop \in Joining
  BY LoopKinds DEF IInv, NamesInv, TypeInv, AutoApprove
<1>b. TypeInv' /\ UNCHANGED <<pending, beatVars, crashes>>
  BY <1>a, SaveType DEF AutoApprove
<1> SUFFICES ASSUME Steady PROVE RecordsInv'
  BY <1>b DEF RecordsInv, Steady, beatVars
<1>1. CASE UNCHANGED row /\ loop' = Idle
  BY <1>a, <1>b, <1>1, Shrinking, EndsEarly DEF Idle, Steady, beatVars
<1>2. CASE loop' = [pc |-> "clean", tenant |-> loop.tenant, id |-> loop.id]
  <2>a. PICK t \in Tenant, i \in Id : t = loop.tenant /\ i = loop.id
    BY <1>a DEF Joining
  <2>b. PICK x : x = ApprovedRow(loop.name)
    OBVIOUS
  <2>1. row' = [row EXCEPT ![<<t, i>>] = x] /\ t = loop.tenant /\ i = loop.id
    BY <1>2, <2>a, <2>b DEF AutoApprove, Idle
  <2>2. NoRows(host[i]) /\ \A g \in Host : Single(g)
    BY <1>a, <2>1 DEF RecordsInv, Expected, Finishing
  <2>3. OnePending(host[i])
    BY <2>2, RegistryAssumption DEF Single
  <2>4. /\ RowsOnly(host[i], t, i)' /\ OnePending(host[i])'
        /\ \A g \in Host : g # host[i] => Single(g)'
    BY <1>a, <1>b, <2>1, <2>2, <2>3, WrittenRecords
  <2>5. loop'.pc = "clean" /\ loop'.tenant = t /\ loop'.id = i
    BY <1>2, <2>1
  <2>6. Expected(host[loop.id])' /\ \A g \in Host : (Single(g) \/ Finishing(g))'
    BY <2>4, <2>5 DEF Expected, Finishing
  <2> QED
    BY <1>b, <2>6, RecordsHold
<1> QED
  BY <1>1, <1>2 DEF AutoApprove

\* The cleanup removes what was pending.
LEMMA CleanRecords == ASSUME IInv, CleanPending PROVE RecordsInv'
<1>a. TypeInv /\ TypeOK /\ RecordsInv /\ loop.pc = "clean" /\ loop \in Ending
  BY LoopKinds DEF IInv, NamesInv, TypeInv, CleanPending
<1>b. TypeInv' /\ UNCHANGED <<row, beatVars, crashes>> /\ loop'.pc = "idle"
  BY <1>a, SaveType DEF CleanPending, Idle
<1> SUFFICES ASSUME Steady PROVE RecordsInv'
  BY <1>b DEF RecordsInv, Steady, beatVars
<1>1. PICK t \in Tenant, i \in Id, h \in Host :
        t = loop.tenant /\ i = loop.id /\ h = host[i]
  BY <1>a, RegistryAssumption DEF Ending
<1>2. RowsOnly(h, t, i) /\ OnePending(h) /\ \A g \in Host : g # h => Single(g)
  BY <1>a, <1>1 DEF RecordsInv, Expected, Finishing
<1>3. Shrinks
  BY <1>a, Shrinking
<1>4. RowsOnly(h, t, i)' /\ \A g \in Host : g # h => Single(g)'
  BY <1>2, <1>3, ShrinksRecords
<1>5. NoPending(h)'
  <2>1. PICK stale \in IF PendingOf(h) = {} THEN {i} ELSE PendingOf(h) :
          pending' = [pending EXCEPT ![stale] = Absent, ![i] = Absent]
    BY <1>1 DEF CleanPending
  <2>2. stale \in Id
    BY <2>1 DEF PendingOf
  <2>3. \A j \in Id : pending'[j] = IF j = i \/ j = stale THEN Absent ELSE pending[j]
    BY <1>a, <2>1, <2>2 DEF TypeOK
  <2>4. ASSUME NEW j \in Id, host[j] = h, pending'[j] # Absent PROVE FALSE
    <3>1. j \in PendingOf(h)
      BY <2>3, <2>4 DEF PendingOf
    <3>2. stale \in PendingOf(h)
      BY <2>1, <3>1
    <3>3. j = stale
      BY <1>2, <3>1, <3>2 DEF OnePending, PendingOf
    <3> QED
      BY <2>3, <2>4, <3>3
  <2> QED
    BY <2>4 DEF NoPending
<1>6. Single(h)'
  BY <1>4, <1>5, FewRecords
<1> QED
  BY <1>b, <1>4, <1>6, RecordsHold

\* A spoke that waits has one pending registration.
LEMMA PendRecords == ASSUME IInv, SavePending PROVE RecordsInv'
<1>a. TypeInv /\ RecordsInv /\ OneHost
  BY DEF IInv, NamesInv
<1>b. TypeInv' /\ UNCHANGED <<row, beatVars, crashes>> /\ loop'.pc = "idle" /\ loop.pc = "pend"
      /\ loop \in Waiting
  BY <1>a, PendType, PendFacts DEF Idle
<1> SUFFICES ASSUME Steady PROVE RecordsInv'
  BY <1>b DEF RecordsInv, Steady, beatVars
<1>1. PICK hint \in Tenant \cup {NoTenant} :
        \A i \in Id : pending'[i] # Absent =>
          NewPending(i, hint) \/ MovedPending(i) \/ SamePending(i)
  BY <1>a, PendFacts
<1>2. PICK i \in Id, h \in Host : i = loop.id /\ h = host[i]
  BY <1>b, RegistryAssumption DEF Waiting
<1>3. /\ NoRows(h) /\ \A g \in Host : Single(g)
      /\ loop.found = NoId => NoPending(h)
      /\ loop.found # NoId => PendingOnly(h, loop.found)
  BY <1>a, <1>b, <1>2 DEF RecordsInv, Expected, Finishing
<1>4. ASSUME NEW j \in Id, pending'[j] # Absent PROVE j = i \/ SamePending(j)
  BY <1>1, <1>2, <1>4 DEF NewPending, MovedPending
<1>5. PendingOnly(h, i)'
  <2>1. ASSUME NEW j \in Id, host[j] = h, pending'[j] # Absent PROVE j = i
    <3>1. CASE SamePending(j)
      <4>1. pending[j] # Absent /\ (j = loop.found => j = i)
        BY <1>2, <3>1 DEF SamePending
      <4>2. loop.found # NoId
        BY <1>3, <2>1, <4>1 DEF NoPending
      <4>3. j = loop.found
        BY <1>3, <2>1, <4>1, <4>2 DEF PendingOnly
      <4> QED
        BY <4>1, <4>3
    <3> QED
      BY <1>4, <2>1, <3>1
  <2> QED
    BY <2>1 DEF PendingOnly
<1>6. NoRows(h)'
  BY <1>b, <1>3 DEF NoRows, IsApproved
<1>7. Single(h)'
  BY <1>5, <1>6, FewRecords
<1>8. ASSUME NEW g \in Host, g # h PROVE Single(g)'
  <2>1. \A t \in Tenant, j \in Id :
          host[j] = g /\ IsApproved(<<t, j>>)' => IsApproved(<<t, j>>)
    BY <1>b DEF IsApproved
  <2>2. \A j \in Id : host[j] = g /\ pending'[j] # Absent => pending[j] # Absent
    BY <1>2, <1>4, <1>8 DEF SamePending
  <2> QED
    BY <1>3, <2>1, <2>2, FewerRecords
<1> QED
  BY <1>b, <1>7, <1>8, RecordsHold

\* An approval finds the registration alone, and leaves the row alone.
LEMMA ApproveRecords ==
  ASSUME IInv,
         \/ \E i \in Id, t \in Tenant : Approve(i, t)
         \/ SaveApproved \/ DeleteApproved
  PROVE  RecordsInv'
<1>a. TypeInv /\ TypeOK /\ RecordsInv
  BY DEF IInv, NamesInv, TypeInv
<1>b. TypeInv' /\ UNCHANGED <<beatVars, crashes>>
  BY <1>a, ApproveType DEF Approve, SaveApproved, DeleteApproved
<1> SUFFICES ASSUME Steady PROVE RecordsInv'
  BY <1>b DEF RecordsInv, Steady, beatVars
<1>1. ASSUME NEW i \in Id, NEW t \in Tenant, Approve(i, t) PROVE RecordsInv'
  <2>1. PICK h \in Host : h = host[i]
    BY RegistryAssumption
  <2>2. Shrinks
    BY <1>a, <1>1, Shrinking DEF Approve
  <2>3. \A g \in Host : Single(g) /\ Single(g)'
    BY <1>a, <1>1, <2>2, ShrinksRecords DEF Approve, RecordsInv, Finishing
  <2>4. NoRows(h) /\ PendingOnly(h, i)
    BY <1>1, <2>1, <2>3, SingleRecord DEF Approve
  <2>5. NoRows(h)' /\ PendingOnly(h, i)'
    BY <2>2, <2>4, ShrinksRecords
  <2>6. loop'.pc = "approve" /\ loop'.id = i
    BY <1>1 DEF Approve
  <2>7. Expected(host[loop.id])'
    BY <2>1, <2>5, <2>6 DEF Expected
  <2> QED
    BY <1>b, <2>3, <2>7, RecordsHold
<1>2. CASE SaveApproved
  <2>1. loop \in Approving /\ UNCHANGED pending
    BY <1>a, <1>2, LoopKinds DEF SaveApproved
  <2>a. PICK t \in Tenant, i \in Id : t = loop.tenant /\ i = loop.id
    BY <2>1 DEF Approving
  <2>b. PICK x : x = ApprovedRow(loop.name)
    OBVIOUS
  <2>2. row' = [row EXCEPT ![<<t, i>>] = x] /\ t = loop.tenant /\ i = loop.id
    BY <1>2, <2>a, <2>b DEF SaveApproved
  <2>3. NoRows(host[i]) /\ PendingOnly(host[i], i) /\ \A g \in Host : Single(g)
    BY <1>a, <1>2, <2>2 DEF SaveApproved, RecordsInv, Expected, Finishing
  <2>4. /\ RowsOnly(host[i], t, i)' /\ PendingOnly(host[i], i)'
        /\ \A g \in Host : g # host[i] => Single(g)'
    BY <1>a, <2>1, <2>2, <2>3, WrittenRecords
  <2>5. loop'.pc = "unlink" /\ loop'.tenant = t /\ loop'.id = i
    BY <1>2, <2>2 DEF SaveApproved
  <2>6. Expected(host[loop.id])' /\ \A g \in Host : (Single(g) \/ Finishing(g))'
    BY <2>4, <2>5 DEF Expected, Finishing
  <2> QED
    BY <1>b, <2>6, RecordsHold
<1>3. CASE DeleteApproved
  <2>1. loop \in Ending
    BY <1>a, <1>3, LoopKinds DEF DeleteApproved
  <2>2. PICK t \in Tenant, i \in Id, h \in Host :
          t = loop.tenant /\ i = loop.id /\ h = host[i]
    BY <2>1, RegistryAssumption DEF Ending
  <2>3. RowsOnly(h, t, i) /\ PendingOnly(h, i) /\ \A g \in Host : g # h => Single(g)
    BY <1>a, <1>3, <2>2 DEF DeleteApproved, RecordsInv, Expected, Finishing
  <2>4. RowsOnly(h, t, i)' /\ PendingOnly(h, i)' /\ \A g \in Host : g # h => Single(g)'
    BY <1>a, <1>3, <2>3, Shrinking, ShrinksRecords
  <2>5. pending'[i] = Absent
    BY <1>a, <1>3, <2>2 DEF DeleteApproved, TypeOK
  <2>6. NoPending(h)'
    BY <2>4, <2>5 DEF PendingOnly, NoPending
  <2>7. Single(h)'
    BY <2>4, <2>6, FewRecords
  <2>8. loop'.pc = "idle"
    BY <1>3 DEF DeleteApproved, Idle
  <2> QED
    BY <1>b, <2>4, <2>7, <2>8, RecordsHold
<1> QED
  BY <1>1, <1>2, <1>3

\* Every step keeps the invariant.
LEMMA NextIInv == ASSUME IInv, [Next]_vars PROVE IInv'
<1>a. NamesInv /\ NamesInv' /\ TypeInv /\ TypeInv' /\ RecordsInv
  BY NextNames DEF IInv, NamesInv
<1>1. CASE UNCHANGED vars
  BY <1>a, <1>1, Shrinking, SameLoop DEF IInv, vars, beatVars, Steady
<1>2. CASE \/ \E i \in Id : RejectPending(i)
           \/ \E at \in Tenant \X Id : RevokeSpoke(at) \/ DeleteSpoke(at)
  <2>1. loop' = loop /\ (Steady' => Steady)
    BY <1>2 DEF RejectPending, RevokeSpoke, DeleteSpoke, Steady, beatVars
  <2>2. Shrinks
    BY <1>a, <1>2, Shrinking
  <2> QED
    BY <1>a, <2>1, <2>2, SameLoop DEF IInv
<1>3. CASE EndHeartbeat \/ \E at \in Tenant \X Id : BeginHeartbeat(at)
  <2>1. loop' = loop /\ (Steady' => Steady) /\ UNCHANGED <<row, pending>>
    BY <1>3 DEF EndHeartbeat, BeginHeartbeat, Steady
  <2> QED
    BY <1>a, <2>1, Shrinking, SameLoop DEF IInv
<1>4. ASSUME NEW name \in Name, SaveHeartbeat(name) PROVE IInv'
  <2>1. CASE Steady'
    <3>1. loop' = loop /\ Steady /\ IsApproved(beat)
      BY <1>4, <2>1 DEF SaveHeartbeat, Steady
    <3>2. Shrinks
      BY <1>a, <1>4, <3>1, Shrinking
    <3> QED
      BY <1>a, <3>1, <3>2, SameLoop DEF IInv
  <2>2. CASE ~Steady'
    BY <1>a, <2>2 DEF IInv, RecordsInv
  <2> QED
    BY <2>1, <2>2
<1>5. CASE Crash
  <2>1. crashes' # 0
    BY <1>a, <1>5 DEF Crash, TypeInv, TypeOK
  <2> QED
    BY <1>a, <2>1 DEF IInv, RecordsInv, Steady
<1>6. CASE \E h \in Host, asked \in Id \cup {NoId}, name \in Name,
             hint \in Tenant \cup {NoTenant}, brings \in {"same", "news", "oldKey"},
             psk \in BOOLEAN :
             Register(h, asked, name, hint, brings, psk)
  BY <1>a, <1>6, RegisterRecords DEF IInv
<1>7. CASE \/ RekeySpoke \/ SaveRegistered \/ AutoApprove \/ CleanPending \/ SavePending
           \/ (\E i \in Id, t \in Tenant : Approve(i, t)) \/ SaveApproved \/ DeleteApproved
  BY <1>a, <1>7, RekeyRecords, SaveRecords, AutoRecords, CleanRecords, PendRecords,
     ApproveRecords DEF IInv
<1> QED
  BY <1>1, <1>2, <1>3, <1>4, <1>5, <1>6, <1>7 DEF Next

\* Nobody has a record at the start.
LEMMA InitIInv == Init => IInv
<1> SUFFICES ASSUME Init PROVE IInv
  OBVIOUS
<1>1. \A t \in Tenant, i \in Id : row[<<t, i>>] = Absent
  BY DEF Init
<1>2. \A h \in Host : NoRows(h) /\ OneRow(h) /\ OnePending(h)
  BY <1>1 DEF Init, NoRows, OneRow, OnePending, IsApproved
<1>3. RecordsInv
  BY <1>2 DEF Init, RecordsInv, Single, Idle
<1> QED
  BY <1>3, InitNames DEF IInv

\* OneRecord in the words of the code's lookups.
LEMMA SingleIsOne == TypeInv /\ RecordsInv => OneRecord
<1> SUFFICES ASSUME TypeInv, RecordsInv, Steady, loop.pc \notin {"clean", "unlink"},
                    NEW h \in Host, NEW r \in Records(h), NEW s \in Records(h)
             PROVE  r = s
  BY DEF OneRecord, Steady
<1>1. Single(h)
  BY DEF RecordsInv, Finishing
<1>2. ASSUME NEW e \in Records(h)
      PROVE  \/ \E t \in Tenant, i \in Id : e = <<t, i>> /\ host[i] = h /\ IsApproved(<<t, i>>)
             \/ \E i \in Id : e = <<NoTenant, i>> /\ host[i] = h /\ pending[i] # Absent
  <2>1. CASE e \in ByHost(h)
    BY <2>1 DEF ByHost
  <2>2. CASE \E i \in PendingOf(h) : e = <<NoTenant, i>>
    BY <2>2 DEF PendingOf
  <2> QED
    BY <2>1, <2>2 DEF Records
<1>3. CASE /\ \E t \in Tenant, i \in Id : r = <<t, i>> /\ host[i] = h /\ IsApproved(<<t, i>>)
           /\ \E t \in Tenant, i \in Id : s = <<t, i>> /\ host[i] = h /\ IsApproved(<<t, i>>)
  BY <1>1, <1>3 DEF Single, OneRow
<1>4. CASE /\ \E i \in Id : r = <<NoTenant, i>> /\ host[i] = h /\ pending[i] # Absent
           /\ \E i \in Id : s = <<NoTenant, i>> /\ host[i] = h /\ pending[i] # Absent
  BY <1>1, <1>4 DEF Single, OnePending
<1>5. ~(/\ \E t \in Tenant, i \in Id : host[i] = h /\ IsApproved(<<t, i>>)
        /\ \E i \in Id : host[i] = h /\ pending[i] # Absent)
  BY <1>1 DEF Single, NoRows, NoPending
<1> QED
  BY <1>2, <1>3, <1>4, <1>5

\* Outside an approval a spoke has one record, an approved row of one tenant
\* or a pending registration, if the process has not died in an approval and no
\* heartbeat saved a row that was revoked, deleted or moved meanwhile.
THEOREM OneRecordCorrect == Spec => []OneRecord
<1>1. IInv => OneRecord
  BY SingleIsOne DEF IInv, NamesInv
<1> QED
  BY InitIInv, NextIInv, <1>1, PTL DEF Spec

\* At most one tenant has a row of an id, in the middle of an approval too: what
\* an approval has not finished is always a pending registration or another id's.
LEMMA RowsAreOneTenants == TypeInv /\ RecordsInv /\ Steady => OneTenant
<1> SUFFICES ASSUME TypeInv, RecordsInv, Steady,
                    NEW i \in Id, NEW r \in ById(i), NEW s \in ById(i)
             PROVE  r = s
  BY DEF OneTenant
<1>1. PICK t \in Tenant : r = <<t, i>> /\ IsApproved(<<t, i>>)
  BY DEF ById
<1>2. PICK u \in Tenant : s = <<u, i>> /\ IsApproved(<<u, i>>)
  BY DEF ById
<1> DEFINE h == host[i]
<1>3. h \in Host
  BY RegistryAssumption
<1>4. CASE Single(h)
  BY <1>1, <1>2, <1>4 DEF Single, OneRow
<1>5. CASE Finishing(h)
  <2>1. Expected(h)
    BY <1>5 DEF Finishing, RecordsInv
  <2>2. RowsOnly(h, loop.tenant, loop.id)
    BY <1>5, <2>1 DEF Finishing, Expected
  <2> QED
    BY <1>1, <1>2, <2>2 DEF RowsOnly
<1>6. Single(h) \/ Finishing(h)
  BY <1>3 DEF RecordsInv
<1> QED
  BY <1>4, <1>5, <1>6

\* A spoke is approved into one tenant (README.md), at every step of every
\* approval, as long as the process has not died in one and no heartbeat saved
\* a row that was revoked, deleted or moved meanwhile.
THEOREM OneTenantCorrect == Spec => [](crashes = 0 /\ ~overtaken => OneTenant)
<1>1. IInv => (crashes = 0 /\ ~overtaken => OneTenant)
  BY RowsAreOneTenants DEF IInv, NamesInv, Steady
<1> QED
  BY InitIInv, NextIInv, <1>1, PTL DEF Spec

=============================================================================
