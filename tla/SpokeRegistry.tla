---------------------------- MODULE SpokeRegistry ----------------------------
(***************************************************************************)
(* Registration, approval, revocation and deletion of spokes.  register    *)
(* and the two approve endpoints are coroutines without an await before    *)
(* their last store call, so the event loop runs one of them at a time;    *)
(* revoke, delete and reject are plain functions and run in threads        *)
(* between the coroutine's store calls, and so do the saves of heartbeats. *)
(* The queue and audit files, which no decision here reads, are left out.  *)
(*                                                                         *)
(* A spoke is known by its hostname, which does not change here; its id    *)
(* may, when it is installed again.  A lookup by API key therefore finds   *)
(* no row that the lookup by hostname has missed; the keys themselves are  *)
(* left out but for the refusal of a registration with an older one.       *)
(***************************************************************************)
EXTENDS Naturals

CONSTANTS
  Host,       \* the spokes, by hostname
  Id,         \* spoke ids
  host,       \* the spoke each id belongs to
  NoId,       \* a registration without an id
  Tenant,
  NoTenant,   \* a registration without a tenant hint
  Name,       \* spoke names
  Absent,     \* no row, no pending file
  MaxApproval,  \* bound: approvals
  MaxTrouble    \* bound: crashes and saves of heartbeats together

ASSUME RegistryAssumption ==
  /\ host \in [Id -> Host]
  /\ NoId \notin Id
  /\ NoTenant \notin Tenant
  /\ MaxApproval \in Nat
  /\ MaxTrouble \in Nat

VARIABLES
  row,       \* spokes.json of each tenant
  pending,   \* the files below pending/
  loop,      \* the register or approve coroutine in progress
  beat,      \* the row that a handler of heartbeats read and keeps a copy of
  overtaken, \* history: such a copy was saved when its row was not approved
  approvals, \* number of approvals so far
  beats,     \* number of saves of heartbeats so far
  crashes    \* number of crashes so far

beatVars == <<beat, overtaken, beats>>
vars == <<row, pending, loop, beatVars, approvals, crashes>>

\* checked is a history: the name was compared with those of the tenant's
\* other spokes when it was written.
Row == [status : {"approved", "revoked"}, name : Name, checked : BOOLEAN]

ApprovedRow(name) == [status |-> "approved", name |-> name, checked |-> TRUE]
Pending == [name : Name, hint : Tenant \cup {NoTenant}]

\* What a coroutine keeps: the row at (tenant, id) it read or will write, and
\* the registration's id and name, and whether it brings nothing more ("same"),
\* other changes to the row ("news"), or an older key ("oldKey").
Idle == [pc |-> "idle"]
Registering == [pc : {"rekey", "save"}, tenant : Tenant, id : Id, row : Row,
                asked : Id, name : Name, brings : {"same", "news", "oldKey"}]
Joining == [pc : {"auto"}, tenant : Tenant, id : Id, name : Name]
Waiting == [pc : {"pend"}, found : Id \cup {NoId}, old : Pending \cup {Absent},
            id : Id, name : Name, hint : Tenant \cup {NoTenant}]
Approving == [pc : {"approve"}, tenant : Tenant, id : Id, name : Name]
Ending == [pc : {"clean", "unlink"}, tenant : Tenant, id : Id]

TypeOK ==
  /\ row \in [Tenant \X Id -> Row \cup {Absent}]
  /\ pending \in [Id -> Pending \cup {Absent}]
  /\ loop \in {Idle} \cup Registering \cup Joining \cup Waiting \cup Approving
                \cup Ending
  /\ beat \in (Tenant \X Id) \cup {Absent}
  /\ overtaken \in BOOLEAN
  /\ approvals \in 0 .. MaxApproval
  /\ beats \in Nat /\ crashes \in Nat
  /\ beats + crashes <= MaxTrouble

Init ==
  /\ row = [at \in Tenant \X Id |-> Absent]
  /\ pending = [i \in Id |-> Absent]
  /\ loop = Idle
  /\ beat = Absent /\ overtaken = FALSE
  /\ approvals = 0
  /\ beats = 0
  /\ crashes = 0

-----------------------------------------------------------------------------
(* Lookups of the store.                                                   *)

IsApproved(at) == row[at] # Absent /\ row[at].status = "approved"

\* get_approved_spoke_by_id, and by hostname if that finds nothing.
ById(i) == {at \in Tenant \X Id : IsApproved(at) /\ at[2] = i}
ByHost(h) == {at \in Tenant \X Id : IsApproved(at) /\ host[at[2]] = h}
Found(i, h) == IF ById(i) # {} THEN ById(i) ELSE ByHost(h)

\* get_pending_spoke, and get_pending_by_hostname if that finds nothing.
PendingOf(h) == {i \in Id : pending[i] # Absent /\ host[i] = h}
FoundPending(i, h) ==
  IF i \in PendingOf(h) THEN {i} ELSE PendingOf(h)

\* Variant: only approved rows are looked at.
NameTakenByRow(t, name, h) ==
  \E i \in Id : /\ IsApproved(<<t, i>>)
                /\ row[<<t, i>>].name = name
                /\ host[i] # h

\* Variant: only pending registrations are looked at.
NameTakenByPending(t, name, h) ==
  \E i \in Id : /\ pending[i] # Absent
                /\ pending[i].hint = t
                /\ pending[i].name = name
                /\ host[i] # h

\* The name belongs to another spoke of the tenant, approved or pending.
NameTaken(t, name, h) ==
  \/ \E i \in Id : /\ IsApproved(<<t, i>>)
                   /\ row[<<t, i>>].name = name
                   /\ host[i] # h
  \/ \E i \in Id : /\ pending[i] # Absent
                   /\ pending[i].hint = t
                   /\ pending[i].name = name
                   /\ host[i] # h

-----------------------------------------------------------------------------
(* register_spoke.                                                         *)

\* The coroutine looks for the spoke; psk says that the tenant's onboarding
\* key came with the registration.  With neither an id nor a record the spoke
\* gets a fresh id.
Register(h, asked, name, hint, brings, psk) ==
  /\ loop.pc = "idle"
  /\ asked # NoId => host[asked] = h
  /\ \/ \E at \in Found(asked, h) :
          loop' = [pc |-> "rekey", tenant |-> at[1], id |-> at[2],
                   row |-> row[at], name |-> name, brings |-> brings,
                   asked |-> IF asked = NoId THEN at[2] ELSE asked]
     \/ /\ Found(asked, h) = {}
        /\ hint # NoTenant /\ psk /\ approvals < MaxApproval
        /\ \E i \in Id :
             /\ IF asked # NoId THEN i = asked
                ELSE /\ host[i] = h /\ pending[i] = Absent
                     /\ \A t \in Tenant : row[<<t, i>>] = Absent
             /\ loop' = [pc |-> "auto", tenant |-> hint, id |-> i,
                         name |-> name]
     \/ /\ Found(asked, h) = {}
        /\ hint = NoTenant \/ ~psk
        /\ \/ \E found \in FoundPending(asked, h) :
                loop' = [pc |-> "pend", found |-> found,
                         old |-> pending[found], name |-> name, hint |-> hint,
                         id |-> IF asked = NoId THEN found ELSE asked]
           \/ /\ FoundPending(asked, h) = {}
              /\ \E i \in Id :
                   /\ IF asked # NoId THEN i = asked
                      ELSE /\ host[i] = h
                           /\ \A t \in Tenant : row[<<t, i>>] = Absent
                   /\ loop' = [pc |-> "pend", found |-> NoId, old |-> Absent,
                               id |-> i, name |-> name, hint |-> hint]
  /\ UNCHANGED <<row, pending, beatVars, approvals, crashes>>

\* rekey_spoke gives the row the id that the spoke asks for; if a row has that
\* id already it raises and the request fails.
RekeySpoke ==
  /\ loop.pc = "rekey"
  /\ LET old == <<loop.tenant, loop.id>>
         new == <<loop.tenant, loop.asked>> IN
     \/ /\ row[new] # Absent /\ old # new
        /\ loop' = Idle
        /\ row' = row
     \/ /\ row[new] = Absent \/ old = new
        /\ row' = IF old # new /\ row[old] # Absent
                  THEN [row EXCEPT ![new] = row[old], ![old] = Absent]
                  ELSE row
        /\ loop' = [loop EXCEPT !.pc = "save", !.id = loop.asked]
  /\ UNCHANGED <<pending, beatVars, approvals, crashes>>

\* The name and the presented key are checked, then the row as it was read is
\* saved with the changes, if there are any.
SaveRegistered ==
  /\ loop.pc = "save"
  /\ LET refused == \/ /\ loop.row.name # loop.name
                       /\ NameTaken(loop.tenant, loop.name, host[loop.id])
                    \/ loop.brings = "oldKey"
         changed == loop.brings = "news" \/ loop.row.name # loop.name IN
     row' = IF refused \/ ~changed THEN row
            ELSE [row EXCEPT ![<<loop.tenant, loop.id>>] =
                    IF loop.row.name = loop.name THEN loop.row
                    ELSE [loop.row EXCEPT !.name = loop.name, !.checked = TRUE]]
  /\ loop' = Idle
  /\ UNCHANGED <<pending, beatVars, approvals, crashes>>

\* With the tenant's onboarding key the spoke is approved at once.
AutoApprove ==
  /\ loop.pc = "auto"
  /\ \/ /\ NameTaken(loop.tenant, loop.name, host[loop.id])
        /\ loop' = Idle
        /\ UNCHANGED <<row, approvals, crashes>>
     \/ /\ ~NameTaken(loop.tenant, loop.name, host[loop.id])
        /\ approvals' = approvals + 1
        /\ row' = [row EXCEPT ![<<loop.tenant, loop.id>>] =
                     ApprovedRow(loop.name)]
        /\ loop' = [pc |-> "clean", tenant |-> loop.tenant, id |-> loop.id]
  /\ UNCHANGED <<pending, beatVars, crashes>>

\* Variant: the spoke's pending file under another id is left.
CleanOwnId ==
  /\ loop.pc = "clean"
  /\ pending' = [pending EXCEPT ![loop.id] = Absent]
  /\ loop' = Idle
  /\ UNCHANGED <<row, beatVars, approvals, crashes>>

\* A pending file of the hostname and one of the id are removed.
CleanPending ==
  /\ loop.pc = "clean"
  /\ \E stale \in IF PendingOf(host[loop.id]) = {} THEN {loop.id}
                  ELSE PendingOf(host[loop.id]) :
       pending' = [pending EXCEPT ![stale] = Absent, ![loop.id] = Absent]
  /\ loop' = Idle
  /\ UNCHANGED <<row, beatVars, approvals, crashes>>

\* The registration waits for an approval: a known one moves to the id the
\* spoke asks for and is brought up to date, a new one is written.  A known one
\* may have other changes than the name and the hint.
SavePending ==
  /\ loop.pc = "pend"
  /\ LET old == loop.old
         hint == IF loop.hint # NoTenant \/ old = Absent THEN loop.hint
                 ELSE old.hint
         moved == IF loop.found \in Id \ {loop.id} /\ pending[loop.found] # Absent
                  THEN [pending EXCEPT ![loop.id] = pending[loop.found],
                                       ![loop.found] = Absent]
                  ELSE pending
         taken == /\ hint # NoTenant
                  /\ NameTaken(hint, loop.name, host[loop.id])
         new == [name |-> loop.name, hint |-> hint] IN
     \/ /\ taken \/ new = old
        /\ pending' = moved
     \/ /\ ~taken
        /\ pending' = [moved EXCEPT ![loop.id] = new]
  /\ loop' = Idle
  /\ UNCHANGED <<row, beatVars, approvals, crashes>>

-----------------------------------------------------------------------------
(* approve_pending_spoke and tenant_approve_pending_spoke.                 *)

Approve(i, t) ==
  /\ loop.pc = "idle" /\ approvals < MaxApproval
  /\ pending[i] # Absent
  /\ ~NameTaken(t, pending[i].name, host[i])
  /\ loop' = [pc |-> "approve", tenant |-> t, id |-> i,
              name |-> pending[i].name]
  /\ UNCHANGED <<row, pending, beatVars, approvals, crashes>>

SaveApproved ==
  /\ loop.pc = "approve"
  /\ approvals' = approvals + 1
  /\ row' = [row EXCEPT ![<<loop.tenant, loop.id>>] =
               ApprovedRow(loop.name)]
  /\ loop' = [pc |-> "unlink", tenant |-> loop.tenant, id |-> loop.id]
  /\ UNCHANGED <<pending, beatVars, crashes>>

DeleteApproved ==
  /\ loop.pc = "unlink"
  /\ pending' = [pending EXCEPT ![loop.id] = Absent]
  /\ loop' = Idle
  /\ UNCHANGED <<row, beatVars, approvals, crashes>>

-----------------------------------------------------------------------------
(* Threads.                                                                *)

RejectPending(i) ==
  /\ pending[i] # Absent
  /\ pending' = [pending EXCEPT ![i] = Absent]
  /\ UNCHANGED <<row, loop, beatVars, approvals, crashes>>

\* Variant: the spoke would have to be approved again.
RevokeToPending(at) ==
  /\ IsApproved(at)
  /\ row' = [row EXCEPT ![at].status = "pending"]
  /\ UNCHANGED <<pending, loop, beatVars, approvals, crashes>>

RevokeSpoke(at) ==
  /\ IsApproved(at)
  /\ row' = [row EXCEPT ![at].status = "revoked"]
  /\ UNCHANGED <<pending, loop, beatVars, approvals, crashes>>

DeleteSpoke(at) ==
  /\ row[at] # Absent
  /\ row' = [row EXCEPT ![at] = Absent]
  /\ UNCHANGED <<pending, loop, beatVars, approvals, crashes>>

-----------------------------------------------------------------------------
(* Heartbeats.                                                             *)

\* _auth_spoke reads an approved row, on the event loop: for one heartbeat over
\* HTTP, for all heartbeats of its connection over the WebSocket.
BeginHeartbeat(at) ==
  /\ beat = Absent /\ beats + crashes < MaxTrouble
  /\ loop.pc = "idle" /\ IsApproved(at)
  /\ beat' = at
  /\ UNCHANGED <<row, pending, loop, overtaken, beats, approvals, crashes>>

\* _apply_spoke_telemetry saves the copy with what the heartbeat reports, from
\* a thread: an approved row, under a name that nobody looked up.
SaveHeartbeat(name) ==
  /\ beat # Absent /\ beats + crashes < MaxTrouble
  /\ row' = [row EXCEPT ![beat] = [status |-> "approved", name |-> name,
                                   checked |-> FALSE]]
  /\ overtaken' = (overtaken \/ ~IsApproved(beat))
  /\ beats' = beats + 1
  /\ beat' = IF beats' + crashes < MaxTrouble THEN beat ELSE Absent
  /\ UNCHANGED <<pending, loop, approvals, crashes>>

EndHeartbeat ==
  /\ beat # Absent /\ beat' = Absent
  /\ UNCHANGED <<row, pending, loop, overtaken, beats, approvals, crashes>>

\* The process dies and is started again.
Crash ==
  /\ beats + crashes < MaxTrouble
  /\ crashes' = crashes + 1
  /\ loop' = Idle /\ beat' = Absent
  /\ UNCHANGED <<row, pending, overtaken, beats, approvals>>

Next ==
  \/ \E h \in Host, asked \in Id \cup {NoId}, name \in Name,
        hint \in Tenant \cup {NoTenant}, brings \in {"same", "news", "oldKey"},
        psk \in BOOLEAN :
       Register(h, asked, name, hint, brings, psk)
  \/ RekeySpoke
  \/ SaveRegistered
  \/ AutoApprove
  \/ CleanPending
  \/ SavePending
  \/ \E i \in Id, t \in Tenant : Approve(i, t)
  \/ SaveApproved
  \/ DeleteApproved
  \/ \E i \in Id : RejectPending(i)
  \/ \E at \in Tenant \X Id : \/ RevokeSpoke(at)
                              \/ DeleteSpoke(at)
                              \/ BeginHeartbeat(at)
  \/ \E name \in Name : SaveHeartbeat(name)
  \/ EndHeartbeat
  \/ Crash

Spec == Init /\ [][Next]_vars

-----------------------------------------------------------------------------
(* Properties.                                                             *)

Records(h) == ByHost(h) \cup {<<NoTenant, i>> : i \in PendingOf(h)}

\* Outside an approval a spoke has one record, an approved row of one tenant
\* or a pending registration, if the process has not died in an approval and
\* no heartbeat saved a row that was revoked, deleted or moved meanwhile.
OneRecord ==
  crashes = 0 /\ ~overtaken /\ loop.pc \notin {"clean", "unlink"} =>
    \A h \in Host : \A r, s \in Records(h) : r = s

\* The names in use in a tenant that were looked up when they were written,
\* each with its spoke.
Claims(t) ==
  {<<row[<<t, i>>].name, host[i]>> :
     i \in {j \in Id : IsApproved(<<t, j>>) /\ row[<<t, j>>].checked}}
  \cup {<<pending[i].name, host[i]>> :
          i \in {j \in Id : pending[j] # Absent /\ pending[j].hint = t}}

\* Two spokes that are approved into a tenant, or registered for it, have
\* different names, even if the process dies in an approval; only a name that
\* a heartbeat wrote, which nothing checks, may be another spoke's as well.
NamesDistinct ==
  \A t \in Tenant : \A c, d \in Claims(t) : c[1] = d[1] => c[2] = d[2]

\* Spokes are approved into exactly one tenant (README.md).
OneTenant == \A i \in Id : \A r, s \in ById(i) : r = s

=============================================================================
