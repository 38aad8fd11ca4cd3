----------------------------- MODULE ConfigSync -----------------------------
(***************************************************************************)
(* Configuration versions of one approved spoke: how a change of the       *)
(* tenant's desired configuration reaches it.  An edit saves the tenant,   *)
(* bumps config_version and queues a config_update (routers/superadmin.py, *)
(* routers/settings.py); each heartbeat compares the pushed hash with the  *)
(* desired one and bumps the version if they differ                        *)
(* (_apply_spoke_telemetry, check_and_fix_config_drift); an ack raises     *)
(* applied_config_version.                                                 *)
(*                                                                         *)
(* One worker: a store call is atomic; the event loop runs one coroutine   *)
(* up to its next await; run_in_executor, to_thread and the endpoints that *)
(* are plain functions run in threads beside it.  The queue of the module  *)
(* CommandQueue is reduced to the rows with config commands, and its two   *)
(* ways out to Deliver.                                                    *)
(*                                                                         *)
(* The tenant's payload is one configuration or None, when every value of  *)
(* it is null; the USB lists, which the hash covers even then, are         *)
(* constant.  The spoke is external: it handles commands in the order it   *)
(* receives them.                                                          *)
(***************************************************************************)
EXTENDS Naturals, Sequences, SequencesExt, FiniteSets

CONSTANTS
  Cfg,        \* configurations an administrator may choose
  None,       \* no configuration: hub management is off
  First,      \* the tenant's configuration when the spoke is approved
  NoHash,     \* last_pushed_config_hash before any push
  Transport,  \* "http": telemetry and inbox polls; "ws": the WebSocket only
  Edits,      \* what administrators do: subset of {"enable", "disable"}
  Paths,      \* through what: subset of {"superadmin", "settings"}
  Reports,    \* heartbeats: subset of {"same", "renamed"}
  Configured, \* whether the row was approved with a seed configuration
  Faults,     \* what may go wrong: subset of FaultKinds
  MaxEdit,    \* bound: edits
  MaxCmd,     \* bound: config commands in the queue's file at once
  MaxFault    \* bound: failed, lost, outlived or interrupted steps

FaultKinds == {"failed", "lost", "expired", "restart"}

ASSUME ConfigAssumption ==
  /\ None \notin Cfg
  /\ First \in Cfg \cup {None}
  /\ NoHash \notin Cfg \cup {None}
  /\ Transport \in {"http", "ws"}
  /\ Edits \subseteq {"enable", "disable"}
  /\ Paths \subseteq {"superadmin", "settings"}
  /\ Reports \subseteq {"same", "renamed"}
  /\ Configured \in BOOLEAN
  /\ Faults \subseteq FaultKinds
  /\ MaxEdit \in Nat /\ MaxCmd \in Nat /\ MaxFault \in Nat

VARIABLES
  tenant,    \* the desired configuration (tenants.json)
  row,       \* the spoke's row in spokes.json
  rows,      \* the config commands of its queue, in file order
  tel,       \* the handler of its heartbeats
  admin,     \* the edit in progress
  marking,   \* version of an ack between ack_command and the row's update
  backlog,   \* commands delivered to the spoke and not yet handled
  answers,   \* acks on their way to the hub
  spokeCfg,  \* the configuration the spoke runs
  edits,     \* number of edits so far
  faults     \* number of faults so far

hub == <<tenant, row, rows>>
spoke == <<backlog, answers, spokeCfg>>
vars == <<hub, tel, admin, marking, spoke, edits, faults>>

Config == Cfg \cup {None}
Row == [cv : Nat, av : Nat, hash : Config \cup {NoHash},
        config : BOOLEAN]
Id == 1 .. MaxCmd
Command == [id : Id, kind : {"update", "clear"}, ver : Nat, cfg : Config,
            status : {"queued", "delivered", "executed"}]

TypeOK ==
  /\ tenant \in Config
  /\ row \in Row
  /\ rows \in Seq(Command) /\ Len(rows) <= MaxCmd
  /\ tel \in [pc : {"idle", "tenant", "modify", "save", "saved", "drift",
                    "drifted", "ensure"},
              obj : Row, tenant : Config]
  /\ admin \in [pc : {"idle", "list", "save", "ensure"},
                path : {"superadmin", "settings"}, obj : Row]
  /\ marking \in Nat
  /\ backlog \in Seq(Id) /\ Len(backlog) <= MaxCmd
  /\ answers \subseteq Id \X BOOLEAN
  /\ spokeCfg \in Config
  /\ edits \in 0 .. MaxEdit
  /\ faults \in 0 .. MaxFault

Approved == [cv |-> 0, av |-> 0, hash |-> NoHash, config |-> Configured]

NoEdit == [pc |-> "idle", path |-> "superadmin", obj |-> Approved]

\* What a heartbeat's handler keeps when it needs its copies no more: the
\* WebSocket's handler keeps the row it works on.
At(pc, obj) == [pc |-> pc, tenant |-> None,
                obj |-> IF Transport = "http" THEN Approved ELSE obj]

Init ==
  /\ tenant = First
  /\ row = Approved
  /\ rows = <<>>
  /\ tel = At("idle", Approved)
  /\ admin = NoEdit
  /\ marking = 0
  /\ backlog = <<>>
  /\ answers = {}
  /\ spokeCfg = None
  /\ edits = 0
  /\ faults = 0

-----------------------------------------------------------------------------
(* The store's operations on the row and the queue.                        *)

InQueue(kind, ver, statuses) ==
  \E i \in DOMAIN rows : /\ rows[i].kind = kind
                         /\ rows[i].ver = ver
                         /\ rows[i].status \in statuses

\* Ids are new; one whose row has gone may stand for a new one.
FreeIds == Id \ {rows[i].id : i \in DOMAIN rows}

Queue(kind, ver, cfg) ==
  /\ FreeIds # {}
  /\ rows' = Append(rows, [id |-> CHOOSE id \in FreeIds : TRUE, kind |-> kind,
                           ver |-> ver, cfg |-> cfg, status |-> "queued"])

\* Variant: any update on its way will do.
NeedsAnyUpdate ==
  /\ row.cv > row.av
  /\ \A i \in DOMAIN rows : rows[i].kind # "update"

\* A row that was executed counts as sent for this version.
NeedsUpdate ==
  /\ row.cv > row.av
  /\ ~InQueue("update", row.cv, {"queued", "delivered", "executed"})

EnsureConfigUpdate ==
  \/ /\ NeedsUpdate
     /\ Queue("update", row.cv, tenant)
     /\ row' = [row EXCEPT !.hash = tenant]
  \/ /\ ~NeedsUpdate
     /\ UNCHANGED <<rows, row>>

\* Variant: a pending update counts as well.
EnsureAnyPending ==
  \/ /\ \A i \in DOMAIN rows : rows[i].status = "executed"
     /\ Queue("clear", 0, None)
  \/ /\ \E i \in DOMAIN rows : rows[i].status # "executed"
     /\ UNCHANGED rows

EnsureConfigClear ==
  \/ /\ ~InQueue("clear", 0, {"queued", "delivered"})
     /\ Queue("clear", 0, None)
  \/ /\ InQueue("clear", 0, {"queued", "delivered"})
     /\ UNCHANGED rows

\* The event loop is inside a coroutine that does not await.
LoopBusy ==
  \/ marking # 0
  \/ admin.pc # "idle" /\ admin.path = "superadmin"

-----------------------------------------------------------------------------
(* Edits by administrators.                                                *)

\* update_tenant_hub_config saves the tenant; so do the settings endpoints,
\* which only ever set a configuration.
EditTenant(path, cfg) ==
  /\ admin.pc = "idle" /\ edits < MaxEdit
  /\ path = "superadmin" => ~LoopBusy
  /\ path = "settings" => cfg # None
  /\ tenant' = cfg
  /\ admin' = [admin EXCEPT !.pc = "list", !.path = path]
  /\ edits' = edits + 1
  /\ UNCHANGED <<row, rows, tel, marking, spoke, faults>>

\* Variant: each edit starts the versions again.
ListSpokeRestarts ==
  /\ admin.pc = "list"
  /\ admin' = [admin EXCEPT !.pc = "save", !.obj = [row EXCEPT !.cv = 1]]
  /\ UNCHANGED <<hub, tel, marking, spoke, edits, faults>>

\* The endpoint lists the spokes and changes its copy of the row.  With no
\* configuration a row at version 0 is left alone.
ListSpoke ==
  /\ admin.pc = "list"
  /\ \/ /\ tenant # None
        /\ admin' = [admin EXCEPT !.pc = "save",
                                  !.obj = [row EXCEPT !.cv = @ + 1]]
     \/ /\ tenant = None /\ row.cv > 0
        /\ admin' = [admin EXCEPT !.pc = "save",
                                  !.obj = [row EXCEPT !.cv = 0, !.av = 0]]
     \/ /\ tenant = None /\ row.cv = 0
        /\ admin' = NoEdit
  /\ UNCHANGED <<hub, tel, marking, spoke, edits, faults>>

\* save_spoke writes the whole copy over the row.
SaveListed ==
  /\ admin.pc = "save"
  /\ row' = admin.obj
  /\ admin' = [admin EXCEPT !.pc = "ensure", !.obj = Approved]
  /\ UNCHANGED <<tenant, rows, tel, marking, spoke, edits, faults>>

PushListed ==
  /\ admin.pc = "ensure"
  /\ \/ tenant # None /\ EnsureConfigUpdate
     \/ tenant = None /\ EnsureConfigClear /\ UNCHANGED row
  /\ admin' = NoEdit
  /\ UNCHANGED <<tenant, tel, marking, spoke, edits, faults>>

-----------------------------------------------------------------------------
(* Heartbeats.  Their store calls run in threads; from one to the next the *)
(* coroutine needs the event loop.                                         *)

\* Over HTTP each heartbeat reads the row; a WebSocket's handler works on
\* the object it read when the connection was opened.
StartTelemetry ==
  /\ tel.pc = "idle" /\ ~LoopBusy
  /\ tel' = [tel EXCEPT !.pc = "tenant",
                        !.obj = IF Transport = "http" THEN row ELSE @]
  /\ UNCHANGED <<hub, admin, marking, spoke, edits, faults>>

\* The spoke opens a new WebSocket: _auth_spoke reads the row.
Connect ==
  /\ Transport = "ws"
  /\ tel.pc = "idle" /\ ~LoopBusy
  /\ tel' = [tel EXCEPT !.obj = row]
  /\ UNCHANGED <<hub, admin, marking, spoke, edits, faults>>

ReadTenant ==
  /\ tel.pc = "tenant"
  /\ tel' = [tel EXCEPT !.pc = "modify", !.tenant = tenant]
  /\ UNCHANGED <<hub, admin, marking, spoke, edits, faults>>

\* A first configuration (heartbeats carry one) starts the versions; a tenant
\* with nothing to push resets them and clears the spoke.
ModifyRow(report) ==
  LET seeds == ~tel.obj.config
      clears == tel.obj.cv > 0 /\ tel.tenant = None
      changed == report = "renamed" \/ seeds \/ clears
      seeded == IF seeds
                THEN [tel.obj EXCEPT !.config = TRUE, !.cv = 1, !.av = 0]
                ELSE tel.obj
  IN /\ tel.pc = "modify" /\ ~LoopBusy
     /\ tel' = IF changed
               THEN [pc |-> "save", tenant |-> None,
                     obj |-> IF clears THEN [seeded EXCEPT !.cv = 0, !.av = 0]
                             ELSE seeded]
               ELSE At("saved", tel.obj)
     /\ \/ clears /\ EnsureConfigClear
        \/ ~clears /\ UNCHANGED rows
     /\ UNCHANGED <<tenant, row, admin, marking, spoke, edits, faults>>

SaveRow ==
  /\ tel.pc = "save"
  /\ row' = tel.obj
  /\ tel' = At("saved", tel.obj)
  /\ UNCHANGED <<tenant, rows, admin, marking, spoke, edits, faults>>

\* The coroutine goes on to the drift check, or to the push that it asked for.
Resume ==
  /\ tel.pc \in {"saved", "drifted"} /\ ~LoopBusy
  /\ tel' = At(IF tel.pc = "saved" THEN "drift" ELSE "ensure", tel.obj)
  /\ UNCHANGED <<hub, admin, marking, spoke, edits, faults>>

Drifted == row.cv <= row.av /\ row.hash # tenant

CheckDrift ==
  /\ tel.pc = "drift"
  /\ \/ /\ Drifted
        /\ row' = [row EXCEPT !.cv = row.av + 1]
        /\ tel' = At("drifted", tel.obj)
     \/ /\ ~Drifted
        /\ tel' = At("idle", tel.obj)
        /\ UNCHANGED row
  /\ UNCHANGED <<tenant, rows, admin, marking, spoke, edits, faults>>

PushDrifted ==
  /\ tel.pc = "ensure"
  /\ EnsureConfigUpdate
  /\ tel' = At("idle", tel.obj)
  /\ UNCHANGED <<tenant, admin, marking, spoke, edits, faults>>

-----------------------------------------------------------------------------
(* The queue's way out and the spoke's answers.                            *)

\* Variant: the inbox returns what is queued and no more.
PollInboxOnly == Transport = "http" /\ UNCHANGED vars

\* _get_spoke_inbox first ensures the update; a thread of its own.
PollInbox ==
  /\ Transport = "http"
  /\ EnsureConfigUpdate
  /\ UNCHANGED <<tenant, tel, admin, marking, spoke, edits, faults>>

\* Their places in the file, and their ids in its order.
Queued == {i \in DOMAIN rows : rows[i].status = "queued"}

QueuedIds ==
  LET before(i) == {j \in Queued : j < i}
  IN [k \in 1 .. Cardinality(Queued) |->
        rows[CHOOSE i \in Queued : Cardinality(before(i)) = k - 1].id]

Marked(before, ids, after) ==
  [i \in DOMAIN rows |->
     IF rows[i].status = before /\ rows[i].id \in ids
     THEN [rows[i] EXCEPT !.status = after] ELSE rows[i]]

\* Variant: every row of the file is sent, whatever its status.
DeliverEveryRow ==
  /\ rows # <<>>
  /\ rows' = Marked("queued", Id, "delivered")
  /\ backlog' = backlog \o [i \in DOMAIN rows |-> rows[i].id]
  /\ UNCHANGED <<tenant, row, tel, admin, marking, answers, spokeCfg, edits,
                 faults>>

\* Variant: the newest row first, as list_commands orders them.
DeliverNewestFirst ==
  /\ QueuedIds # <<>>
  /\ rows' = Marked("queued", Id, "delivered")
  /\ backlog' = backlog \o Reverse(QueuedIds)
  /\ UNCHANGED <<tenant, row, tel, admin, marking, answers, spokeCfg, edits,
                 faults>>

Deliver ==
  /\ QueuedIds # <<>>
  /\ rows' = Marked("queued", Id, "delivered")
  /\ backlog' = backlog \o QueuedIds
  /\ UNCHANGED <<tenant, row, tel, admin, marking, answers, spokeCfg, edits,
                 faults>>

RowOf(id) == CHOOSE r \in ToSet(rows) : r.id = id

\* An update without values changes nothing on the spoke.
Applied(c) == IF c.kind = "clear" THEN None
              ELSE IF c.cfg = None THEN spokeCfg ELSE c.cfg

SpokeApplies ==
  /\ backlog # <<>>
  /\ spokeCfg' = Applied(RowOf(Head(backlog)))
  /\ answers' = answers \cup {<<Head(backlog), TRUE>>}
  /\ backlog' = Tail(backlog)
  /\ UNCHANGED <<hub, tel, admin, marking, edits, faults>>

\* The spoke reports {"success": false}.
SpokeFails ==
  /\ backlog # <<>> /\ "failed" \in Faults /\ faults < MaxFault
  /\ answers' = answers \cup {<<Head(backlog), FALSE>>}
  /\ backlog' = Tail(backlog)
  /\ faults' = faults + 1
  /\ UNCHANGED <<hub, tel, admin, marking, spokeCfg, edits>>

\* A command or its ack never arrives.
Lose ==
  /\ "lost" \in Faults /\ faults < MaxFault
  /\ \/ backlog # <<>> /\ backlog' = Tail(backlog) /\ UNCHANGED answers
     \/ /\ \E a \in answers : answers' = answers \ {a}
        /\ UNCHANGED backlog
  /\ faults' = faults + 1
  /\ UNCHANGED <<hub, tel, admin, marking, spokeCfg, edits>>

\* ack_command; a successful update goes on to mark_spoke_config_applied.
HandleAck(id, success) ==
  /\ <<id, success>> \in answers /\ ~LoopBusy
  /\ answers' = answers \ {<<id, success>>}
  /\ rows' = Marked("delivered", {id}, "executed")
  /\ marking' = IF RowOf(id).kind = "update" /\ success
                THEN RowOf(id).ver ELSE 0
  /\ UNCHANGED <<tenant, row, tel, admin, backlog, spokeCfg, edits, faults>>

MarkConfigApplied ==
  /\ marking # 0
  /\ row' = [row EXCEPT !.av = IF marking > @ THEN marking ELSE @]
  /\ marking' = 0
  /\ UNCHANGED <<tenant, rows, tel, admin, spoke, edits, faults>>

\* A row's day is over and the maintenance loop removes it.  Rows on their
\* way and acks under way are far younger, and so are queued ones, unless the
\* spoke stays away (ExpireQueued).  Its id is then free to stand for
\* another command.
Expire(id) ==
  /\ \E i \in DOMAIN rows :
       /\ rows[i].id = id
       /\ \/ /\ rows[i].status = "executed"
             /\ rows[i].kind = "clear" \/ rows[i].ver # marking
          \/ /\ rows[i].status = "delivered"
             /\ id \notin ToSet(backlog)
             /\ answers \cap ({id} \X BOOLEAN) = {}
       /\ rows' = RemoveAt(rows, i)
  /\ UNCHANGED <<tenant, row, tel, admin, marking, spoke, edits, faults>>

\* The spoke stays away for longer than a command lives: the maintenance loop
\* removes a row that was never delivered.
ExpireQueued(id) ==
  /\ "expired" \in Faults /\ faults < MaxFault
  /\ \E i \in DOMAIN rows : /\ rows[i].id = id /\ rows[i].status = "queued"
                            /\ rows' = RemoveAt(rows, i)
  /\ faults' = faults + 1
  /\ UNCHANGED <<tenant, row, tel, admin, marking, spoke, edits>>

\* The process dies and is started again: handlers end where they stand.
Restart ==
  /\ "restart" \in Faults /\ faults < MaxFault
  /\ tel' = At("idle", row)
  /\ admin' = NoEdit
  /\ marking' = 0
  /\ faults' = faults + 1
  /\ UNCHANGED <<hub, spoke, edits>>

Chosen == (IF "enable" \in Edits THEN Cfg ELSE {})
           \cup (IF "disable" \in Edits THEN {None} ELSE {})

Next ==
  \/ \E path \in Paths, cfg \in Chosen : EditTenant(path, cfg)
  \/ ListSpoke
  \/ SaveListed
  \/ PushListed
  \/ StartTelemetry
  \/ Connect
  \/ ReadTenant
  \/ \E report \in Reports : ModifyRow(report)
  \/ SaveRow
  \/ Resume
  \/ CheckDrift
  \/ PushDrifted
  \/ PollInbox
  \/ Deliver
  \/ SpokeApplies
  \/ SpokeFails
  \/ Lose
  \/ \E id \in Id, success \in BOOLEAN : HandleAck(id, success)
  \/ MarkConfigApplied
  \/ \E id \in Id : Expire(id) \/ ExpireQueued(id)
  \/ Restart

Spec == Init /\ [][Next]_vars

\* Handlers go on, the spoke keeps sending heartbeats, polling and answering,
\* and the maintenance loop runs; faults and edits are not forced.
Fairness ==
  /\ WF_vars(ListSpoke) /\ WF_vars(SaveListed) /\ WF_vars(PushListed)
  /\ WF_vars(StartTelemetry) /\ WF_vars(ReadTenant)
  /\ WF_vars(\E report \in Reports : ModifyRow(report))
  /\ WF_vars(SaveRow) /\ WF_vars(Resume)
  /\ WF_vars(CheckDrift) /\ WF_vars(PushDrifted)
  /\ WF_vars(PollInbox) /\ WF_vars(Deliver) /\ WF_vars(SpokeApplies)
  /\ WF_vars(\E id \in Id, success \in BOOLEAN : HandleAck(id, success))
  /\ WF_vars(MarkConfigApplied)
  /\ \A id \in Id : WF_vars(Expire(id))

FairSpec == Spec /\ Fairness

-----------------------------------------------------------------------------
(* Properties.                                                             *)

Quiet ==
  admin.pc = "idle" /\ tel.pc \notin {"save", "drifted", "ensure"} /\ marking = 0

\* While the hub waits for a version to be applied, and no handler is about
\* to change that, an update of that version is on its way, as long as no
\* command was lost, failed or outlived its day in the queue: the promise the
\* drift check relies on when it leaves a pending spoke alone.  (After the
\* first of these it is broken, and over the WebSocket nothing mends it.)
PendingIsInFlight ==
  faults = 0 /\ Quiet /\ row.cv > row.av
    => InQueue("update", row.cv, {"queued", "delivered"})

\* The hub never believes that a version was applied that it has not issued.
AppliedNotAhead == admin.pc = "idle" => row.av <= row.cv

\* When the hub takes a managed spoke to be in sync, the spoke runs what the
\* tenant wants: versions and hash together never hide a missing update, not
\* even when updates or acks are lost, the spoke fails or stays away for a day.
InSyncIsApplied ==
  Quiet /\ tenant # None /\ row.cv = row.av /\ row.hash = tenant
    => spokeCfg = tenant

\* A configuration that stays reaches the spoke and stays there.
Settled(cfg) == tenant = cfg /\ admin.pc = "idle"
Converges == \A cfg \in Cfg : <>[]Settled(cfg) => <>[](spokeCfg = cfg)

\* A spoke whose tenant stops managing it is cleared for good, if no command
\* and no step is lost.
Clears == <>[](Settled(None) /\ faults = 0) => <>[](spokeCfg = None)
=============================================================================
