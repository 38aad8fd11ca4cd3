# webui-hub: specifications

TLA+ models of the hub (`src/app`), the TLC runs that check them on small instances, and TLAPS
proofs of theorems about them for every value of the constants.

The hub is a FastAPI program that manages *spokes* (simulation hosts) of several *tenants*. It
keeps its state in JSON files, talks to each spoke over a relay WebSocket or over HTTP, and runs
in one gunicorn worker (`src/start.sh:42-49`): one event loop with coroutines, a thread pool for
the endpoints that are plain functions and for `run_in_executor`, and a dozen background tasks.

Contents: 1 inventory, 2 modules, 3 runs, 4 bounds and fairness, 5 proofs, 6 where the code and
its docs disagree, 7 what is left out, 8 plan.

## 1. Inventory

### Components, their state and operations

| component | state | operations | modelled by |
|---|---|---|---|
| Command queue (`store.py:1420-1580`) | one JSON file per spoke: rows *queued, delivered, executed* with an expiry | enqueue, peek, mark delivered, take (inbox), ack, clear, purge | `CommandQueue`, `CommandLifecycle`, `QueueWorkers` |
| Spoke WebSocket (`ws.py`, `routers/spokes.py:1300-1390`) | `spoke_connections`, one send lock per spoke | register, unregister, push queued commands, send | `SpokeLink` (sockets and locks), `CommandQueue` (the commands), `RelaySessions` (questions and answers) |
| Configuration sync (`store.py:979-1260`, `spokes.py:330-420`, `superadmin.py:520-620`, `settings.py`) | the tenant's desired configuration; per spoke `config_version`, `applied_config_version`, `last_pushed_config_hash` | edit, drift check, ensure update, ensure clear, ack; the USB lists | `ConfigSync`, `UsbLists` |
| Registration and approval (`spokes.py:439-690`, `superadmin.py:780-970`, `store.py:445-750, 1357-1420`) | `pending/*.json`, the approved rows of each tenant | register, PSK approval, manual approval, reject, revoke, delete, rekey | `SpokeRegistry` |
| Reseed and backup jobs (`backups.py`, `spokes.py:38-100`) | `backup_jobs`, in memory | trigger, dispatch, report, delayed retry | `ReseedJob` |
| Store start-up (`store.py:1600-1863`) | every file and its `.bak` copy | copy, restore, migrate, bootstrap | `HubStart` |
| Hub update (`superadmin.py`, `main.py:66-160`, `spokes.py:960-1110`) | update state in memory, `.last_hub_version`, `_update_jobs` | self-update thread, update commands after an upgrade, update of all spokes | `HubStart`, `FleetUpdate` |
| Maintenance loops (`tasks.py`) | last-seen states, timers, schedules | heartbeat monitor, state engine, auto recovery, schedules, purge | `FleetTimers`, `FleetWatch` |
| Console, shell and log relays (`console.py`, `ws.py`, `spokes.py`) | sessions, queues by request id | open, route, time out, close | `RelaySessions` |
| Aruba Central client, poller, webhook (`aruba.py`, `webhook.py`, `tasks.py:342-935, 1005-1107`) | caches with their lives, `_hub_central_status`, `central_sites_config` | poll, discover, merge, check monitored items | `CentralMonitor`, `CentralBrowse` |
| ACME (`acme.py`) | `acme.json`, the certificate's files, DNS records | request, renew, clean up | `AcmeOrder` |
| Fleet aggregation (`aggregate.py`) | overrides in the tenant, files on GitHub, the Central page | edit, push, refresh; aggregation for display | `ConfOverrides`, `CentralBrowse` (what keeps state) |
| Authentication (`auth.py`, `auth_providers.py`) | users, boot id, tokens | log in, provision | not modelled: one store call each; hashing and external protocols |
| T3 profiles, OUI pool, QA runner, notifications, crypto, TLS, read-only routers, scripts | none that interleaves | | not modelled: I/O and formatting |

### How they interact

* Everything that reaches a spoke is a *command*: an edit, an approval, a drift check, a reseed
  or an operator puts a row into the spoke's queue file and, if its WebSocket is up, starts a push.
  The WebSocket handler pushes after each telemetry frame; a spoke without one polls the inbox.
* Acks come back over either transport; the ack of a `config_update` also raises the row's
  `applied_config_version`.
* Telemetry updates the spoke's row (`save_spoke` writes the **whole** row that the handler read
  before) and runs the drift check, which may issue a new configuration version.
* Registration and approval create the rows; a *rekey* moves a row, and then its queue file, to a new id.
  Heartbeats write the spoke's name, unchecked.
* The background tasks queue commands as well: recovery, schedules, the updates after an upgrade,
  notifications that a spoke sends itself.
* Poller, webhook and requests share a tenant's `central_sites_config` and `_hub_central_status`;
  page refreshes share the caches of one Central account.
* A reseed job sends its command over the WebSocket or queues it; the spoke's reports change the job.

### Behaviours that are hard

* *Interleaving.* `store` calls are atomic under one process-wide lock, sequences of them are
  not; coroutines interleave at their awaits and threads between any two calls. Rows are read,
  changed and saved back whole.
* *Crashes.* Files are rewritten in place (truncate, then write), and one operation may change
  several files.
* *Two transports*, both taking from one queue; late and repeated acks; sockets that die unnoticed.
* *Version numbers* that are compared, raised from copies and reset.
* *Timers*: rows that expire after 1 or 24 hours, retries 5, 15 and 30 minutes after an error, loops
  that drift against the clock, caches that outlive each other.
* *Other systems*: GitHub, Aruba Central, ten DNS providers and a mounted share, each of which may
  fail or act without an answer.

### What makes each part correct

* *Queue*: a row is marked only for what was sent; statuses never go back; first sends are in
  order; nobody's write undoes another's; what is queued is served while the spoke is connected.
* *Configuration*: a version that is pending is under way; a spoke that counts as in sync runs what
  the tenant wants; a configuration that stays arrives.
* *Registry*: a spoke has one record, in one tenant; names are unique in a tenant.
* *Reseed*: the job's status agrees with its spokes; no attempt is sent twice; no spoke is
  forgotten; the job ends.
* *Start*: a spoke is told once of a new version; a file and its copy are never both without rows.
* *Loops*: rows for a silent spoke stay bounded; a schedule fires once; for a silence a notification
  is tried to its end.
* *Sockets and sessions*: the newest socket is the registered one; every send ends; no console stays
  open at a spoke that the hub is done with; no browser is left with a shell that has ended.
* *Central*: an event is not lost by a poll; a page is as fresh as its date says.
* *Certificates*: no challenge record stays. *Overrides*: a commit changes what was asked.
* *Update of all spokes*: a job that completes has passed over nobody.

`PROJECT.json` lists the hazards of the code, each at its line, with the properties that cover it
or the reason why none does.

## 2. Modules

### CommandLifecycle and CommandQueue (the core)

`CommandLifecycle` is the promise: a command is *new*, then *queued*, *delivered*, *executed* and
*gone*, skipping stages but never going back, and with only one way out of the queue.

`CommandQueue` is one spoke's queue with its transports. `status` is the queue file,
commands are numbered in the order of their creation, which is the order of the file.

| action | code |
|---|---|
| `EnqueueCommand`, `PurgeExpiredCommands`, `ClearCommandQueue` | the store functions of these names |
| `PushPeek`, `PushSend` / `PushFails`, `PushMark` | `ws.push_spoke_commands` up to its `send_json`, the send, and what follows; between them everything else may happen |
| `RegisterSpoke`, `HandlerServes`, `UnregisterSpoke` | the WebSocket handler of `routers/spokes.py`: the registration; the return of its first push, with which its `try` begins; its `finally` |
| `StoreFails` | the store raises in a push: in the first one of a handler, the handler ends and leaves its socket registered (`"failed"`) |
| `SocketDrops` | the network |
| `GetInbox`, `LoseResponse` | `get_inbox`, which marks before the response leaves |
| `AckCommand` | `ack_command`, for any command the spoke has received, at any time and again |
| `Expire` | the clock passes `expires_at`; in any order, as TTLs differ |
| `Crash`, `CrashInWrite` | the process stops; in `_write_json` after the truncation the queue is lost |

`Active` is the filter of expired rows that every rewrite but the ack's applies. The history
variables `sent` and `received` serve the properties. A send under the send lock is one step.

### QueueWorkers

The level below: each queue operation is *lock, (flock), read, truncate, fill, unlock*, made by a
thread of a worker. `worker` maps threads to processes, so the same module describes one worker
with several threads and two workers. With one, it implements `CommandLifecycle` too (`FileKeepsLifecycle`):
each write of the file moves what its operation is about and leaves the rest, which is what lets
`CommandQueue` make one step of each operation.

### ConfigSync

One approved spoke. `row` is its entry in `spokes.json`, `rows` the config commands in its queue.
`admin` is the edit in progress (list the spokes, save each with a new version, push), `tel` the
heartbeat handler (read the row; read the tenant; change; save; drift check; push), `marking` the ack
between its two store calls. The handler's store calls run in threads, but from one to the next it needs the
event loop (`Resume`), which a superadmin edit keeps to its end: a drift check may fall into an edit, the
push that it asks for may not. `EditTenant` covers both the superadmin endpoint, which runs on the
event loop, and the settings endpoint, which runs in a thread. `Drifted` and `NeedsUpdate` are the
early returns of `check_and_fix_config_drift` and `ensure_config_update_command`. `Expire` removes rows that were
delivered or executed, `ExpireQueued` those of a spoke that stays away for the life of a command.

Abstractions: the tenant's payload is one value, or `None` if every field is null; the USB lists in
the hash are constant; a heartbeat carries the configuration always; one edit at a time. The code's ids
are random; here the id of a row that has gone may be used again. Versions have no bound but that of the edits.

### SpokeRegistry

A spoke is its hostname; its ids may change. `loop` is the register or approve coroutine in
progress, between its store calls; revoke, delete, reject and the saves of heartbeats are threads that come in
between.

| action | code |
|---|---|
| `Register` | `register_spoke` up to the lookups: the spoke is approved (`rekey`, then `save`), brings the onboarding key (`auto`, then `clean`), or waits (`pend`) |
| `RekeySpoke`, `SaveRegistered` | `store.rekey_spoke`; the name and key checks and `save_spoke` |
| `AutoApprove`, `CleanPending` | the PSK path: the row, then the removal of pending files |
| `SavePending` | `rekey_pending_spoke`, the name check, `save_pending_spoke` |
| `Approve`, `SaveApproved`, `DeleteApproved` | `approve_pending_spoke` and `tenant_approve_pending_spoke` |
| `RejectPending`, `RevokeSpoke`, `DeleteSpoke` | the endpoints and store functions |
| `BeginHeartbeat`, `SaveHeartbeat`, `EndHeartbeat` | `_auth_spoke` reads a row, which a WebSocket keeps for its life; `_apply_spoke_telemetry` saves it with the name that is reported |
| `Crash` | the process stops between two store calls of a coroutine |

`SaveRegistered` writes back the row that `Register` read, and `SaveHeartbeat` the one that its connection read: a
revocation in between is undone, as it is in the code (`overtaken`). `checked` says of a name that it was looked for
among the others when it was written; a heartbeat's is not. API keys are left out but for the refusal of an older one (`brings = "oldKey"`):
while hostnames do not change, the lookup by key finds no row that the lookup by hostname misses.

### ReseedJob

One reseed job. `todo`, `sending` and `timers` are the coroutines `trigger_reseed` and
`_retry_reseed_after_delay` at their awaits; `queued` and `working` are the attempts in queue files
and at spokes. `HandleReport` is the body that `update_backup_progress` and
`_relay_backup_progress` share. A spoke may report an error and go on with the attempt (the
command's `retry_max`), so late and contradictory reports occur. Counts above the last retry behave
alike and are one value. `limit` is 3 for every spoke in the code; it is a function so that TLC can
take a smaller one for the second spoke. A restart forgets all jobs and is left out.

### HubStart

What happens between two starts: `phase` is the position in `lifespan` and `init_store`, `stored` and
`copy` are `users.json`, `tenants.json` and `spokes.json` with their `.bak` files, each absent, readable
with some rows, blank or torn. Every write may be cut off. `HasRows` are the readable ones; `Keep` goes by the size of
the file, as the code does, and copies a torn one too.

| action | code |
|---|---|
| `Keep` | the rolling backups of `init_store`: copy a file of more than 2 bytes, or restore it |
| `MigrateSpokes`, `EnsureAdmin` | the migration of `spokes.json`; `ensure_admin` |
| `RecordVersion`, `TellSpoke`, `AllTold` | `_trigger_spoke_updates_on_hub_upgrade`: the version first, then the commands |
| `SaveRow`, `DeleteRow`, `LoadTenants` | requests while the hub runs; `_load_tenants` restores a missing file |
| `TriggerSelfUpdate`, `BeginUpdate`, `Pull`, `FailUpdate`, `FinishUpdate`, `Restart` | the endpoint and its thread |
| `Crash`, `Vanish`, `Deploy` | the process stops, the share loses a file, a new image |

### FleetTimers and FleetWatch

`FleetTimers` has time in units. A loop sleeps before each pass, one unit longer when the pass took
long; rows of `auto_recovery` have ages. They live equally long, so the filter by age (`Fresh`) cuts off the
first ones; TLC would report a list where it could not. `FleetWatch` is `heartbeat_monitor` and `check_state_engine`;
the latter goes on with the rows it read (`readOld`) while a message is sent (`announcing`). A message is sent (`told`)
or given up without an error (`unsent`), and both times the transition is recorded; if the store raises, the pass ends
and it is not.

### SpokeLink and RelaySessions

`SpokeLink` is what `CommandQueue` takes as one step: `register_spoke`, `send_to_spoke` with its lock,
`unregister_spoke`, and the handler of each socket. A lock is created anew with a registration, so
older ones may still be held. `RelaySessions` has shells, consoles and questions, which differ in how
they end: `Ask`, `Answered`, `GiveUpWaiting`, `Attach`, `ExpireConsole`, `BrowserLeaves`, `SpokeEnded`.
The channels to and from the spoke are queues that a lost connection empties. Where the code means to send
`shell_exit`, it raises a `NameError` before (section 6), and the model sends nothing.

### CentralMonitor and CentralBrowse

`CentralMonitor` is one tenant's `aruba_poller` at its awaits (`poller`), the webhook, and the requests
that write `central_sites_config` whole; `read` and `form` are the copies they hold. `CentralBrowse` is
the Central page: feeds with their caches (`kept`), refreshes (`reader`) by poller and requests, the page
in memory and on disk. Times are minutes.

### AcmeOrder

`request_certificate` at its awaits, for an administrator and the renewal. One operator per DNS provider
says what a create or a delete does to the records of the challenge name; `CleanUp` is the *finally*.
The configuration that a request read at its start is saved whole at its end.

### ConfOverrides and UsbLists

`ConfOverrides`: the requests that change overrides, each over its copy of the tenant, and the two that
await GitHub; a PUT names the revision it was prepared from. `PushOverrides` ends in the code's
`AttributeError`. `UsbLists`: the platform's list and the tenant's, the endpoint that bumps versions
(`EnsurePush`) and the one that does not (`PushAllQueue`), the spoke, and the drift check.

### FleetUpdate

`update_all_spokes` and `_poll_update_job`: two jobs may run at once, spokes are updated by hand or
deleted meanwhile, and a restart forgets the jobs.

### MC modules

`MCCommandQueue`, `MCQueueWorkers`, `MCConfigSync` and `MCSpokeRegistry` hold the constants that a `.cfg`
cannot express and the symmetry sets. No symmetry is used where liveness is checked.

`MCHubParts` and `MCHubJobs` check several components in one run. They do not interact, so a variable
`component` names the one that a behaviour is about; the others keep their initial state. Each part is
explored as it would be alone, and a property of one holds trivially in the behaviours of the others.
In `MCHubJobs` no action with fairness is enabled in the initial state of a part, so the fairness
of a part that does nothing asks nothing.

## 3. Runs

| run | instance | shows |
|---|---|---|
| `CommandQueueSafety` | 2 commands, 2 connections, 2 pushes, 1 error of the store; 2,670,758 states, 2.5 min | the six invariants, `StatusForward`, and that the queue implements `CommandLifecycle` |
| `QueueTwoWorkers` | 1 thread in each of 2 workers | a violation, see section 6 |
| `ConfigSyncSafety` | 2 enabling edits, WebSocket, 1 command or ack failed, lost or expired; 247,822 states, 5 s | `PendingIsInFlight`, `AppliedNotAhead`, `InSyncIsApplied` |
| `ConfigSyncLive` | 1 edit of any kind and path, renames, 1 fault, HTTP; 998,969 states, 2.5 min | `Converges`, `Clears` |
| `ConfigSyncDisable` | edits that disable, WebSocket | a violation, see section 6 |
| `SpokeRegistrySafety` | 2 spokes (one with 2 ids), 2 tenants, 2 names, 2 approvals, 1 crash or save of a heartbeat; 2,376,669 states, 3 min | `OneRecord`, `NamesDistinct` |
| `SpokeRegistryCrash` | the same | a violation, see section 6 |
| `HubParts` | ten parts, below; 983,930 states, 100 s | the safety of each |
| `HubJobs` | four parts, below; 152,492 states, 3 min | what must end, and the safety of reseeds and sockets |
| `OverridesPushed`, `ItemsPreserved`, `UsbDelivered` | the smallest that show it | violations, see section 6 |

The parts of `HubParts`:

| part | instance | shows |
|---|---|---|
| `QueueWorkers` | 3 threads of one worker, 2 commands | `NoLostCommand`: the process-local lock is enough; `FileKeepsLifecycle`, of which `NoLostStatus` is a part |
| `HubStart` | 1 spoke, 2 versions, 2 update threads, 1 fault | `ToldOnce`: through crashes and restarts no spoke is told twice of a version; `SnapshotSurvives`: a file once copied and its copy are never both without rows, as long as no start finds the file torn (section 6) |
| `FleetTimers` | 1 spoke, a day of 4 minutes | `RecoveryBounded`, `ScheduledOnce`, both with restarts |
| `CentralMonitor` | 1 alert, 1 item, 1 site | `EventsKept`: no poll loses an event of the webhook |
| `AcmeOrder` | 10 providers, 2 overlapping requests, 1 fault | `NoStrayChallenge` |
| `ConfOverrides` | 2 flags, 2 requests, 2 commits | `CommitSwitchesOne`: no commit takes back another |
| `CentralBrowse` | 1 feed kept 2 minutes, 1 if empty; a poller and a viewer, 1 restart | `BrowseDated` |
| `FleetUpdate` | 2 spokes, 1 job, 1 restart | `NobodySkipped` |
| `RelaySessions` | a shell, a console and a question, 1 lost connection | `NoOrphan`: no console stays open at the spoke; `EndIsHeard`: no browser is left with a shell that has ended |
| `UsbLists` | 1 device, 2 edits, 1 push to all | its types; it is there for its actions, its property is `UsbDelivered` |

The parts of `HubJobs`: `CommandQueue` with 1 command (`QueuedIsServed`: a late failure or cleanup of
an old connection does not make the hub forget the new one); `ReseedJob` with 2 spokes, 2 retries and
1, and 1 lost attempt (`JobStatusAgrees`, `AttemptsOnce`, `NoneForgotten`, `Settles`); `FleetWatch` with 2
spokes and 1 fault (`SilenceTried`: an error of the store in a pass does not make the watch forget a silence);
`SpokeLink` with 2 sockets, 2 locks and a request beside their handlers (`LinkSound`: sends under the spoke's lock never
overlap on one socket, and the newest socket that is served is the registered one; `SendsEnd`). What the handler
itself sends, its `send_json` at `spokes.py:1323-1350` and the errors at 1370 and 1374, takes no lock: it may overlap with
those, which is left to the server's own order of frames.

What is not claimed there: a registered socket may be one whose handler an error of the store has ended in its first
push, in `CommandQueue` and in `SpokeLink`; the next send that fails on it, or the next connection, removes it. A silence whose message
Teams or the mail server refuses, or for which nothing is configured, is recorded as announced and not tried again.

What the configuration runs say about each other: `PendingIsInFlight` needs an instance without
disabling (section 6), without renames, and without the settings path. A renamed heartbeat saves a stale row over an ack, and
the settings path saves in a thread that races one; either leaves a pending version without a
command. `Converges` shows that over HTTP this heals: the row of the old command expires and the
next inbox poll queues the version again. Over the WebSocket alone it need not, because only the
inbox does that. `Clears` is claimed only if nothing is lost, because nothing repeats a clear.
`PendingIsInFlight` is claimed as long as there was no fault, and an update that expires in the queue counts as one:
over the WebSocket nothing repairs it (section 6); `InSyncIsApplied` is claimed in spite of failed, lost and expired
commands and lost acks; it does not survive a restart in the middle of an edit, and with two edits and a
restart in the second `Converges` would fail for the same reason (section 6).

Deadlock is checked where the parts never stop by themselves; in `HubParts` and `HubJobs` jobs, sessions,
requests and the bounded clock really end, and it is not.

## 4. Bounds and fairness

Bounds are constants: `MaxCmd`, `MaxConn`, `MaxFail`, `Push`, `MaxEdit`, `MaxFault`, `MaxApproval`, `MaxTrouble`,
`MaxLost`, `MaxVersion`, `MaxRun`, `MaxDrop` and the other names with `Max`. Why they are enough to be interesting:

* *Queue*: two commands are needed for an order, two connections for an old and a new one, two
  pushes for an overlap with the same rows, one error of the store (`MaxFail`) for a handler that ends in its first push;
  everything else (acks, polls, crashes) is unbounded.
* *Workers*: three threads let two interfere with a third; two commands let one be lost behind the other.
* *Configuration*: the second edit meets the first one's update, ack and drift check; three rows hold
  an old update, a new one and a clear.
* *Registry*: the second approval is the one that can contradict the first; the second id is the
  reinstallation of a spoke; the second spoke competes for its name. `MaxTrouble` bounds crashes and saves of heartbeats
  together; any number of both is in the proofs.
* *Reseed*: one spoke goes through two retries with overlapping attempts; the second one keeps the job
  running or has it finish. Any number of retries, and of spokes, is in the proofs.
* *Start*: one fault, as a second one only undoes what the restart after the first has repaired; any number
  of them is in the proofs. A second version is the upgrade; the third would be another.
* *Timers*: a row's life holds three passes of recovery and four of the purge; a minute is two units, so
  that passes drift through it. Other periods are in the proofs.
* *Central*: alerts are kept by their own ids, so one is enough; a poll takes six steps in which the
  event may come.
* *Certificates*: the second request overlaps with the first or follows it.
* *Browse*: three minutes are longer than a cache lives, and a refresh may start in each.
* *Sockets*: the third socket would relate to the second as the second to the first.

Fairness, always weak and only where the scheduler gives it:

* `CommandQueue`: coroutines that can run do run, and a push is started again and again (every
  telemetry frame). Nothing is assumed of the spoke or the network but, in the property itself,
  that the newest connection stays up.
* `ConfigSync`: handlers go on; the spoke keeps sending heartbeats, polling, and answering; the
  maintenance loop removes expired rows. Edits and faults are never forced.
* `FleetWatch` (`WatchFairness`): the pass is repeated, and sending a message ends, because its calls have
  timeouts.
* `SpokeLink` (`LinkFairness`): a send ends unless its buffer is full; the server's pings find a dead socket
  and close it; the lock is strongly fair, as `asyncio.Lock` serves its waiters in turn. No socket need
  ever be opened.
* `ReseedJob`: coroutines and timers run; a spoke fetches what is queued for it and finishes
  what it received. The hub has no timeout of its own, and without this a job runs for ever.

## 5. Proofs

Every theorem is checked by TLAPS from nothing but the named assumptions of the modules and, where
it has one, the hypothesis that it states.

### The core

`CommandQueueProofs`, for any number of commands, connections and pushes:

* `TypeCorrect`, `MarkingFollowsSending`, `ExecutionFollowsReceipt`, `FirstSendsInOrder`,
  `InboxAtMostOnce`: the invariants of the run. They rest on `IInv`, which TLC checks too. What is
  added is that only created rows travel (`NewIsUnnumbered`, `OnlyCreatedMove`), and what a push holds
  between its steps (`BatchesInOrder`: a batch about to be sent leaves out no older row that could
  still be sent first). Without the latter `FirstSendsInOrder` is not inductive: the invariant says
  nothing of a batch in a coroutine's hands.
* `RegistryIsCurrent`: the registered socket is the newest and was not unregistered, also if a handler ends with its
  socket registered. That a handler still reads from it is not said: it would be false.
* `StatusOnlyForward` and `QueueImplementsLifecycle`: each step moves a row forward, and maps to a
  step of `CommandLifecycle` or to none, under `stage <- status`.

`QueueWorkersProofs`, for any threads and commands: `TypeCorrect`, `IInvCorrect`, `NoLostCommandCorrect`,
`NoLostStatusCorrect`, `FileKeepsLifecycleCorrect`. All but the first assume `OneWorker`, the configuration that `start.sh` ships; the run
`QueueTwoWorkers` shows that two workers need more. The invariant: who is between the lock and its release
holds the lock of its process, hence is alone; what it is about to write was computed from the file as it
is (`CopyIsFile`); and an enqueue under way is of commands that nobody else creates (`EnqueueStage`,
`EnqueuesApart`). The refinement maps a command to its row, and to *new* without one. A step that fills
the file is a step of `CommandLifecycle`, because each operation is of one command (`OneCommand`) and its copy is
the file; the return of an enqueue is the step after which the command can be received.

`ConfigSyncProofs`, for any configurations, and any number of edits and commands:

* `TypeCorrect`, for every instance. Commands and acks under way are of rows that wait for them, one for
  each row, and the queued rows are the end of the file (`UnderWay`, `QueuedLast`); otherwise an id used
  again could be under way twice and the backlog would have no bound.
* `AppliedNotAheadCorrect`, `InSyncIsAppliedCorrect`, `PendingIsInFlightCorrect` assume a spoke that is
  `Managed`: its tenant has a configuration and keeps one, the row was approved with one, and heartbeats do
  not rename the spoke. None of the four can be left out: without any one of them a heartbeat or an edit
  saves a row with other versions over a newer one, and in the instance of `ConfigSyncSafety`, changed in this
  alone, TLC finds each of the three properties violated, over either transport. Faults are part of the
  statements: the first theorem holds whatever fails; the second for any number of failed, lost or expired commands and lost
  acks, and no restarts (one is too many, section 6); the third up to the first fault, as a lost
  command, or one that expired in the queue, is pending and not in flight, and a failed one counts as sent. The third also assumes that edits go
  through the superadmin endpoint, on the event loop; the settings path races an ack (section 3).
* The argument. Nothing of a version exists before it is issued (`Issued`), and the copy that an edit
  is about to save is ahead of the row, or equal to what the drift check made of it (`Ahead`). Rows are in the
  order of their versions, in the file and under way (`InOrder`), and the spoke has handled no version above one
  it has still to handle (`DoneFirst`); so a spoke that handled the last one runs what that one says, and that
  is what the tenant wants (`LastIsWanted`). A fault takes commands and answers away and makes none, which
  leaves these as they are. Up to the first fault a delivered command is under way (`NothingLost`), a row is
  executed only by the ack that goes on to raise the applied version (`ExecutedIsApplied`), and a pending version
  is on its way, being applied or about to be pushed (`PendingIsSent`).

`ReseedJobProofs`, for any nonempty set of spokes and any limits of retries: `TypeCorrect`,
`JobStatusCorrect`, `AttemptsOnceCorrect`, `NoneForgottenCorrect`. Their invariant says of each status what it
waits for (`PendingIsSent`, `RunningWorks`, `QueuedIsQueued`, `RetryingSleeps`), that a sleeping
attempt is a fresh one that the count has reached (`RetriesAreFresh`), and that nothing of a spoke
is under way before its first send (`FirstIsPending`). The last one is why the trigger need not
compute the job's status: before and after the send it is *running*. The same module has `WatchTypeCorrect`, the
types of `FleetWatch`.

`SpokeRegistryProofs`, for any spokes, ids, tenants, names, approvals, crashes and heartbeats: `TypeCorrect`,
`NamesDistinctCorrect`, `OneRecordCorrect`, `OneTenantCorrect`. The coroutine in progress has checked a
name some steps before it saves it; that no other spoke can take it meanwhile (`StaysFree`) is what makes
`NamesDistinct` inductive. For `OneRecord`, `Expected` says for each step what the coroutine has found out about its
spoke's records, and that revocations, deletions and rejections can only make it fewer. `OneTenantCorrect` follows
from the same: what an approval has not finished is a pending registration or a row of another id. It is the
promise that `SpokeRegistryCrash` sees broken, and says that only two things can break it: a crash, and a heartbeat that
saves its copy of a row over one that was revoked, deleted or moved meanwhile.

### Around it

`SocketProofs`: `LinkInvCorrect` and `LinkSoundCorrect` for any sockets, locks and senders, `SessionInvCorrect`,
`NoOrphanCorrect` and `EndIsHeardCorrect` for any sessions and losses of the connection. Sends under the spoke's lock use
one lock for each socket, though every registration makes a new one (`OneLockPerSocket`, `RegisteredLock`). A console that a browser was attached to, that the hub is done with, and that is open at
the spoke, is told to end by a message still in the channel (`Ordered`, `CalledOff`); of a shell that is relayed and has
ended at the spoke, the word is still in the channel or in the session's queue (`Heard`).

`HubProofs`, for any spokes, versions, periods, jobs and restarts:

* `StartTypeCorrect`, `ToldOnceCorrect`, `SnapshotSurvivesCorrect`, the latter two for any number of faults. A
  spoke still to be told has not been told of this version, and the version is recorded before the first
  is told (`ToldInv`). Once a start has passed a file that was ever copied, its copy has rows, and only then the file may
  be written again (`SnapInv`). A start that copies a torn file ends the claim for it.
* `TimersTypeCorrect`, `ScheduledOnceCorrect`, `RecoveryBoundedCorrect`. After a schedule has fired, the loop
  sleeps until the next minute, also after a restart, because each loop sleeps before its first pass (`FiredInv`). The
  same makes rows of `auto_recovery` a pass apart (`RowsInv`, `Spaced`); each pass removes what is too old, so the
  bound holds even if `maintenance_loop` never gets to run.
* `UpdateTypeCorrect`, `NobodySkippedCorrect`: what a job's entry says of a spoke agrees with what the spoke was told
  (`ToldMatches`), and time runs out only at the end (`NoTimeouts`).

`CentralProofs`: `CentralTypeCorrect`, `EventsKeptCorrect`; `ConfTypeCorrect`, and `CommitSwitchesOneCorrect`,
because a request that names the present revision has the flags of that revision (`PutInv`); `BrowseTypeCorrect` and
`BrowseDatedCorrect`, for any feeds, viewers and lives of caches, from the date of each cache entry (`KeptInv`) and of
what a refresh has got so far (`GotInv`); `AcmeTypeCorrect` and `NoStrayChallengeCorrect`, for any administrators
and requests and each provider: unless a fault excuses it, each record in the zone is in the table of a request that
will clean it up (`Owned`, `WillClean`), and a provider that deletes by value or writes back a list finds nothing else
there (`OneValue`, `CleanList`). `UsbTypeCorrect`: the bounds of the versions rest on a count of the requests
that may still raise one (`RaisesCounted`). `UsbDeliveredCorrect` is about the property that the run `UsbDelivered`
sees broken by a push to all: until the first such push, and if requests come one at a time (`OneAtATime`), it holds
for any devices, edits and drifts (`DeliveredInv`: versions are sent after they are issued and applied after they are
sent, the last row holds what the spoke is to have, and a version about to be ensured is still to be sent, or
was sent with it). The second condition cannot be left out: with two threads and no push to all, TLC finds a request
that saves its older copy of the row over another's, so that a version is issued twice and the second is taken for sent.

### Assumptions on constants

Most only give a type or say that a bound is a number. The others: an approved spoke may start without a
configuration, but none of the marks for *no configuration* and *no hash* is a configuration
(`ConfigAssumption`); there is a first version (`StartAssumption`); a day has more than one minute, and periods and lives
are not zero (`TimersAssumption`); an empty answer of Central is kept for at least a minute and no longer than
another (`BrowseAssumption`; 60 of 300 seconds and 120 of 900 in `aruba.py`); there is a flag and a text
(`OverrideAssumption`).

### Model-checked only

* Liveness (`QueuedIsServed`, `Converges`, `Clears`, `Settles`, `SilenceTried`, `SendsEnd`), which needs
  fairness and ENABLED and is beyond the prover.
* `PartsTypeOK` and `JobsTypeOK`, the conjunctions for the runs of several parts. Each part's own types are
  proved, in the module that has its theorems; the composition only keeps the other parts where they start.

Recursive operators and induction over data are out of the prover's reach too. No module declares one, and where
the code filters a list the model says which places remain, by their number or as the end of the list.

## 6. Where the code and its docs disagree

Each of these is a run that TLC ends with a counterexample; `PROJECT.json` quotes the lines.

* `QueueTwoWorkers`: the comments of `store.py` say that queue writes are safe across processes by
  `flock`. Only `enqueue_command` takes it. The shipped configuration runs one worker.
* `ConfigSyncDisable`: a comment of the drift check says that a pending version has an unacked push in
  flight. Disabling management resets the versions; a version number issued again is mistaken for
  the executed one, and nothing is sent until that row expires.
* `SpokeRegistryCrash`: the README says that a spoke is approved into exactly one tenant. A crash
  between saving the row and removing the pending file leaves both, and an approval does not look
  for an approved row.
* `OverridesPushed`: three endpoints say that they push to all approved spokes. They call a function
  that the store does not have; the override is saved and the request fails. The drift check repairs it
  only where hub management is enabled.
* `ItemsPreserved`: a comment says that discovery preserves all other fields of the configuration. It
  writes back what it read before it awaited Central; an item added meanwhile is gone.
  `_check_monitored_items` does the same with the notifications it awaits.
* `UsbDelivered`: the spokes are to get the union of the platform's USB list and the tenant's. The push to
  all sends the tenant's alone and records nothing, so that the drift check finds nothing to repair.

Five more have no run of their own. Four were met while modelling; the models do as the code does, and no property claims
what the docs say:

* A comment (`store.py:1225`) says that a pending version has an unacked push in flight. Over the WebSocket a spoke that is
  offline for the life of a command has none: the row is dropped (`store.py:1475`, `1549-1578`), the version stays pending, and the
  drift check leaves it alone. `PendingIsInFlight` holds until a row expires so (`ExpireQueued`).
* `init_store` says that it copies `users.json` and `tenants.json` *if readable* (`store.py:1650`, `1660`). It looks at the size: the
  unreadable rest of a write of more than two bytes is copied over the good `.bak`. `SnapshotSurvives` holds until a start
  finds a torn file.
* `console.py` uses `contextlib` at 391, 425 and 436 and does not import it. If a shell does not start in time, or the
  browser leaves, it raises a `NameError` where it was to send `shell_exit`, and the shell stays open at the spoke.
* A name is looked for among the tenant's others when it is registered or approved (`_ensure_name_available_for_tenant`),
  but a heartbeat writes the one it reports unchecked (`spokes.py:365-379`), so that two approved spokes may share one.

The fifth is a violation that TLC finds in another instance. A comment of the drift check (`store.py:1233`) says that a spoke whose hash is the
desired one is in sync. The hash says what was pushed last, and an edit saves its copy of the row over it: while the
first edit is at work, a drift check bumps the version and an inbox poll pushes it; the edit puts the old hash back. If
the second edit returns to the old configuration and the process dies before it bumps the version, the ack of the first
one's push makes versions and hash agree while the spoke runs the other configuration, and nothing repairs it. TLC
finds this as a violation of `InSyncIsApplied` in the instance of `ConfigSyncSafety` with `Transport = "http"` and
`Faults = {"restart"}`.

## 7. What is left out

* Of the queue: the formats and payloads of commands, the audit file, and the move of a queue file by `rekey_spoke`, which
  follows the save of the row (`store.py:1381`, then `1386`): a crash in between leaves the commands under the old id.
* Of the WebSocket: the fan-out to browsers, which keeps nothing.
* Of the configuration: pushes of other values to one spoke, the settings endpoints that save without
  pushing, the `ensure` call at the end of a registration. `UsbLists` has the spoke's row changed by its
  requests and the drift check only; a heartbeat that saves an older row is in `ConfigSync`.
* Of the registry: new hostnames, and edits of labels and sites (which can undo a revocation in the same way as
  `SaveRegistered` and `SaveHeartbeat` do). One heartbeat handler at a time keeps a copy of a row.
* Of reseeds: requests that name a spoke twice, the restart of the hub, backups of VMs (sent once, no retry).
* Of the start: renaming of old files; deletion of tenants (a date set in one call) and their purge.
  Two self-updates of one process may overlap; they do, and nothing says that they must not.
* Of the loops: the kill switch (`gkill_switch_poller`, one pass without an await that queues a changed
  value), the baseline of client counts. A pass that drifts over a scheduled minute skips it: it happens in
  `FleetTimers`, and no property claims otherwise.
* Of sessions: the VNC bytes. Shells may stay open at the spoke (section 6), and so may a console that no browser
  attached to; `NoOrphan` says so by what it leaves out. A question has a fresh id and a queue of its own, so that its answer
  reaches nobody else; `RelaySessions` takes this as given.
* Of Central: access tokens, which expire into failed calls, and parsing; the pages of spokes and of the classic
  interface, whose parts have one date.
* Of certificates: the CA's protocol and account. A challenge may stay after a failed call of the
  provider, a crash, or, with namecheap, when the zone is changed while a request holds its copy.
* Not modelled at all: authentication, T3 profiles, the QA runner, notifications, crypto, TLS, read-only
  routers and scripts, for the reasons given in `PROJECT.json`.

## 8. Plan

Left to do, in this order:

1. A spoke with registry, queue and configuration together (a rekey while an update is under way), checked
   against the promises of the three modules and proved from their invariants.
2. `UsbLists` with overlapping requests: which weaker promise holds when rows are saved over each other.
3. `ConfigSync` with restarts, renames and the settings path: which weaker promise holds of versions and hash.
