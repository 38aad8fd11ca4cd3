--------------------------- MODULE CentralMonitor ---------------------------
(***************************************************************************)
(* What the hub knows of Aruba Central for one tenant: the status that     *)
(* aruba_poller (tasks.py) fetches every five minutes, the alerts that     *)
(* Central sends to the webhook in between (webhook.py), and the tenant's  *)
(* central_sites_config, which the poller and the requests of aggregate.py *)
(* read, change and write back as a whole.                                 *)
(*                                                                         *)
(* Poller, webhook and requests are tasks of one event loop: one of them   *)
(* goes on wherever another one awaits Central, a notification or a        *)
(* thread of its own.                                                      *)
(***************************************************************************)
EXTENDS Naturals, FiniteSets

CONSTANTS
  Alert,     \* alerts: a site, a check and a source, under one alertId
  Item,      \* monitored items
  Site,      \* sites of Central
  MaxAdd,    \* bound: items added
  MaxSave    \* bound: forms saved

ASSUME CentralAssumption == MaxAdd \in Nat /\ MaxSave \in Nat

VARIABLES
  config,    \* central_sites_config
  byHub,     \* default_processing_mode: the hub polls Central itself
  poller,    \* what aruba_poller awaits
  read,      \* the configuration it read before
  polled,    \* the alerts it fetched
  checkNext, \* its check is the spokes', and Central's is still to come
  saving,    \* the request that awaits something: none, "sites" or "central"
  form,      \* the configuration that request will write
  status,    \* _hub_central_status: webhook_findings and findings
  events,    \* history: latest webhook event, as long as no poll failed
  wanted,    \* history: items added and not deleted since
  adds, saves

pollVars == <<poller, read, polled, checkNext>>
requestVars == <<saving, form>>
centralVars == <<config, byHub, pollVars, requestVars, status, events, wanted,
                 adds, saves>>

Colour == {"red", "green"}
Shown == Colour \cup {"none"}
SiteState == {"unmapped", "mapped", "excluded"}
Config == [items : SUBSET Item, sites : [Site -> SiteState]]
NoConfig == [items |-> {}, sites |-> [x \in Site |-> "unmapped"]]
NoAlerts == [a \in Alert |-> "none"]
NoStatus == [webhook |-> NoAlerts, findings |-> NoAlerts]

CentralTypeOK ==
  /\ config \in Config /\ read \in Config /\ form \in Config
  /\ byHub \in BOOLEAN /\ checkNext \in BOOLEAN
  /\ poller \in {"idle", "checking", "polling", "discovering", "sites", "browsing"}
  /\ polled \subseteq Alert
  /\ saving \in {"none", "sites", "central"}
  /\ status \in [webhook : [Alert -> Shown], findings : [Alert -> Shown]]
  /\ events \in [Alert -> Shown]
  /\ wanted \subseteq Item
  /\ adds \in 0 .. MaxAdd /\ saves \in 0 .. MaxSave

CentralInit ==
  /\ config = NoConfig /\ byHub = TRUE
  /\ poller = "idle" /\ read = NoConfig /\ polled = {} /\ checkNext = FALSE
  /\ saving = "none" /\ form = NoConfig
  /\ status = NoStatus /\ events = NoAlerts
  /\ wanted = {} /\ adds = 0 /\ saves = 0

-----------------------------------------------------------------------------
(* The poller.                                                             *)

\* The status is replaced by one without alerts.
Blank == status' = NoStatus /\ events' = NoAlerts

\* What a failing poll leaves: a status without webhook_findings.
GiveUp ==
  /\ poller \in {"polling", "discovering", "sites"}
  /\ poller' = "idle" /\ Blank
  /\ UNCHANGED <<config, byHub, read, polled, checkNext, requestVars, wanted, adds, saves>>

\* A pass sends the configuration to the spokes that poll themselves, checks
\* the items against their telemetry, and polls Central for the others.
BeginCheckOfSpokes ==
  /\ poller = "idle" /\ config.items # {}
  /\ poller' = "checking" /\ read' = config /\ checkNext' = TRUE
  /\ UNCHANGED <<config, byHub, polled, requestVars, status, events, wanted, adds, saves>>

\* Central is polled if the hub is to, by a client that is configured.
BeginPoll ==
  /\ poller = "idle"
  /\ \/ byHub /\ poller' = "polling" /\ UNCHANGED <<status, events>>
     \/ UNCHANGED poller /\ Blank
  /\ UNCHANGED <<config, byHub, read, polled, checkNext, requestVars, wanted, adds, saves>>

\* What poll_alerts_and_insights may return: any of the alerts, also none.
Findings == SUBSET Alert

\* The findings have come; the configuration is read, and the sites awaited.
Polled(found) ==
  /\ poller = "polling"
  /\ poller' = "discovering" /\ polled' = found /\ read' = config
  /\ UNCHANGED <<config, byHub, checkNext, requestVars, status, events, wanted, adds, saves>>

MapSites(c) ==
  [c EXCEPT !.sites = [x \in Site |-> IF c.sites[x] = "unmapped" THEN "mapped" ELSE c.sites[x]]]

\* A site that is not mapped and not excluded is mapped; only then is the
\* configuration written.
Discovered ==
  /\ poller = "discovering"
  /\ poller' = "sites"
  /\ config' = IF MapSites(read) # read THEN MapSites(read) ELSE config
  /\ UNCHANGED <<byHub, read, polled, checkNext, requestVars, status, events, wanted, adds, saves>>

MergedWith(webhook) == [a \in Alert |-> IF a \in polled THEN "red" ELSE webhook[a]]

\* (mutant) the status keeps the findings that were polled, and no others
SetStatusOnly ==
  /\ poller = "sites"
  /\ poller' = "browsing"
  /\ status' = [webhook |-> status.webhook, findings |-> MergedWith(NoAlerts)]
  /\ UNCHANGED <<config, byHub, read, polled, checkNext, requestVars, events, wanted, adds, saves>>

\* All of the sites' data has come.  The webhook's findings are those known
\* now, not when the poll began.
SetStatus ==
  /\ poller = "sites"
  /\ poller' = "browsing"
  /\ status' = [webhook |-> status.webhook, findings |-> MergedWith(status.webhook)]
  /\ UNCHANGED <<config, byHub, read, polled, checkNext, requestVars, events, wanted, adds, saves>>

\* Central's names are known: the items are read and looked for in them.
BeginCheck ==
  /\ poller = "browsing"
  /\ poller' = IF config.items = {} THEN "idle" ELSE "checking"
  /\ read' = config /\ checkNext' = FALSE
  /\ UNCHANGED <<config, byHub, polled, requestVars, status, events, wanted, adds, saves>>

\* _check_monitored_items has sent what it had to, and writes back what it read.
EndCheck ==
  /\ poller = "checking"
  /\ poller' = IF checkNext /\ byHub THEN "polling" ELSE "idle"
  /\ config' = read
  /\ IF checkNext /\ ~byHub THEN Blank ELSE UNCHANGED <<status, events>>
  /\ UNCHANGED <<byHub, read, polled, checkNext, requestVars, wanted, adds, saves>>

-----------------------------------------------------------------------------
(* The webhook.                                                            *)

\* An event is kept under its alertId; it joins the findings only if there is
\* none for its site, check and source, whatever colour that one has.
ReceiveEvent(a, c) ==
  /\ events' = [events EXCEPT ![a] = c]
  /\ status' = [webhook |-> [status.webhook EXCEPT ![a] = c],
                findings |-> [status.findings EXCEPT ![a] = IF @ = "none" THEN c ELSE @]]
  /\ UNCHANGED <<config, byHub, pollVars, requestVars, wanted, adds, saves>>

-----------------------------------------------------------------------------
(* The requests.                                                           *)

AddItem(i) ==
  /\ adds < MaxAdd /\ i \notin config.items
  /\ config' = [config EXCEPT !.items = @ \cup {i}]
  /\ wanted' = wanted \cup {i} /\ adds' = adds + 1
  /\ UNCHANGED <<byHub, pollVars, requestVars, status, events, saves>>

DeleteItem(i) ==
  /\ i \in config.items
  /\ config' = [config EXCEPT !.items = @ \ {i}]
  /\ wanted' = wanted \ {i}
  /\ UNCHANGED <<byHub, pollVars, requestVars, status, events, adds, saves>>

\* The form of the sites, in a thread of its own: it reads, merges, writes.
BeginSaveSites(sites) ==
  /\ saving = "none" /\ saves < MaxSave
  /\ saving' = "sites" /\ saves' = saves + 1
  /\ form' = [config EXCEPT !.sites = sites]
  /\ UNCHANGED <<config, byHub, pollVars, status, events, wanted, adds>>

EndSaveSites ==
  /\ saving = "sites" /\ saving' = "none"
  /\ config' = form
  /\ UNCHANGED <<byHub, pollVars, form, status, events, wanted, adds, saves>>

\* The form of Central's account and mode.  Saved for the hub, with an
\* account, it reads the configuration, awaits the sites, and writes it back.
SaveCentral(hub) ==
  /\ saving = "none" /\ saves < MaxSave
  /\ byHub' = hub /\ saves' = saves + 1
  /\ \/ UNCHANGED requestVars
     \/ hub /\ saving' = "central" /\ form' = config
  /\ UNCHANGED <<config, pollVars, status, events, wanted, adds>>

EndSaveCentral(found) ==
  /\ saving = "central" /\ saving' = "none"
  /\ config' = IF found THEN MapSites(form) ELSE form
  /\ UNCHANGED <<byHub, pollVars, form, status, events, wanted, adds, saves>>

-----------------------------------------------------------------------------
\* A restart loses what is in memory.
RestartCentral ==
  /\ poller' = "idle" /\ saving' = "none" /\ Blank
  /\ UNCHANGED <<config, byHub, read, polled, checkNext, form, wanted, adds, saves>>

CentralNext ==
  \/ BeginCheckOfSpokes \/ BeginPoll \/ Discovered \/ SetStatus
  \/ \E found \in Findings : Polled(found)
  \/ BeginCheck \/ EndCheck \/ GiveUp
  \/ \E a \in Alert, c \in Colour : ReceiveEvent(a, c)
  \/ \E i \in Item : AddItem(i) \/ DeleteItem(i)
  \/ \E sites \in [Site -> SiteState] : BeginSaveSites(sites)
  \/ EndSaveSites
  \/ \E hub \in BOOLEAN : SaveCentral(hub)
  \/ \E found \in BOOLEAN : EndSaveCentral(found)
  \/ RestartCentral

CentralSpec == CentralInit /\ [][CentralNext]_centralVars

-----------------------------------------------------------------------------
(* Properties.                                                             *)

\* An event of the webhook is not lost by a poll that is under way when it
\* arrives, nor by one that ends later: until a poll fails, webhook_findings
\* holds the latest event of each alert, and the alert is among the findings.
EventsKept ==
  \A a \in Alert :
    events[a] # "none" => /\ status.webhook[a] = events[a]
                          /\ status.findings[a] # "none"

\* The comment in _auto_discover_hub_central_config: changes are merged into
\* the stored configuration, so that excluded_sites, monitored_items and all
\* other fields are preserved.  An item that was added is there until deleted.
ItemsPreserved == wanted \subseteq config.items

=============================================================================
