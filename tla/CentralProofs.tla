---------------------------- MODULE CentralProofs ----------------------------
(***************************************************************************)
(* Theorems about what the hub has from others, and gives them: what it    *)
(* knows of Aruba Central (CentralMonitor, CentralBrowse), for any number  *)
(* of alerts, items, sites, feeds and viewers, the overrides it keeps or   *)
(* commits to a repository (ConfOverrides), for any number of flags and    *)
(* editors, its certificates' challenges (AcmeOrder), for any number of    *)
(* administrators, and the USB lists it pushes (UsbLists), for any devices *)
(* and requests.                                                           *)
(***************************************************************************)
EXTENDS CentralMonitor, CentralBrowse, ConfOverrides, AcmeOrder, UsbLists,
        FiniteSetTheorems, TLAPS

-----------------------------------------------------------------------------
(* CentralMonitor.                                                         *)

\* What the poller and the requests make of a configuration is one.
LEMMA ConfigFacts ==
  /\ NoConfig \in Config /\ NoAlerts \in [Alert -> Shown]
  /\ \A c \in Config : MapSites(c) \in Config
  /\ \A c \in Config, i \in Item :
       /\ [c EXCEPT !.items = @ \cup {i}] \in Config
       /\ [c EXCEPT !.items = @ \ {i}] \in Config
  /\ \A c \in Config, x \in [Site -> SiteState] : [c EXCEPT !.sites = x] \in Config
<1>1. NoConfig \in Config /\ NoAlerts \in [Alert -> Shown]
  BY DEF NoConfig, Config, SiteState, NoAlerts, Shown
<1>2. \A c \in Config : MapSites(c) \in Config
  <2> SUFFICES ASSUME NEW c \in Config PROVE MapSites(c) \in Config
    OBVIOUS
  <2>1. [x \in Site |-> IF c.sites[x] = "unmapped" THEN "mapped" ELSE c.sites[x]]
          \in [Site -> SiteState]
    BY DEF Config, SiteState
  <2> QED
    BY <2>1 DEF MapSites, Config
<1> QED
  BY <1>1, <1>2 DEF Config

StatusRec == [webhook : [Alert -> Shown], findings : [Alert -> Shown]]

\* Every step keeps the types.
LEMMA CentralTypeStep == CentralTypeOK /\ [CentralNext]_centralVars => CentralTypeOK'
<1> SUFFICES ASSUME CentralTypeOK, [CentralNext]_centralVars PROVE CentralTypeOK'
  OBVIOUS
<1> USE DEF StatusRec
<1>a. /\ NoStatus \in StatusRec /\ NoAlerts \in [Alert -> Shown]
      /\ status.webhook \in [Alert -> Shown] /\ status.findings \in [Alert -> Shown]
  BY ConfigFacts DEF NoStatus, CentralTypeOK
<1>b. MergedWith(status.webhook) \in [Alert -> Shown]
  BY <1>a DEF MergedWith, Shown, Colour
<1> HIDE DEF StatusRec
<1>c. CentralTypeOK <=>
        /\ config \in Config /\ read \in Config /\ form \in Config
        /\ byHub \in BOOLEAN /\ checkNext \in BOOLEAN
        /\ poller \in {"idle", "checking", "polling", "discovering", "sites", "browsing"}
        /\ polled \subseteq Alert
        /\ saving \in {"none", "sites", "central"}
        /\ status \in StatusRec
        /\ events \in [Alert -> Shown]
        /\ wanted \subseteq Item
        /\ adds \in 0 .. MaxAdd /\ saves \in 0 .. MaxSave
  BY DEF CentralTypeOK, StatusRec
<1> USE DEF requestVars, pollVars
<1>1. CASE GiveUp \/ BeginCheckOfSpokes \/ BeginPoll
  BY <1>1, <1>a DEF GiveUp, BeginCheckOfSpokes, BeginPoll, Blank, CentralTypeOK, StatusRec
<1>2. ASSUME NEW found \in Findings, Polled(found) PROVE CentralTypeOK'
  BY <1>2 DEF Polled, Findings, CentralTypeOK
<1>3. CASE Discovered \/ BeginCheck
  BY <1>3, ConfigFacts DEF Discovered, BeginCheck, CentralTypeOK
<1>4. CASE SetStatus
  <2>1. status' \in StatusRec
    BY <1>4, <1>a, <1>b DEF SetStatus, StatusRec
  <2> QED
    BY <1>4, <2>1 DEF SetStatus, CentralTypeOK, StatusRec
<1>5. CASE EndCheck
  BY <1>5, <1>a DEF EndCheck, Blank, CentralTypeOK, StatusRec
<1>6. ASSUME NEW a \in Alert, NEW c \in Colour, ReceiveEvent(a, c) PROVE CentralTypeOK'
  <2>1. status' \in StatusRec
    BY <1>6, <1>a DEF ReceiveEvent, StatusRec, Shown
  <2>2. events' \in [Alert -> Shown]
    BY <1>6 DEF ReceiveEvent, CentralTypeOK, Shown
  <2> QED
    BY <1>6, <2>1, <2>2 DEF ReceiveEvent, CentralTypeOK, StatusRec
<1>7. ASSUME NEW i \in Item, AddItem(i) \/ DeleteItem(i) PROVE CentralTypeOK'
  <2>1. config' \in Config
    <3>1. config \in Config
      BY DEF CentralTypeOK
    <3> QED
      BY <1>7, <3>1, ConfigFacts DEF AddItem, DeleteItem
  <2>2. wanted' \subseteq Item /\ adds' \in 0 .. MaxAdd
    BY <1>7, CentralAssumption DEF AddItem, DeleteItem, CentralTypeOK
  <2> QED
    BY <1>7, <2>1, <2>2 DEF AddItem, DeleteItem, CentralTypeOK
<1>8. ASSUME NEW sites \in [Site -> SiteState], BeginSaveSites(sites) PROVE CentralTypeOK'
  BY <1>8, ConfigFacts, CentralAssumption DEF BeginSaveSites, CentralTypeOK
<1>9. CASE EndSaveSites
  BY <1>9 DEF EndSaveSites, CentralTypeOK
<1>10. ASSUME NEW hub \in BOOLEAN, SaveCentral(hub) PROVE CentralTypeOK'
  BY <1>10, CentralAssumption DEF SaveCentral, CentralTypeOK
<1>11. ASSUME NEW found \in BOOLEAN, EndSaveCentral(found) PROVE CentralTypeOK'
  BY <1>11, ConfigFacts DEF EndSaveCentral, CentralTypeOK
<1>12. CASE RestartCentral
  BY <1>12, <1>a DEF RestartCentral, Blank, CentralTypeOK, StatusRec
<1>13. CASE UNCHANGED centralVars
  BY <1>13 DEF centralVars, CentralTypeOK
<1> QED
  BY <1>1, <1>2, <1>3, <1>4, <1>5, <1>6, <1>7, <1>8, <1>9, <1>10, <1>11, <1>12, <1>13
  DEF CentralNext

\* The variables keep their types, in whatever order poller, webhook and
\* requests go on.
THEOREM CentralTypeCorrect == CentralSpec => []CentralTypeOK
<1>1. CentralInit => CentralTypeOK
  <2>1. NoStatus \in StatusRec
    BY ConfigFacts DEF NoStatus, StatusRec
  <2>2. 0 \in 0 .. MaxAdd /\ 0 \in 0 .. MaxSave
    BY CentralAssumption
  <2>3. CentralInit => /\ config \in Config /\ read \in Config /\ form \in Config
                       /\ events \in [Alert -> Shown]
    BY ConfigFacts DEF CentralInit
  <2> QED
    BY <2>1, <2>2, <2>3 DEF CentralInit, CentralTypeOK, StatusRec
<1> QED
  BY <1>1, CentralTypeStep, PTL DEF CentralSpec

\* Every step keeps the events.
LEMMA EventsStep == CentralTypeOK /\ EventsKept /\ [CentralNext]_centralVars => EventsKept'
<1> SUFFICES ASSUME CentralTypeOK, EventsKept, [CentralNext]_centralVars PROVE EventsKept'
  OBVIOUS
<1>1. CASE UNCHANGED <<status, events>>
  BY <1>1 DEF EventsKept
<1>2. CASE Blank
  BY <1>2 DEF Blank, NoAlerts, EventsKept
<1>3. CASE SetStatus
  <2>1. /\ events' = events /\ status'.webhook = status.webhook
        /\ status'.findings = MergedWith(status.webhook)
    BY <1>3 DEF SetStatus
  <2>2. \A a \in Alert : status.webhook[a] # "none" => MergedWith(status.webhook)[a] # "none"
    BY DEF MergedWith
  <2> QED
    BY <2>1, <2>2 DEF EventsKept
<1>4. ASSUME NEW a \in Alert, NEW c \in Colour, ReceiveEvent(a, c) PROVE EventsKept'
  <2>1. /\ status.webhook \in [Alert -> Shown] /\ status.findings \in [Alert -> Shown]
        /\ events \in [Alert -> Shown]
    BY DEF CentralTypeOK
  <2>2. /\ events' = [events EXCEPT ![a] = c]
        /\ status'.webhook = [status.webhook EXCEPT ![a] = c]
        /\ status'.findings = [status.findings EXCEPT ![a] = IF @ = "none" THEN c ELSE @]
    BY <1>4 DEF ReceiveEvent
  <2>3. c # "none"
    BY DEF Colour
  <2> QED
    BY <2>1, <2>2, <2>3 DEF EventsKept
<1>5. \/ UNCHANGED <<status, events>> \/ Blank \/ SetStatus
      \/ \E a \in Alert, c \in Colour : ReceiveEvent(a, c)
  BY DEF CentralNext, BeginCheckOfSpokes, BeginPoll, Discovered, Polled, BeginCheck, EndCheck,
         GiveUp, AddItem, DeleteItem, BeginSaveSites, EndSaveSites, SaveCentral,
         EndSaveCentral, RestartCentral, centralVars
<1> QED
  BY <1>1, <1>2, <1>3, <1>4, <1>5

\* For any number of alerts, an event of the webhook survives every poll that
\* does not fail, also one that was under way (receive_webhook, aruba_poller).
THEOREM EventsKeptCorrect == CentralSpec => []EventsKept
<1>1. CentralInit => EventsKept
  BY DEF CentralInit, EventsKept, NoAlerts
<1> QED
  BY <1>1, CentralTypeCorrect, EventsStep, PTL DEF CentralSpec

-----------------------------------------------------------------------------
(* ConfOverrides.                                                          *)

EditRec == [step: {"none", "save", "push", "fetch", "put", "fetchSim", "putSim"},
            flag: Flag, on: BOOLEAN, copy: OverridesValue,
            rev: 0..MaxCommit, got: SUBSET Flag, text: Text \cup {Unset}]

\* Only the repository's own state, and what requests remember of it, decides
\* what a commit switches.
RepoOK ==
  /\ overrides \in OverridesValue
  /\ repo \in [rev: 0..MaxCommit, on: SUBSET Flag]
  /\ simFile \in [rev: 0..MaxCommit, text: Text \cup {Unset}]
  /\ edit \in [Editor -> EditRec]

\* A request that is about to commit remembers the flags of the revision it
\* names, and none that is still to come.
PutInv == \A e \in Editor :
  edit[e].step = "put" => /\ edit[e].rev <= repo.rev
                          /\ edit[e].rev = repo.rev => edit[e].got = repo.on

\* What is made of a request.
LEMMA EditFacts ==
  /\ NoEditYet \in EditRec /\ NoEditYet.step = "none"
  /\ \A r \in EditRec, x \in {"none", "save", "push", "fetch", "put", "fetchSim", "putSim"} :
       [r EXCEPT !.step = x] \in EditRec /\ [r EXCEPT !.step = x].step = x
  /\ \A r \in EditRec, c \in OverridesValue : [r EXCEPT !.copy = c] \in EditRec
  /\ \A r \in EditRec, t \in Text \cup {Unset} : [r EXCEPT !.text = t] \in EditRec
  /\ \A r \in EditRec, n \in 0..MaxCommit : [r EXCEPT !.rev = n] \in EditRec
  /\ \A r \in EditRec, g \in SUBSET Flag : [r EXCEPT !.got = g] \in EditRec
  /\ \A r \in EditRec, f \in Flag : [r EXCEPT !.flag = f] \in EditRec
  /\ \A r \in EditRec, b \in BOOLEAN : [r EXCEPT !.on = b] \in EditRec
  /\ \A r \in EditRec : r.copy \in OverridesValue
  BY OverrideAssumption DEF EditRec, NoEditYet, OverridesValue

\* A request that begins does not commit yet.
LEMMA BeginFacts ==
  ASSUME RepoOK, NEW e \in Editor, NEW r \in EditRec,
         NEW x \in {"save", "fetch", "fetchSim"}, Begin(e, x, r)
  PROVE  RepoOK' /\ UNCHANGED repo /\ (PutInv => PutInv')
<1>1. PICK d \in EditRec : d.step # "put" /\ edit' = [edit EXCEPT ![e] = d]
  BY EditFacts DEF Begin
<1> QED
  BY <1>1 DEF Begin, RepoOK, PutInv

\* A request whose step is not that of a commit, whatever else it remembers.
LEMMA EditMoves ==
  ASSUME RepoOK, NEW e \in Editor, NEW d \in EditRec, d.step # "put",
         edit' = [edit EXCEPT ![e] = d], UNCHANGED <<overrides, repo>>,
         simFile' \in [rev: 0..MaxCommit, text: Text \cup {Unset}]
  PROVE  RepoOK' /\ (PutInv => PutInv')
  BY DEF RepoOK, PutInv

\* What falls back to the hub's override is saved.
LEMMA FallBackFacts ==
  ASSUME RepoOK, NEW e \in Editor
  PROVE  \E d \in EditRec : d.step = "save" /\ FallBack(e) = [edit EXCEPT ![e] = d]
<1> DEFINE c == [edit[e].copy EXCEPT !.user = Modified(@, edit[e].flag, edit[e].on)]
           s == [edit[e] EXCEPT !.step = "save"]
           d == [s EXCEPT !.copy = c]
<1>1. edit[e] \in EditRec
  BY DEF RepoOK
<1>2. c \in OverridesValue
  BY <1>1 DEF EditRec, OverridesValue, Modified
<1> HIDE DEF c
<1>3. s \in EditRec /\ s.step = "save"
  BY <1>1, EditFacts
<1>4. d \in EditRec /\ d.step = "save"
  BY <1>2, <1>3 DEF EditRec
<1>5. FallBack(e) = [edit EXCEPT ![e] = d]
  BY <1>1 DEF FallBack, RepoOK, EditRec, c
<1> QED
  BY <1>4, <1>5

\* A commit names the revision it was prepared from.
LEMMA RepoMoves ==
  ASSUME RepoOK, PutInv, repo.rev < MaxCommit, NEW on \in SUBSET Flag,
         repo' = [rev |-> repo.rev + 1, on |-> on],
         \A e \in Editor : edit'[e].step = "put" =>
           edit[e].step = "put" /\ edit'[e].rev = edit[e].rev /\ edit'[e].got = edit[e].got
  PROVE  repo' \in [rev: 0..MaxCommit, on: SUBSET Flag] /\ PutInv'
<1>1. repo'.rev = repo.rev + 1 /\ repo.rev \in 0..MaxCommit
  BY DEF RepoOK
<1>2. \A e \in Editor : edit[e].rev \in 0..MaxCommit
  BY DEF RepoOK, EditRec
<1>3. repo' \in [rev: 0..MaxCommit, on: SUBSET Flag]
  BY <1>1, OverrideAssumption DEF RepoOK
<1> QED
  BY <1>1, <1>2, <1>3 DEF PutInv

\* Every step keeps both.
LEMMA RepoStep == RepoOK /\ PutInv /\ [ConfNext]_confVars => RepoOK' /\ PutInv'
<1> SUFFICES ASSUME RepoOK, PutInv, [ConfNext]_confVars PROVE RepoOK' /\ PutInv'
  OBVIOUS
<1> USE DEF RepoOK
<1>a. /\ \A t \in Text \cup {Unset} : [overrides EXCEPT !.sim = t] \in OverridesValue
      /\ \A c \in SUBSET Flag : [overrides EXCEPT !.user = c] \in OverridesValue
      /\ \A f \in Flag, on \in BOOLEAN :
           LET shown == [overrides EXCEPT !.display = Modified(@, f, on)]
           IN  /\ shown \in OverridesValue
               /\ [shown EXCEPT !.user = Modified(@, f, on)] \in OverridesValue
  BY DEF OverridesValue, Modified
<1> HIDE DEF RepoOK
<1>1. ASSUME NEW e \in Editor, NEW t \in Text \cup {Unset}, EditSimOverride(e, t)
      PROVE  RepoOK' /\ PutInv'
  <2>1. [NoEditYet EXCEPT !.copy = [overrides EXCEPT !.sim = t]] \in EditRec
    BY <1>a, EditFacts
  <2> QED
    BY <1>1, <2>1, BeginFacts DEF EditSimOverride
<1>2. ASSUME NEW e \in Editor, NEW c \in SUBSET Flag, EditUserOverride(e, c)
      PROVE  RepoOK' /\ PutInv'
  <2>1. [NoEditYet EXCEPT !.copy = [overrides EXCEPT !.user = c]] \in EditRec
    BY <1>a, EditFacts
  <2> QED
    BY <1>2, <2>1, BeginFacts DEF EditUserOverride
<1>3. ASSUME NEW e \in Editor, NEW f \in Flag, NEW on \in BOOLEAN, SwitchFlag(e, f, on)
      PROVE  RepoOK' /\ PutInv'
  <2> DEFINE shown == [overrides EXCEPT !.display = Modified(@, f, on)]
             hubOnly == [shown EXCEPT !.user = Modified(@, f, on)]
             new == [NoEditYet EXCEPT !.flag = f, !.on = on]
  <2>1. shown \in OverridesValue /\ hubOnly \in OverridesValue
    BY <1>a
  <2>2. new \in EditRec
    BY EditFacts DEF EditRec
  <2>3. \/ Begin(e, "fetch", [new EXCEPT !.copy = shown])
        \/ Begin(e, "save", [new EXCEPT !.copy = hubOnly])
    BY <1>3 DEF SwitchFlag
  <2> HIDE DEF shown, hubOnly, new
  <2>4. [new EXCEPT !.copy = shown] \in EditRec /\ [new EXCEPT !.copy = hubOnly] \in EditRec
    BY <2>1, <2>2, EditFacts
  <2> QED
    BY <2>3, <2>4, BeginFacts
<1>4. ASSUME NEW e \in Editor, FetchUserConf(e) PROVE RepoOK' /\ PutInv'
  <2> DEFINE d == [edit[e] EXCEPT !.step = "put", !.rev = repo.rev, !.got = repo.on]
  <2>1. edit[e] \in EditRec /\ repo.rev \in 0..MaxCommit /\ repo.on \in SUBSET Flag
    BY DEF RepoOK
  <2>2. d \in EditRec /\ d.rev = repo.rev /\ d.got = repo.on
    BY <2>1 DEF EditRec
  <2>3. edit' = [edit EXCEPT ![e] = d]
    BY <1>4, <2>1 DEF FetchUserConf, RepoOK, EditRec
  <2> HIDE DEF d
  <2>4. UNCHANGED <<overrides, repo, simFile>>
    BY <1>4 DEF FetchUserConf
  <2> QED
    BY <2>1, <2>2, <2>3, <2>4 DEF RepoOK, PutInv
<1>5. ASSUME NEW e \in Editor, GitHubFails(e) PROVE RepoOK' /\ PutInv'
  <2>1. edit' = FallBack(e) /\ UNCHANGED <<overrides, repo, simFile>>
    BY <1>5 DEF GitHubFails
  <2> QED
    BY <2>1, FallBackFacts, EditMoves DEF RepoOK
<1>6. ASSUME NEW e \in Editor, PutUserConf(e) PROVE RepoOK' /\ PutInv'
  <2>1. edit[e] \in EditRec
    BY DEF RepoOK
  <2>2. PICK d \in EditRec : d.step = "save" /\ edit' = [edit EXCEPT ![e] = d]
    <3>1. CASE edit' = [edit EXCEPT ![e].step = "save"]
      <4>1. edit' = [edit EXCEPT ![e] = [edit[e] EXCEPT !.step = "save"]]
        BY <3>1
      <4> QED
        BY <2>1, <4>1, EditFacts
    <3>2. CASE edit' = FallBack(e)
      BY <3>2, FallBackFacts
    <3> QED
      BY <1>6, <3>1, <3>2 DEF PutUserConf
  <2>3. /\ repo.rev < MaxCommit /\ UNCHANGED <<overrides, simFile>>
        /\ repo' = [rev |-> repo.rev + 1, on |-> Modified(edit[e].got, edit[e].flag, edit[e].on)]
    BY <1>6 DEF PutUserConf
  <2>4. Modified(edit[e].got, edit[e].flag, edit[e].on) \in SUBSET Flag
    BY <2>1 DEF Modified, EditRec
  <2>5. edit' \in [Editor -> EditRec]
    BY <2>2 DEF RepoOK
  <2>6. \A i \in Editor : edit'[i].step = "put" => edit'[i] = edit[i]
    BY <2>2 DEF RepoOK
  <2>7. repo' \in [rev: 0..MaxCommit, on: SUBSET Flag] /\ PutInv'
    BY <2>3, <2>4, <2>6, RepoMoves
  <2> QED
    BY <2>3, <2>5, <2>7 DEF RepoOK
<1>7. ASSUME NEW e \in Editor, SaveOverrides(e) PROVE RepoOK' /\ PutInv'
  <2>1. edit[e] \in EditRec
    BY DEF RepoOK
  <2>2. PICK d \in EditRec : d.step = "push" /\ edit' = [edit EXCEPT ![e] = d]
    BY <1>7, <2>1, EditFacts DEF SaveOverrides
  <2>3. overrides' \in OverridesValue /\ UNCHANGED <<repo, simFile>>
    BY <1>7, <2>1, EditFacts DEF SaveOverrides
  <2> QED
    BY <2>2, <2>3 DEF RepoOK, PutInv
<1>8. ASSUME NEW e \in Editor, PushOverrides(e) \/ SimFileFails(e) PROVE RepoOK' /\ PutInv'
  <2>1. edit' = [edit EXCEPT ![e] = NoEditYet] /\ UNCHANGED <<overrides, repo, simFile>>
    BY <1>8 DEF PushOverrides, SimFileFails
  <2> QED
    BY <2>1, EditFacts, EditMoves DEF RepoOK
<1>9. ASSUME NEW e \in Editor, NEW t \in Text, EditSimFile(e, t) PROVE RepoOK' /\ PutInv'
  <2>1. [NoEditYet EXCEPT !.text = t] \in EditRec
    BY EditFacts
  <2> QED
    BY <1>9, <2>1, BeginFacts DEF EditSimFile
<1>10. ASSUME NEW e \in Editor, FetchSimFile(e) PROVE RepoOK' /\ PutInv'
  <2> DEFINE d == [edit[e] EXCEPT !.step = "putSim", !.rev = simFile.rev]
  <2>1. edit[e] \in EditRec /\ simFile.rev \in 0..MaxCommit
    BY DEF RepoOK
  <2>2. d \in EditRec /\ d.step = "putSim"
    BY <2>1 DEF EditRec
  <2>3. edit' = [edit EXCEPT ![e] = d]
    BY <1>10, <2>1 DEF FetchSimFile, RepoOK, EditRec
  <2> HIDE DEF d
  <2>4. UNCHANGED <<overrides, repo, simFile>>
    BY <1>10 DEF FetchSimFile
  <2> QED
    BY <2>2, <2>3, <2>4, EditMoves DEF RepoOK
<1>11. ASSUME NEW e \in Editor, PutSimFile(e) PROVE RepoOK' /\ PutInv'
  <2>1. edit[e] \in EditRec /\ edit[e].step = "putSim"
    BY <1>11 DEF RepoOK, PutSimFile
  <2>2. edit' = [edit EXCEPT ![e] = NoEditYet] /\ UNCHANGED <<overrides, repo>>
    BY <1>11 DEF PutSimFile
  <2>3. simFile' \in [rev: 0..MaxCommit, text: Text \cup {Unset}]
    <3>1. simFile.rev \in 0..MaxCommit /\ simFile.rev < MaxCommit
      BY <1>11 DEF PutSimFile, RepoOK
    <3>2. edit[e].text \in Text \cup {Unset}
      BY <2>1 DEF EditRec
    <3> QED
      BY <1>11, <3>1, <3>2, OverrideAssumption DEF PutSimFile
  <2> QED
    BY <2>2, <2>3, EditFacts, EditMoves
<1>12. ASSUME NEW f \in Flag, Commit(f) PROVE RepoOK' /\ PutInv'
  <2>1. /\ repo.rev < MaxCommit /\ UNCHANGED <<overrides, simFile, edit>>
        /\ repo' = [rev |-> repo.rev + 1, on |-> Modified(repo.on, f, f \notin repo.on)]
    BY <1>12 DEF Commit
  <2>2. Modified(repo.on, f, f \notin repo.on) \in SUBSET Flag
    BY DEF Modified, RepoOK
  <2>3. repo' \in [rev: 0..MaxCommit, on: SUBSET Flag] /\ PutInv'
    BY <2>1, <2>2, RepoMoves
  <2> QED
    BY <2>1, <2>3 DEF RepoOK
<1>13. CASE UNCHANGED <<overrides, repo, simFile, edit>>
  BY <1>13 DEF RepoOK, PutInv
<1>14. ((\E s \in Fleet : Heartbeat(s) \/ SyncRepo(s)) \/ UNCHANGED confVars)
         => UNCHANGED <<overrides, repo, simFile, edit>>
  BY DEF Heartbeat, SyncRepo, confVars
<1> QED
  BY <1>1, <1>2, <1>3, <1>4, <1>5, <1>6, <1>7, <1>8, <1>9, <1>10, <1>11, <1>12,
     <1>13, <1>14 DEF ConfNext

\* Two sets that differ in one flag at most.
LEMMA SwitchedOne ==
  ASSUME NEW f, NEW X, NEW Y, (X \ Y) \cup (Y \ X) \subseteq {f}
  PROVE  Cardinality((X \ Y) \cup (Y \ X)) <= 1
<1>1. (X \ Y) \cup (Y \ X) = {} \/ (X \ Y) \cup (Y \ X) = {f}
  OBVIOUS
<1>2. Cardinality({}) = 0 /\ Cardinality({f}) = 1
  BY FS_EmptySet, FS_Singleton
<1> QED
  BY <1>1, <1>2

\* For any number of flags and editors, a commit of the hub switches one flag
\* of what is in the repository: none is prepared from another revision than
\* the one it names (set_client_sim_override, _github_put_file).
THEOREM CommitSwitchesOneCorrect == ConfSpec => CommitSwitchesOne
<1>1. ConfInit => RepoOK /\ PutInv
  BY EditFacts, OverrideAssumption DEF ConfInit, RepoOK, PutInv, OverridesValue
<1>2. RepoOK /\ PutInv /\ [ConfNext]_confVars =>
        [LET before == repo.on
             after == repo'.on
         IN Cardinality((before \ after) \cup (after \ before)) <= 1]_confVars
  <2> SUFFICES ASSUME RepoOK, PutInv, ConfNext
               PROVE  LET before == repo.on
                          after == repo'.on
                      IN Cardinality((before \ after) \cup (after \ before)) <= 1
    OBVIOUS
  <2>1. ASSUME NEW e \in Editor, PutUserConf(e)
        PROVE  \E f : (repo.on \ repo'.on) \cup (repo'.on \ repo.on) \subseteq {f}
    <3>1. edit[e].got = repo.on
      BY <2>1 DEF PutUserConf, PutInv
    <3>2. repo'.on = Modified(repo.on, edit[e].flag, edit[e].on)
      BY <2>1, <3>1 DEF PutUserConf
    <3>3. (repo.on \ repo'.on) \cup (repo'.on \ repo.on) \subseteq {edit[e].flag}
      BY <3>2 DEF Modified
    <3> QED
      BY <3>3
  <2>2. ASSUME NEW f \in Flag, Commit(f)
        PROVE  (repo.on \ repo'.on) \cup (repo'.on \ repo.on) \subseteq {f}
    BY <2>2 DEF Commit, Modified
  <2>3. CASE UNCHANGED repo
    BY <2>3, FS_EmptySet
  <2>4. \/ UNCHANGED repo
        \/ \E e \in Editor : PutUserConf(e)
        \/ \E f \in Flag : Commit(f)
    BY DEF ConfNext, EditSimOverride, EditUserOverride, SwitchFlag, EditSimFile, Begin,
           FetchUserConf, GitHubFails, SaveOverrides, PushOverrides, FetchSimFile,
           PutSimFile, SimFileFails, Heartbeat, SyncRepo
  <2> QED
    BY <2>1, <2>2, <2>3, <2>4, SwitchedOne
<1> QED
  BY <1>1, <1>2, RepoStep, PTL DEF ConfSpec, CommitSwitchesOne

\* The rest of the types.  A request for simulation.conf carries the editor's
\* text, hence the file never holds the mark of a missing override.
HubSideOK ==
  /\ token \in BOOLEAN /\ managed \in BOOLEAN
  /\ stale \subseteq Fleet /\ toSync \subseteq Fleet
  /\ changes \in 0..MaxChange
  /\ simFile.text \in Text
  /\ \A e \in Editor :
       edit[e].step \in {"fetchSim", "putSim"} => edit[e].text \in Text

\* A request that begins carries a text if it is for simulation.conf.
LEMMA BeginKeepsSide ==
  ASSUME RepoOK, HubSideOK, NEW e \in Editor, NEW r \in EditRec,
         NEW x \in {"save", "fetch", "fetchSim"}, Begin(e, x, r),
         x = "fetchSim" => r.text \in Text
  PROVE  HubSideOK'
<1>1. [r EXCEPT !.step = x].step = x /\ [r EXCEPT !.step = x].text = r.text
  BY DEF EditRec
<1>2. \A i \in Editor : edit'[i] = IF i = e THEN [r EXCEPT !.step = x] ELSE edit[i]
  BY DEF Begin, RepoOK
<1>3. changes' \in 0..MaxChange
  BY OverrideAssumption DEF Begin, HubSideOK
<1> QED
  BY <1>1, <1>2, <1>3 DEF Begin, HubSideOK

\* A request that goes on without the repository's simulation.conf, and what
\* it was not asked to change.
LEMMA SideMoves ==
  ASSUME HubSideOK, UNCHANGED <<token, managed, changes>>,
         stale' \subseteq Fleet, toSync' \subseteq Fleet, simFile'.text \in Text,
         \A e \in Editor : edit'[e].step \in {"fetchSim", "putSim"} =>
           edit[e].step \in {"fetchSim", "putSim"} /\ edit'[e].text = edit[e].text
  PROVE  HubSideOK'
  BY DEF HubSideOK

\* Every step keeps them.
LEMMA SideStep == RepoOK /\ HubSideOK /\ [ConfNext]_confVars => HubSideOK'
<1> SUFFICES ASSUME RepoOK, HubSideOK, [ConfNext]_confVars PROVE HubSideOK'
  OBVIOUS
<1>a. /\ stale \subseteq Fleet /\ toSync \subseteq Fleet /\ simFile.text \in Text
      /\ edit \in [Editor -> EditRec] /\ overrides \in OverridesValue
  BY DEF HubSideOK, RepoOK
<1>1. ASSUME NEW e \in Editor, NEW t \in Text \cup {Unset}, EditSimOverride(e, t)
      PROVE  HubSideOK'
  <2>1. [overrides EXCEPT !.sim = t] \in OverridesValue
    BY <1>a DEF OverridesValue
  <2>2. [NoEditYet EXCEPT !.copy = [overrides EXCEPT !.sim = t]] \in EditRec
    BY <2>1, EditFacts
  <2> QED
    BY <1>1, <2>2, BeginKeepsSide DEF EditSimOverride
<1>2. ASSUME NEW e \in Editor, NEW c \in SUBSET Flag, EditUserOverride(e, c)
      PROVE  HubSideOK'
  <2>1. [overrides EXCEPT !.user = c] \in OverridesValue
    BY <1>a DEF OverridesValue
  <2>2. [NoEditYet EXCEPT !.copy = [overrides EXCEPT !.user = c]] \in EditRec
    BY <2>1, EditFacts
  <2> QED
    BY <1>2, <2>2, BeginKeepsSide DEF EditUserOverride
<1>3. ASSUME NEW e \in Editor, NEW f \in Flag, NEW on \in BOOLEAN, SwitchFlag(e, f, on)
      PROVE  HubSideOK'
  <2> DEFINE shown == [overrides EXCEPT !.display = Modified(@, f, on)]
             hubOnly == [shown EXCEPT !.user = Modified(@, f, on)]
             new == [NoEditYet EXCEPT !.flag = f, !.on = on]
  <2>1. shown \in OverridesValue /\ hubOnly \in OverridesValue
    BY <1>a DEF OverridesValue, Modified
  <2>2. new \in EditRec
    BY EditFacts DEF EditRec
  <2>3. \/ Begin(e, "fetch", [new EXCEPT !.copy = shown])
        \/ Begin(e, "save", [new EXCEPT !.copy = hubOnly])
    BY <1>3 DEF SwitchFlag
  <2> HIDE DEF shown, hubOnly, new
  <2>4. [new EXCEPT !.copy = shown] \in EditRec /\ [new EXCEPT !.copy = hubOnly] \in EditRec
    BY <2>1, <2>2, EditFacts
  <2> QED
    BY <2>3, <2>4, BeginKeepsSide
<1>4. ASSUME NEW e \in Editor, FetchUserConf(e) PROVE HubSideOK'
  <2>1. \A i \in Editor : edit'[i].step \in {"fetchSim", "putSim"} => edit'[i] = edit[i]
    BY <1>4, <1>a DEF FetchUserConf, EditRec
  <2> QED
    BY <1>4, <1>a, <2>1, SideMoves DEF FetchUserConf
<1>5. ASSUME NEW e \in Editor, GitHubFails(e) \/ PutUserConf(e) PROVE HubSideOK'
  <2>1. PICK d \in EditRec : d.step = "save" /\ edit' = [edit EXCEPT ![e] = d]
    <3>1. CASE edit' = [edit EXCEPT ![e].step = "save"]
      <4>1. edit' = [edit EXCEPT ![e] = [edit[e] EXCEPT !.step = "save"]]
        BY <3>1
      <4> QED
        BY <1>a, <4>1, EditFacts
    <3>2. CASE edit' = FallBack(e)
      BY <3>2, FallBackFacts
    <3> QED
      BY <1>5, <3>1, <3>2 DEF PutUserConf, GitHubFails
  <2>2. \A i \in Editor : edit'[i].step \in {"fetchSim", "putSim"} => edit'[i] = edit[i]
    BY <1>a, <2>1
  <2> QED
    BY <1>5, <1>a, <2>2, SideMoves DEF PutUserConf, GitHubFails
<1>6. ASSUME NEW e \in Editor, SaveOverrides(e) PROVE HubSideOK'
  <2>1. \A i \in Editor : edit'[i].step \in {"fetchSim", "putSim"} => edit'[i] = edit[i]
    BY <1>6, <1>a DEF SaveOverrides, EditRec
  <2>2. stale' \subseteq Fleet
    BY <1>6, <1>a DEF SaveOverrides
  <2> QED
    BY <1>6, <1>a, <2>1, <2>2, SideMoves DEF SaveOverrides
<1>7. ASSUME NEW e \in Editor, PushOverrides(e) \/ SimFileFails(e) PROVE HubSideOK'
  <2>1. \A i \in Editor : edit'[i].step \in {"fetchSim", "putSim"} => edit'[i] = edit[i]
    BY <1>7, <1>a, EditFacts DEF PushOverrides, SimFileFails
  <2> QED
    BY <1>7, <1>a, <2>1, SideMoves DEF PushOverrides, SimFileFails
<1>8. ASSUME NEW e \in Editor, NEW t \in Text, EditSimFile(e, t) PROVE HubSideOK'
  <2>1. [NoEditYet EXCEPT !.text = t] \in EditRec /\ [NoEditYet EXCEPT !.text = t].text = t
    BY EditFacts DEF EditRec
  <2> QED
    BY <1>8, <2>1, BeginKeepsSide DEF EditSimFile
<1>9. ASSUME NEW e \in Editor, FetchSimFile(e) PROVE HubSideOK'
  <2>1. \A i \in Editor : edit'[i].step \in {"fetchSim", "putSim"} =>
          edit[i].step \in {"fetchSim", "putSim"} /\ edit'[i].text = edit[i].text
    BY <1>9, <1>a DEF FetchSimFile, EditRec
  <2> QED
    BY <1>9, <1>a, <2>1, SideMoves DEF FetchSimFile
<1>10. ASSUME NEW e \in Editor, PutSimFile(e) PROVE HubSideOK'
  <2>1. edit[e].text \in Text
    BY <1>10 DEF PutSimFile, HubSideOK
  <2>2. simFile'.text \in Text /\ toSync' \subseteq Fleet
    BY <1>10, <1>a, <2>1 DEF PutSimFile
  <2>3. \A i \in Editor : edit'[i].step \in {"fetchSim", "putSim"} => edit'[i] = edit[i]
    BY <1>10, <1>a, EditFacts DEF PutSimFile
  <2> QED
    BY <1>10, <1>a, <2>2, <2>3, SideMoves DEF PutSimFile
<1>11. ASSUME NEW f \in Flag, Commit(f) PROVE HubSideOK'
  BY <1>11, <1>a, SideMoves DEF Commit
<1>12. ASSUME NEW s \in Fleet, Heartbeat(s) \/ SyncRepo(s) PROVE HubSideOK'
  <2>1. stale' \subseteq Fleet /\ toSync' \subseteq Fleet
    BY <1>12, <1>a DEF Heartbeat, SyncRepo
  <2> QED
    BY <1>12, <1>a, <2>1, SideMoves DEF Heartbeat, SyncRepo
<1>13. CASE UNCHANGED confVars
  BY <1>13, <1>a, SideMoves DEF confVars
<1> QED
  BY <1>1, <1>2, <1>3, <1>4, <1>5, <1>6, <1>7, <1>8, <1>9, <1>10, <1>11, <1>12,
     <1>13 DEF ConfNext

\* Requests, overrides and the two files of the repository keep their types
\* for any number of flags, texts and editors; simulation.conf always holds a
\* text (save_simulation_conf).
THEOREM ConfTypeCorrect == ConfSpec => []ConfTypeOK
<1>1. ConfInit => RepoOK /\ PutInv /\ HubSideOK
  <2> SUFFICES ASSUME ConfInit PROVE RepoOK /\ PutInv /\ HubSideOK
    OBVIOUS
  <2>1. simFile.rev = 0 /\ simFile.text \in Text /\ simFile = [rev |-> 0, text |-> simFile.text]
    BY OverrideAssumption DEF ConfInit
  <2>2. RepoOK
    BY <2>1, EditFacts, OverrideAssumption DEF ConfInit, RepoOK, OverridesValue
  <2>3. PutInv
    BY EditFacts DEF ConfInit, PutInv
  <2>4. HubSideOK
    BY <2>1, EditFacts, OverrideAssumption DEF ConfInit, HubSideOK
  <2> QED
    BY <2>2, <2>3, <2>4
<1>2. RepoOK /\ HubSideOK => ConfTypeOK
  <2> SUFFICES ASSUME RepoOK, HubSideOK PROVE ConfTypeOK
    OBVIOUS
  <2>1. simFile \in [rev: 0..MaxCommit, text: Text]
    BY DEF RepoOK, HubSideOK
  <2> QED
    BY <2>1 DEF RepoOK, HubSideOK, ConfTypeOK, EditRec
<1> QED
  BY <1>1, <1>2, RepoStep, SideStep, PTL DEF ConfSpec

-----------------------------------------------------------------------------
(* CentralBrowse.                                                          *)

KeptRec == [at: Int, part: Part]
ReaderRec == [step: {"idle", "fetch"}, start: 0..MaxMinute, from: Account,
              sites: {"asked", "there", "failed"}, got: [Feed -> Part \cup {Asked}]]
Pages == PageValue \cup {NoPage}

\* How long a part of f may be behind the date of its page.
Limit(f, part) == IF part.empty THEN KeepEmpty[f] ELSE KeepFor[f]

\* A page is dated, if it says nothing of a part that is too old.
Dated(p) ==
  p # NoPage /\ p.from = "newCentral" =>
    \A f \in Feed : p.cachedAt < p.parts[f].fetched + Limit(f, p.parts[f])

\* A cache entry is as old as its answer, or as much older as an empty one is
\* kept for less; and what a refresh has got so far makes a dated page.
KeptInv ==
  \A f \in Feed : kept[f] # NeverKept =>
    kept[f].at + KeepFor[f] = kept[f].part.fetched + Limit(f, kept[f].part)
GotInv ==
  \A r \in Reader : reader[r].step = "fetch" =>
    /\ reader[r].start <= minute
    /\ reader[r].from = "newCentral" =>
         \A f \in Feed : reader[r].got[f] # Asked =>
           reader[r].start < reader[r].got[f].fetched + Limit(f, reader[r].got[f])
BrowseInv == KeptInv /\ GotInv /\ Dated(page) /\ Dated(pageFile)

\* The type invariant, with the records named.
BrowseParts ==
  /\ minute \in 0..MaxMinute /\ account \in Account
  /\ kept \in [Feed -> KeptRec \cup {NeverKept}]
  /\ page \in Pages /\ pageFile \in Pages
  /\ reader \in [Reader -> ReaderRec]
  /\ warmed \in BOOLEAN /\ halts \in 0..MaxHalt

\* Numbers, and the parts' fields.
LEMMA BrowseFacts ==
  /\ MaxMinute \in Nat /\ MaxHalt \in Nat
  /\ \A f \in Feed : /\ KeepFor[f] \in Nat /\ KeepEmpty[f] \in Nat
                     /\ 0 < KeepEmpty[f] /\ KeepEmpty[f] <= KeepFor[f]
  /\ \A p \in Part \cup {Asked}, f \in Feed :
       p.fetched \in Int /\ p.empty \in BOOLEAN /\ Limit(f, p) \in Nat /\ Limit(f, p) > 0
  /\ IdleReader \in ReaderRec
  /\ Asked \notin Part
  /\ \A t \in 0..MaxMinute, b \in BOOLEAN : [fetched |-> t, empty |-> b] \in Part
<1>1. /\ MaxMinute \in Nat /\ MaxHalt \in Nat
      /\ \A f \in Feed : /\ KeepFor[f] \in Nat /\ KeepEmpty[f] \in Nat
                         /\ 0 < KeepEmpty[f] /\ KeepEmpty[f] <= KeepFor[f]
  BY BrowseAssumption
<1>2. \A p \in Part \cup {Asked} : p.fetched \in Int /\ p.empty \in BOOLEAN
  <2>1. \A p \in Part : p.fetched \in Int /\ p.empty \in BOOLEAN
    <3>1. \A t \in 0..MaxMinute : t \in Int
      BY <1>1
    <3> QED
      BY <3>1 DEF Part
  <2>2. Asked.fetched = -1 /\ Asked.empty = TRUE
    BY DEF Asked
  <2>3. -1 \in Int
    OBVIOUS
  <2> QED
    BY <2>1, <2>2, <2>3
<1>3. \A p \in Part \cup {Asked}, f \in Feed : Limit(f, p) \in Nat /\ Limit(f, p) > 0
  BY <1>1 DEF Limit
<1>4. [f \in Feed |-> Asked] \in [Feed -> Part \cup {Asked}]
  OBVIOUS
<1>5. IdleReader \in ReaderRec
  <2>1. PICK g \in [Feed -> Part \cup {Asked}] :
          IdleReader = [step |-> "idle", start |-> 0, from |-> "none", sites |-> "asked", got |-> g]
    BY <1>4 DEF IdleReader
  <2>2. 0 \in 0..MaxMinute /\ "none" \in Account
    BY <1>1 DEF Account
  <2> QED
    BY <2>1, <2>2 DEF ReaderRec
<1>6. Asked \notin Part
  BY <1>1 DEF Asked, Part
<1>7. \A t \in 0..MaxMinute, b \in BOOLEAN : [fetched |-> t, empty |-> b] \in Part
  BY DEF Part
<1> QED
  BY <1>1, <1>2, <1>3, <1>5, <1>6, <1>7

\* The present format keeps a page, and its dates.
LEMMA NormalizedFacts ==
  ASSUME NEW p \in Pages
  PROVE  Normalized(p) \in Pages /\ (Dated(p) => Dated(Normalized(p)))
<1>1. CASE p.rows # "sums"
  BY <1>1 DEF Normalized
<1>2. CASE p.rows = "sums"
  <2>1. p \in PageValue
    BY <1>2 DEF Pages, NoPage
  <2>2. PICK q : q = Normalized(p)
    OBVIOUS
  <2>3. /\ q \in PageValue /\ q.parts = p.parts /\ q.cachedAt = p.cachedAt
        /\ q.from = p.from
    BY <1>2, <2>1, <2>2 DEF Normalized, PageValue
  <2>4. p # NoPage
    BY <1>2 DEF NoPage
  <2> QED
    BY <2>2, <2>3, <2>4 DEF Dated, Pages
<1> QED
  BY <1>1, <1>2

\* What the caches answer is dated by now.
LEMMA CacheFacts ==
  ASSUME BrowseParts, KeptInv, NEW f \in Feed
  PROVE  /\ FromCache(f) \in Part \cup {Asked}
         /\ FromCache(f) # Asked => minute < FromCache(f).fetched + Limit(f, FromCache(f))
<1>1. CASE kept[f] # NeverKept /\ minute - kept[f].at < KeepFor[f]
  <2>1. kept[f] \in KeptRec
    BY <1>1 DEF BrowseParts
  <2>2. kept[f].at \in Int /\ kept[f].part \in Part
    BY <2>1 DEF KeptRec
  <2>3. FromCache(f) = kept[f].part
    BY <1>1 DEF FromCache
  <2>4. minute \in Int
    BY BrowseFacts DEF BrowseParts
  <2> QED
    BY <1>1, <2>2, <2>3, <2>4, BrowseFacts DEF KeptInv
<1>2. CASE ~(kept[f] # NeverKept /\ minute - kept[f].at < KeepFor[f])
  BY <1>2 DEF FromCache
<1> QED
  BY <1>1, <1>2

\* An answer that is kept.
LEMMA KeepFacts ==
  ASSUME BrowseParts, NEW f \in Feed, NEW part \in Part, part.fetched = minute
  PROVE  /\ Stamped(f, part) \in KeptRec
         /\ Stamped(f, part).part = part
         /\ Stamped(f, part).at + KeepFor[f] = part.fetched + Limit(f, part)
<1>1. minute \in Int /\ KeepFor[f] \in Nat /\ KeepEmpty[f] \in Nat /\ part.empty \in BOOLEAN
  BY BrowseFacts DEF BrowseParts
<1> QED
  BY <1>1 DEF Stamped, KeptRec, Limit

\* The page that is warmed up is a page, and dated if both are.
LEMMA WarmFacts ==
  ASSUME BrowseParts, BrowseInv
  PROVE  Warm \in Pages /\ Dated(Warm)
  BY DEF Warm, BrowseParts, BrowseInv

\* A refresh that is written at once is not from Central; another one begins
\* with what the caches answer.
LEMMA RefreshFacts ==
  ASSUME BrowseParts, BrowseInv, NEW r \in Reader, Refresh(r)
  PROVE  BrowseParts' /\ BrowseInv'
<1>a. minute \in 0..MaxMinute /\ minute \in Int /\ account \in Account
  BY BrowseFacts DEF BrowseParts
<1>b. UNCHANGED <<minute, account, kept, warmed, halts>>
  BY DEF Refresh
<1>1. CASE account \in {"none", "spokes"}
  <2>1. reader' = reader
    BY <1>1 DEF Refresh
  <2>2. PICK parts \in [Feed -> Part], rows \in {"each", "bySite"} :
          Save([parts |-> parts, cachedAt |-> minute, from |-> account, rows |-> rows])
    <3>1. CASE account = "none"
      <4>1. [f \in Feed |-> EmptyPart(minute)] \in [Feed -> Part]
        BY <1>a, BrowseFacts DEF EmptyPart
      <4> QED
        BY <3>1, <4>1 DEF Refresh
    <3>2. CASE account = "spokes"
      <4>1. [Feed -> [fetched: {minute}, empty: BOOLEAN]] \subseteq [Feed -> Part]
        BY <1>a DEF Part
      <4> QED
        BY <3>2, <4>1 DEF Refresh
    <3> QED
      BY <1>1, <3>1, <3>2
  <2>3. PICK p \in PageValue : page' = p /\ pageFile' = p /\ p.from # "newCentral"
    <3>1. [parts |-> parts, cachedAt |-> minute, from |-> account, rows |-> rows] \in PageValue
      BY <1>a, <2>2 DEF PageValue
    <3> QED
      BY <1>1, <2>2, <3>1 DEF Save
  <2>4. Dated(page') /\ Dated(pageFile') /\ page' \in Pages /\ pageFile' \in Pages
    BY <2>3 DEF Dated, Pages
  <2>5. BrowseParts'
    BY <1>b, <2>1, <2>4 DEF BrowseParts
  <2> QED
    BY <1>b, <2>1, <2>4, <2>5 DEF BrowseInv, KeptInv, GotInv, Dated
<1>2. CASE account \in {"newCentral", "classic"}
  <2> DEFINE got == [f \in Feed |-> IF account = "newCentral" THEN FromCache(f) ELSE Asked]
  <2>1. /\ got \in [Feed -> Part \cup {Asked}]
        /\ account = "newCentral" => \A f \in Feed : got[f] # Asked =>
             minute < got[f].fetched + Limit(f, got[f])
    BY CacheFacts DEF BrowseInv
  <2>2. /\ reader' = [reader EXCEPT ![r] =
             [step |-> "fetch", start |-> minute, from |-> account, sites |-> "asked", got |-> got]]
        /\ page' = Warm /\ UNCHANGED pageFile
    BY <1>2 DEF Refresh
  <2> HIDE DEF got
  <2>3. [step |-> "fetch", start |-> minute, from |-> account, sites |-> "asked", got |-> got]
          \in ReaderRec
    BY <1>a, <2>1 DEF ReaderRec
  <2>4. reader' \in [Reader -> ReaderRec]
    BY <2>2, <2>3 DEF BrowseParts
  <2>5. page' \in Pages /\ Dated(page')
    BY <2>2, WarmFacts
  <2>6. BrowseParts'
    BY <1>b, <2>2, <2>4, <2>5 DEF BrowseParts
  <2>7. GotInv'
    <3>1. /\ reader'[r].start = minute /\ reader'[r].from = account /\ reader'[r].got = got
          /\ \A q \in Reader \ {r} : reader'[q] = reader[q]
      BY <2>2 DEF BrowseParts
    <3> QED
      BY <1>a, <1>b, <2>1, <3>1 DEF BrowseInv, GotInv
  <2>8. KeptInv' /\ Dated(pageFile)'
    BY <1>b, <2>2 DEF BrowseInv, KeptInv, Dated
  <2> QED
    BY <2>5, <2>6, <2>7, <2>8 DEF BrowseInv, Dated
<1> QED
  BY <1>1, <1>2 DEF Refresh

\* An answer is never older than the refresh that asked for it.
LEMMA AnswerFacts ==
  ASSUME BrowseParts, BrowseInv, NEW r \in Reader, NEW f \in Feed, Answer(r, f)
  PROVE  BrowseParts' /\ BrowseInv'
<1>a. /\ minute \in 0..MaxMinute /\ reader[r] \in ReaderRec
      /\ reader[r].start \in Int /\ reader[r].got \in [Feed -> Part \cup {Asked}]
  BY BrowseFacts DEF BrowseParts, ReaderRec
<1>b. UNCHANGED <<minute, account, page, pageFile, warmed, halts>>
  BY DEF Answer
<1>1. PICK part \in Part :
        /\ part.fetched = minute
        /\ reader' = [reader EXCEPT ![r].got[f] = part]
        /\ IF reader[r].from = "newCentral" THEN Keep1(f, part) ELSE UNCHANGED kept
  BY <1>a, BrowseFacts DEF Answer
<1>2. kept' \in [Feed -> KeptRec \cup {NeverKept}] /\ KeptInv'
  <2>1. CASE kept' = kept
    BY <2>1 DEF BrowseParts, BrowseInv, KeptInv
  <2>2. CASE Keep1(f, part)
    <3>1. PICK k \in KeptRec : /\ kept' = [kept EXCEPT ![f] = k]
                               /\ k.at + KeepFor[f] = k.part.fetched + Limit(f, k.part)
      <4>1. /\ Stamped(f, part) \in KeptRec
            /\ Stamped(f, part).part = part
            /\ Stamped(f, part).at + KeepFor[f] = part.fetched + Limit(f, part)
        BY <1>1, KeepFacts
      <4>2. kept' = [kept EXCEPT ![f] = Stamped(f, part)]
        BY <2>2 DEF Keep1
      <4> QED
        BY <4>1, <4>2
    <3> QED
      BY <3>1 DEF BrowseParts, BrowseInv, KeptInv
  <2> QED
    BY <1>1, <2>1, <2>2
<1>3. PICK d \in ReaderRec :
        /\ reader' = [reader EXCEPT ![r] = d]
        /\ d.step = reader[r].step /\ d.start = reader[r].start /\ d.from = reader[r].from
        /\ d.got = [reader[r].got EXCEPT ![f] = part]
  <2> DEFINE d == [reader[r] EXCEPT !.got = [reader[r].got EXCEPT ![f] = part]]
  <2>1. [reader[r].got EXCEPT ![f] = part] \in [Feed -> Part \cup {Asked}]
    BY <1>a
  <2>2. /\ d \in ReaderRec
        /\ d.step = reader[r].step /\ d.start = reader[r].start /\ d.from = reader[r].from
        /\ d.got = [reader[r].got EXCEPT ![f] = part]
    BY <1>a, <2>1 DEF ReaderRec
  <2>3. reader' = [reader EXCEPT ![r] = d]
    BY <1>1
  <2> QED
    BY <2>2, <2>3
<1>4. BrowseParts'
  BY <1>b, <1>2, <1>3 DEF BrowseParts
<1>5. reader[r].start < part.fetched + Limit(f, part)
  <2>1. reader[r].start <= minute
    BY DEF BrowseInv, GotInv, Answer
  <2>2. Limit(f, part) \in Nat /\ Limit(f, part) > 0 /\ minute \in Int
    BY <1>a, BrowseFacts
  <2> QED
    BY <1>a, <1>1, <2>1, <2>2
<1>6. GotInv'
  BY <1>a, <1>b, <1>3, <1>5 DEF BrowseParts, BrowseInv, GotInv
<1> QED
  BY <1>b, <1>2, <1>4, <1>6 DEF BrowseInv, Dated

\* The answers become a dated page.
LEMMA FinishFacts ==
  ASSUME BrowseParts, BrowseInv, NEW r \in Reader, Finish(r)
  PROVE  BrowseParts' /\ BrowseInv'
<1>a. UNCHANGED <<minute, account, kept, warmed, halts>>
  BY DEF Finish
<1>1. reader' = [reader EXCEPT ![r] = IdleReader] /\ IdleReader.step = "idle"
  BY DEF Finish, IdleReader
<1>2. reader' \in [Reader -> ReaderRec] /\ GotInv' /\ KeptInv'
  BY <1>a, <1>1, BrowseFacts DEF BrowseParts, BrowseInv, GotInv, KeptInv
<1>3. PageOf(r) \in Pages /\ Dated(PageOf(r))
  <2>1. /\ reader[r] \in ReaderRec
        /\ reader[r].step = "fetch" /\ \A f \in Feed : reader[r].got[f] # Asked
    BY DEF Finish, Complete, BrowseParts
  <2>2. reader[r].got \in [Feed -> Part]
    BY <2>1 DEF ReaderRec
  <2>3. PageOf(r) \in PageValue
    BY <2>1, <2>2 DEF PageOf, PageValue, ReaderRec
  <2>4. /\ PageOf(r).from = reader[r].from /\ PageOf(r).cachedAt = reader[r].start
        /\ PageOf(r).parts = reader[r].got
    BY DEF PageOf
  <2> QED
    BY <2>1, <2>3, <2>4 DEF Pages, Dated, BrowseInv, GotInv
<1>4. /\ page' \in Pages /\ pageFile' \in Pages
      /\ Dated(page') /\ Dated(pageFile')
  <2>1. \/ page' = PageOf(r) /\ pageFile' = PageOf(r)
        \/ page' = Normalized(page) /\ pageFile' = Normalized(page)
        \/ page' = page /\ pageFile' = pageFile
    BY DEF Finish, Save
  <2>2. Normalized(page) \in Pages /\ Dated(Normalized(page))
    BY NormalizedFacts DEF BrowseParts, BrowseInv
  <2> QED
    BY <1>3, <2>1, <2>2 DEF BrowseParts, BrowseInv
<1>5. BrowseParts'
  BY <1>a, <1>2, <1>4 DEF BrowseParts
<1> QED
  BY <1>2, <1>4, <1>5 DEF BrowseInv, Dated

\* Every step keeps types and dates.
LEMMA BrowseStep ==
  BrowseParts /\ BrowseInv /\ [BrowseNext]_browseVars => BrowseParts' /\ BrowseInv'
<1> SUFFICES ASSUME BrowseParts, BrowseInv, [BrowseNext]_browseVars
             PROVE  BrowseParts' /\ BrowseInv'
  OBVIOUS
<1>1. CASE WarmUp \/ ViewCached
  <2>1. /\ page' = Warm /\ warmed' \in BOOLEAN
        /\ UNCHANGED <<minute, account, kept, pageFile, reader, halts>>
    BY <1>1 DEF WarmUp, ViewCached, BrowseParts
  <2>2. page' \in Pages /\ Dated(page')
    BY <2>1, WarmFacts
  <2> QED
    BY <2>1, <2>2 DEF BrowseParts, BrowseInv, KeptInv, GotInv, Dated
<1>2. CASE Poll \/ \E v \in Viewer : View(v)
  BY <1>2, RefreshFacts DEF Poll, View, Reader
<1>3. ASSUME NEW r \in Reader, NEW f \in Feed, Answer(r, f) PROVE BrowseParts' /\ BrowseInv'
  BY <1>3, AnswerFacts
<1>4. ASSUME NEW r \in Reader, AnswerSites(r) PROVE BrowseParts' /\ BrowseInv'
  <2>1. PICK how \in {"there", "failed"} : reader' = [reader EXCEPT ![r].sites = how]
    BY <1>4 DEF AnswerSites
  <2>2. PICK d \in ReaderRec :
          /\ reader' = [reader EXCEPT ![r] = d]
          /\ d.step = reader[r].step /\ d.start = reader[r].start /\ d.from = reader[r].from
          /\ d.got = reader[r].got
    <3> DEFINE d == [reader[r] EXCEPT !.sites = how]
    <3>1. reader[r] \in ReaderRec
      BY DEF BrowseParts
    <3>2. /\ d \in ReaderRec
          /\ d.step = reader[r].step /\ d.start = reader[r].start /\ d.from = reader[r].from
          /\ d.got = reader[r].got
      BY <3>1 DEF ReaderRec
    <3> QED
      BY <2>1, <3>2
  <2>3. UNCHANGED <<minute, account, kept, page, pageFile, warmed, halts>>
    BY <1>4 DEF AnswerSites
  <2> QED
    BY <2>2, <2>3 DEF BrowseParts, BrowseInv, KeptInv, GotInv, Dated
<1>5. ASSUME NEW r \in Reader, Finish(r) PROVE BrowseParts' /\ BrowseInv'
  BY <1>5, FinishFacts
<1>6. CASE Halt
  <2>1. /\ kept' = [f \in Feed |-> NeverKept] /\ page' = NoPage /\ warmed' = FALSE
        /\ pageFile' \in {pageFile, NoPage} /\ reader' = [r \in Reader |-> IdleReader]
        /\ UNCHANGED <<minute, account>>
    BY <1>6 DEF Halt
  <2>2. halts' \in 0..MaxHalt
    BY <1>6, BrowseFacts DEF Halt, BrowseParts
  <2>3. BrowseParts'
    BY <2>1, <2>2, BrowseFacts DEF BrowseParts, Pages
  <2>4. Dated(page') /\ Dated(pageFile')
    BY <2>1 DEF Dated, BrowseInv
  <2>5. KeptInv' /\ GotInv'
    BY <2>1 DEF KeptInv, GotInv, IdleReader
  <2> QED
    BY <2>3, <2>4, <2>5 DEF BrowseInv, Dated
<1>7. CASE AMinute
  <2>1. /\ minute' = minute + 1 /\ minute' \in 0..MaxMinute
        /\ UNCHANGED <<account, kept, page, pageFile, reader, warmed, halts>>
    BY <1>7, BrowseFacts DEF AMinute, BrowseParts
  <2>2. BrowseParts'
    BY <2>1 DEF BrowseParts
  <2>3. GotInv'
    <3>1. \A r \in Reader : reader[r].start \in Int
      BY BrowseFacts DEF BrowseParts, ReaderRec
    <3> QED
      BY <2>1, <3>1, BrowseFacts DEF BrowseInv, GotInv, BrowseParts
  <2> QED
    BY <2>1, <2>2, <2>3 DEF BrowseInv, KeptInv, Dated
<1>8. CASE UNCHANGED browseVars
  BY <1>8 DEF browseVars, BrowseParts, BrowseInv, KeptInv, GotInv, Dated
<1> QED
  BY <1>1, <1>2, <1>3, <1>4, <1>5, <1>6, <1>7, <1>8 DEF BrowseNext

\* It holds of every reachable state.
LEMMA BrowseInvCorrect == BrowseSpec => [](BrowseParts /\ BrowseInv)
<1>1. BrowseInit => BrowseParts /\ BrowseInv
  <2> SUFFICES ASSUME BrowseInit PROVE BrowseParts /\ BrowseInv
    OBVIOUS
  <2>1. OldPage \in PageValue /\ OldPage.from # "newCentral"
    <3>1. [f \in Feed |-> EmptyPart(0)] \in [Feed -> Part]
      <4>1. 0 \in 0..MaxMinute
        BY BrowseFacts
      <4> QED
        BY <4>1, BrowseFacts DEF EmptyPart
    <3>2. 0 \in 0..MaxMinute
      BY BrowseFacts
    <3> QED
      BY <3>1, <3>2 DEF OldPage, PageValue, Account
  <2>2. /\ page \in Pages /\ pageFile \in Pages /\ Dated(page) /\ Dated(pageFile)
    BY <2>1 DEF BrowseInit, Pages, Dated
  <2>3. BrowseParts
    <3>1. 0 \in 0..MaxMinute /\ 0 \in 0..MaxHalt
      BY BrowseFacts
    <3>2. /\ kept \in [Feed -> KeptRec \cup {NeverKept}]
          /\ reader \in [Reader -> ReaderRec]
      BY BrowseFacts DEF BrowseInit
    <3> QED
      BY <2>2, <3>1, <3>2 DEF BrowseInit, BrowseParts
  <2>4. KeptInv /\ GotInv
    BY DEF BrowseInit, KeptInv, GotInv, IdleReader
  <2> QED
    BY <2>2, <2>3, <2>4 DEF BrowseInv
<1> QED
  BY <1>1, BrowseStep, PTL DEF BrowseSpec

\* The variables keep their types, whoever refreshes the page when.
THEOREM BrowseTypeCorrect == BrowseSpec => []BrowseTypeOK
<1>1. BrowseParts => BrowseTypeOK
  BY DEF BrowseParts, BrowseTypeOK, KeptRec, ReaderRec, Pages
<1> QED
  BY <1>1, BrowseInvCorrect, PTL

\* For any number of feeds and requests, and any times the caches keep their
\* answers, nothing on the Central page is older than its date by more than
\* its feed's cache allows (_refresh_central_browse, browse_all).
THEOREM BrowseDatedCorrect == BrowseSpec => []BrowseDated
<1>1. BrowseInv => BrowseDated
  BY DEF BrowseInv, BrowseDated, Dated, Limit
<1> QED
  BY <1>1, BrowseInvCorrect, PTL

-----------------------------------------------------------------------------
(* AcmeOrder.                                                              *)

RequestRec == [phase: Phase, run: 0..MaxRun, entry: BOOLEAN, cleanup: BOOLEAN,
               cfg: ConfigValue, seen: ZoneValue]
AcmeParts ==
  /\ provider \in Provider /\ zone \in ZoneValue
  /\ request \in [Requester -> RequestRec]
  /\ \A r \in Requester : request[r].phase # "idle" => request[r].run \in 1..MaxRun
  /\ acmeConfig \in ConfigValue
  /\ pair \in [cert: 0..MaxRun, key: 0..MaxRun]
  /\ expiring \in BOOLEAN /\ mixed \in BOOLEAN
  /\ runs \in 0..MaxRun /\ dnsFaults \in 0..MaxDnsFault

\* As long as nothing excuses a record left behind:
Excused == dnsFaults # 0 \/ (provider = "namecheap" /\ mixed)

\* each record in the zone is in the table of the request that made it,
Has(d, n) == d.run = n /\ d.entry /\ d.phase \in {"propagating", "answering", "cleaning"}
Owner(r, n) == Has(request[r], n)
Owned == \A n \in zone.txt : \E r \in Requester : Owner(r, n)
\* a request that has a record cleans it up, and has none before it made one,
Cleans(d) == /\ d.phase \in {"reading", "ordering"} => ~d.entry
             /\ d.phase \in {"answering", "cleaning"} /\ d.entry => d.cleanup
WillClean == \A r \in Requester : Cleans(request[r])
\* a record set that is deleted by its value has one value,
OneValue == provider \in {"gcloud", "route53"} => \A m, n \in zone.txt : m = n
\* and a host list that is written back was read when no request was under way.
CleanList == provider = "namecheap" =>
  /\ \A q, r \in Requester : request[q].phase # "idle" /\ request[r].phase # "idle" => q = r
  /\ \A r \in Requester : request[r].seen.txt = {}
StrayFree == Owned /\ WillClean /\ OneValue /\ CleanList
StrayInv == Excused \/ StrayFree

\* Values of a request.
LEMMA RequestFacts ==
  /\ MaxRun \in Nat /\ MaxHost \in Nat /\ MaxDnsFault \in Nat
  /\ [txt |-> {}, hosts |-> {}] \in ZoneValue
  /\ [enabled |-> FALSE, renewed |-> 0, failed |-> FALSE] \in ConfigValue
  /\ [enabled |-> TRUE, renewed |-> 0, failed |-> FALSE] \in ConfigValue
  /\ NoRequest \in RequestRec
  /\ NoRequest.phase = "idle" /\ NoRequest.run = 0 /\ ~NoRequest.entry /\ ~NoRequest.cleanup
  /\ NoRequest.seen.txt = {} /\ NoRequest.cfg \in ConfigValue
<1>1. MaxRun \in Nat /\ MaxHost \in Nat /\ MaxDnsFault \in Nat /\ 0 \in 0..MaxRun
  BY AcmeAssumption
<1>2. [txt |-> {}, hosts |-> {}] \in ZoneValue
  BY DEF ZoneValue
<1>3. /\ [enabled |-> FALSE, renewed |-> 0, failed |-> FALSE] \in ConfigValue
      /\ [enabled |-> TRUE, renewed |-> 0, failed |-> FALSE] \in ConfigValue
  BY <1>1 DEF ConfigValue
<1>4. NoRequest \in RequestRec
  BY <1>1, <1>2, <1>3 DEF NoRequest, RequestRec, Phase
<1> QED
  BY <1>1, <1>2, <1>3, <1>4 DEF NoRequest

\* What a provider leaves of the records when one is created,
LEMMA CreateFacts ==
  ASSUME provider \in Provider, NEW z \in ZoneValue, NEW s \in ZoneValue, NEW n \in 1..MaxRun
  PROVE  /\ RecordsAfter(TRUE, z, n, s) \in ZoneValue
         /\ provider # "namecheap" => RecordsAfter(TRUE, z, n, s).txt \subseteq z.txt \cup {n}
  BY DEF Provider, RecordsAfter, Cloudflare, HurricaneElectric, GoDaddy, DigitalOcean, Porkbun,
         GoogleCloud, DNSimple, AzureDns, Route53, Namecheap, RecordById, WholeSet, ExactSet,
         ZoneValue

\* namecheap gets back the records that were read, and the new one.
LEMMA CreateNamecheap ==
  ASSUME provider = "namecheap", NEW z \in ZoneValue, NEW s \in ZoneValue, NEW n \in 1..MaxRun
  PROVE  RecordsAfter(TRUE, z, n, s).txt = s.txt \cup {n}
  BY DEF RecordsAfter, Namecheap, ZoneValue

\* A set that takes one value has the new record alone.
LEMMA CreateExact ==
  ASSUME provider \in {"gcloud", "route53"},
         NEW z \in ZoneValue, NEW s \in ZoneValue, NEW n \in 1..MaxRun
  PROVE  RecordsAfter(TRUE, z, n, s).txt = {n}
  BY DEF RecordsAfter, GoogleCloud, Route53, ExactSet, ZoneValue

\* and when it is deleted.
LEMMA DeleteFacts ==
  ASSUME provider \in Provider, NEW z \in ZoneValue, NEW s \in ZoneValue, NEW n \in 1..MaxRun
  PROVE  /\ RecordsAfter(FALSE, z, n, s) \in ZoneValue
         /\ provider # "namecheap" => RecordsAfter(FALSE, z, n, s).txt \subseteq z.txt
         /\ provider \notin {"gcloud", "route53", "namecheap"} =>
              n \notin RecordsAfter(FALSE, z, n, s).txt
         /\ provider \in {"gcloud", "route53"} /\ z.txt = {n} =>
              n \notin RecordsAfter(FALSE, z, n, s).txt
  BY DEF Provider, RecordsAfter, Cloudflare, HurricaneElectric, GoDaddy, DigitalOcean, Porkbun,
         GoogleCloud, DNSimple, AzureDns, Route53, Namecheap, RecordById, WholeSet, ExactSet,
         ZoneValue

\* namecheap gets back the records that were read.
LEMMA DeleteNamecheap ==
  ASSUME provider = "namecheap", NEW z \in ZoneValue, NEW s \in ZoneValue, NEW n \in 1..MaxRun
  PROVE  RecordsAfter(FALSE, z, n, s).txt = s.txt
  BY DEF RecordsAfter, Namecheap, ZoneValue

\* What the steps of a request make of it.
LEMMA RequestMoves ==
  ASSUME NEW d \in RequestRec
  PROVE  /\ \A x \in Phase :
              /\ [d EXCEPT !.phase = x] \in RequestRec
              /\ [d EXCEPT !.phase = x].phase = x
              /\ [d EXCEPT !.phase = x].run = d.run
              /\ [d EXCEPT !.phase = x].entry = d.entry
              /\ [d EXCEPT !.phase = x].cleanup = d.cleanup
              /\ [d EXCEPT !.phase = x].seen = d.seen
         /\ \A z \in ZoneValue : /\ [d EXCEPT !.seen = z] \in RequestRec
                                 /\ [d EXCEPT !.seen = z].seen = z
         /\ \A c \in ConfigValue :
              LET e == [d EXCEPT !.phase = "cleaning", !.cfg = c]
              IN  /\ e \in RequestRec /\ e.phase = "cleaning" /\ e.run = d.run
                  /\ e.entry = d.entry /\ e.cleanup = d.cleanup /\ e.seen = d.seen
         /\ d.run \in 0..MaxRun /\ d.cfg \in ConfigValue /\ d.seen \in ZoneValue
         /\ d.phase \in Phase /\ d.entry \in BOOLEAN /\ d.cleanup \in BOOLEAN
  BY DEF RequestRec, Phase

\* One request changes, and the types stay.
LEMMA MoveType ==
  ASSUME AcmeParts, NEW r \in Requester, NEW d \in RequestRec,
         d.phase # "idle" => d.run \in 1..MaxRun,
         request' = [request EXCEPT ![r] = d],
         zone' \in ZoneValue, acmeConfig' \in ConfigValue,
         pair' \in [cert: 0..MaxRun, key: 0..MaxRun],
         expiring' \in BOOLEAN, mixed' \in BOOLEAN,
         runs' \in 0..MaxRun, dnsFaults' \in 0..MaxDnsFault, provider' = provider
  PROVE  AcmeParts'
  BY DEF AcmeParts

\* One request changes, which was under way: the records that are left are
\* those it has now, and others that were left.
LEMMA MoveFree ==
  ASSUME AcmeParts, StrayFree, NEW r \in Requester, NEW d \in RequestRec,
         request' = [request EXCEPT ![r] = d], provider' = provider,
         request[r].phase # "idle", Cleans(d),
         provider = "namecheap" => d.seen.txt = {},
         \A n \in zone'.txt : Has(d, n) \/ (n \in zone.txt /\ ~Owner(r, n)),
         provider \in {"gcloud", "route53"} => \A m, n \in zone'.txt : m = n
  PROVE  StrayFree'
<1>1. /\ request'[r] = d /\ \A q \in Requester \ {r} : request'[q] = request[q]
      /\ request \in [Requester -> RequestRec]
  BY DEF AcmeParts
<1>2. Owned'
  BY <1>1 DEF StrayFree, Owned, Owner
<1>3. WillClean' /\ OneValue'
  BY <1>1 DEF StrayFree, WillClean, OneValue
<1>4. CleanList'
  BY <1>1 DEF StrayFree, CleanList
<1> QED
  BY <1>2, <1>3, <1>4 DEF StrayFree

\* Nothing excuses more than before.
LEMMA StaysExcused ==
  ASSUME AcmeParts, Excused, provider' = provider, mixed => mixed',
         dnsFaults' = dnsFaults \/ DnsFault
  PROVE  Excused'
  BY RequestFacts DEF AcmeParts, Excused, DnsFault

\* A fault excuses.
LEMMA FaultExcuses ==
  ASSUME AcmeParts, DnsFault
  PROVE  dnsFaults' \in 0..MaxDnsFault /\ Excused'
  BY RequestFacts DEF AcmeParts, Excused, DnsFault

AcmeInv == AcmeParts /\ StrayInv

\* A request that starts while no other one runs finds no record.
LEMMA StartKeeps ==
  ASSUME AcmeInv, NEW r \in Requester, StartRequest(r)
  PROVE  AcmeInv'
<1>a. AcmeParts /\ StrayInv /\ request \in [Requester -> RequestRec]
  BY DEF AcmeInv, AcmeParts
<1>b. UNCHANGED <<provider, zone, acmeConfig, pair, expiring, dnsFaults>>
  BY DEF StartRequest
<1>1. runs' \in 1..MaxRun /\ runs' = runs + 1
  BY <1>a, RequestFacts DEF StartRequest, AcmeParts
<1>2. PICK d \in RequestRec :
        /\ request' = [request EXCEPT ![r] = d]
        /\ d.phase \in {"reading", "ordering"} /\ d.run = runs'
        /\ ~d.entry /\ ~d.cleanup /\ d.seen.txt = {}
  <2> DEFINE x == IF provider = "namecheap" THEN "reading" ELSE "ordering"
             d == [NoRequest EXCEPT !.phase = x, !.run = runs + 1, !.cfg = acmeConfig]
  <2>1. acmeConfig \in ConfigValue /\ x \in {"reading", "ordering"} /\ runs + 1 \in 0..MaxRun
    BY <1>a, <1>1, RequestFacts DEF AcmeParts
  <2> HIDE DEF x
  <2>2. d \in RequestRec /\ d.phase = x /\ d.run = runs + 1 /\ d.entry = NoRequest.entry
        /\ d.cleanup = NoRequest.cleanup /\ d.seen = NoRequest.seen
    <3>1. NoRequest \in RequestRec
      BY RequestFacts
    <3> QED
      BY <2>1, <3>1 DEF RequestRec, Phase
  <2>3. request' = [request EXCEPT ![r] = d]
    BY DEF StartRequest, x
  <2> QED
    BY <1>1, <2>1, <2>2, <2>3, RequestFacts
<1>3. mixed' \in BOOLEAN /\ (mixed => mixed')
  BY <1>a DEF StartRequest, AcmeParts
<1>4. AcmeParts'
  <2>1. runs' \in 0..MaxRun
    BY <1>1
  <2> QED
    BY <1>a, <1>b, <1>1, <1>2, <1>3, <2>1, MoveType DEF AcmeParts
<1>5. CASE Excused
  BY <1>4, <1>5, <1>a, <1>b, <1>3, StaysExcused DEF AcmeInv, StrayInv
<1>6. CASE ~Excused
  <2>1. StrayFree
    BY <1>a, <1>6 DEF StrayInv
  <2>2. request[r].phase = "idle"
    BY DEF StartRequest
  <2>3. /\ request'[r] = d /\ \A q \in Requester \ {r} : request'[q] = request[q]
    BY <1>a, <1>2
  <2>4. Owned'
    <3>1. \A n : ~Owner(r, n)
      BY <2>2 DEF Owner, Has
    <3> QED
      BY <1>b, <2>1, <2>3, <3>1 DEF StrayFree, Owned, Owner
  <2>5. WillClean' /\ OneValue'
    BY <1>b, <1>2, <2>1, <2>3 DEF StrayFree, WillClean, Cleans, OneValue
  <2>6. CleanList' \/ Excused'
    <3>1. CASE provider = "namecheap" /\ ~mixed'
      <4>1. \A q \in Requester : request[q].phase = "idle"
        BY <3>1 DEF StartRequest, Requesting
      <4> QED
        BY <1>b, <1>2, <2>1, <2>3, <4>1 DEF StrayFree, CleanList
    <3>2. CASE provider # "namecheap" \/ mixed'
      BY <1>b, <3>2 DEF CleanList, Excused
    <3> QED
      BY <3>1, <3>2, <1>3
  <2> QED
    BY <1>4, <2>4, <2>5, <2>6 DEF AcmeInv, StrayInv, StrayFree
<1> QED
  BY <1>5, <1>6

\* The host list that is read has no record of a challenge.
LEMMA ReadKeeps ==
  ASSUME AcmeInv, NEW r \in Requester, ReadHosts(r)
  PROVE  AcmeInv'
<1>a. /\ AcmeParts /\ StrayInv /\ request[r] \in RequestRec
      /\ zone \in ZoneValue /\ request[r].phase = "reading"
      /\ request[r].run \in 1..MaxRun
  BY DEF AcmeInv, AcmeParts, ReadHosts
<1>b. UNCHANGED <<provider, zone, acmeConfig, pair, expiring, runs, dnsFaults, mixed>>
  BY DEF ReadHosts
<1>1. PICK d \in RequestRec :
        /\ request' = [request EXCEPT ![r] = d] /\ d.phase = "ordering" /\ d.run = request[r].run
        /\ d.entry = request[r].entry /\ d.seen = zone
  <2> DEFINE d == [request[r] EXCEPT !.phase = "ordering", !.seen = zone]
  <2>1. d \in RequestRec /\ d.phase = "ordering" /\ d.run = request[r].run
        /\ d.entry = request[r].entry /\ d.seen = zone
    BY <1>a DEF RequestRec, Phase
  <2>2. request' = [request EXCEPT ![r] = d]
    BY DEF ReadHosts
  <2> QED
    BY <2>1, <2>2
<1>2. AcmeParts'
  BY <1>a, <1>b, <1>1, MoveType DEF AcmeParts
<1>3. CASE Excused
  BY <1>2, <1>3, <1>a, <1>b, StaysExcused DEF AcmeInv, StrayInv
<1>4. CASE ~Excused
  <2>1. StrayFree
    BY <1>a, <1>4 DEF StrayInv
  <2>2. Cleans(d)
    BY <1>a, <1>1, <2>1 DEF StrayFree, WillClean, Cleans
  <2>3. provider = "namecheap" => zone.txt = {}
    BY <1>a, <2>1 DEF StrayFree, CleanList, Owned, Owner, Has
  <2>4. \A n \in zone.txt : ~Owner(r, n)
    BY <1>a DEF Owner, Has
  <2>5. StrayFree'
    BY <1>a, <1>b, <1>1, <2>1, <2>2, <2>3, <2>4, MoveFree DEF StrayFree, OneValue
  <2> QED
    BY <1>2, <2>5 DEF AcmeInv, StrayInv
<1> QED
  BY <1>3, <1>4

\* A record that is created has an owner.
LEMMA CreateKeeps ==
  ASSUME AcmeInv, NEW r \in Requester, CreateRecord(r)
  PROVE  AcmeInv'
<1>a. /\ AcmeParts /\ StrayInv /\ request[r] \in RequestRec /\ request[r].seen \in ZoneValue
      /\ zone \in ZoneValue /\ request[r].phase = "ordering" /\ provider \in Provider
      /\ request[r].run \in 1..MaxRun
  BY RequestMoves DEF AcmeInv, AcmeParts, CreateRecord
<1>b. UNCHANGED <<provider, acmeConfig, pair, expiring, runs, dnsFaults, mixed>>
  BY DEF CreateRecord
<1>1. PICK d \in RequestRec :
        /\ request' = [request EXCEPT ![r] = d] /\ d.phase = "propagating" /\ d.run = request[r].run
        /\ d.entry = TRUE /\ d.seen = request[r].seen
  <2> DEFINE d == [request[r] EXCEPT !.phase = "propagating", !.entry = TRUE]
  <2>1. d \in RequestRec /\ d.phase = "propagating" /\ d.run = request[r].run
        /\ d.entry = TRUE /\ d.seen = request[r].seen
    BY <1>a DEF RequestRec, Phase
  <2>2. request' = [request EXCEPT ![r] = d]
    BY DEF CreateRecord
  <2> QED
    BY <2>1, <2>2
<1>c. zone' = RecordsAfter(TRUE, zone, request[r].run, request[r].seen)
  BY DEF CreateRecord
<1>d. /\ zone' \in ZoneValue
      /\ provider # "namecheap" => zone'.txt \subseteq zone.txt \cup {d.run}
      /\ provider = "namecheap" => zone'.txt = request[r].seen.txt \cup {d.run}
      /\ provider \in {"gcloud", "route53"} => zone'.txt = {d.run}
  <2>1. /\ zone' \in ZoneValue
        /\ provider # "namecheap" => zone'.txt \subseteq zone.txt \cup {request[r].run}
        /\ provider = "namecheap" => zone'.txt = request[r].seen.txt \cup {request[r].run}
        /\ provider \in {"gcloud", "route53"} => zone'.txt = {request[r].run}
    <3>1. PICK z \in ZoneValue, s \in ZoneValue, n \in 1..MaxRun :
            z = zone /\ s = request[r].seen /\ n = request[r].run
      BY <1>a
    <3>2. /\ RecordsAfter(TRUE, z, n, s) \in ZoneValue
          /\ provider # "namecheap" => RecordsAfter(TRUE, z, n, s).txt \subseteq z.txt \cup {n}
          /\ provider = "namecheap" => RecordsAfter(TRUE, z, n, s).txt = s.txt \cup {n}
          /\ provider \in {"gcloud", "route53"} => RecordsAfter(TRUE, z, n, s).txt = {n}
      <4>1. RecordsAfter(TRUE, z, n, s) \in ZoneValue
        BY <1>a, CreateFacts
      <4>2. provider # "namecheap" => RecordsAfter(TRUE, z, n, s).txt \subseteq z.txt \cup {n}
        BY <1>a, CreateFacts
      <4>3. provider = "namecheap" => RecordsAfter(TRUE, z, n, s).txt = s.txt \cup {n}
        BY CreateNamecheap
      <4>4. provider \in {"gcloud", "route53"} => RecordsAfter(TRUE, z, n, s).txt = {n}
        BY CreateExact
      <4> QED
        BY <4>1, <4>2, <4>3, <4>4
    <3>3. zone' = RecordsAfter(TRUE, z, n, s)
      BY <1>c, <3>1, Zenon
    <3> QED
      BY <3>1, <3>2, <3>3, Zenon
  <2>2. request[r].run = d.run
    BY <1>1
  <2> QED
    BY <2>1, <2>2, Zenon
<1>2. AcmeParts'
  BY <1>a, <1>b, <1>d, <1>1, MoveType DEF AcmeParts
<1>3. CASE Excused
  BY <1>2, <1>3, <1>a, <1>b, StaysExcused DEF AcmeInv, StrayInv
<1>4. CASE ~Excused
  <2>1. StrayFree
    BY <1>a, <1>4 DEF StrayInv
  <2>2. Cleans(d) /\ Has(d, d.run)
    BY <1>1 DEF Cleans, Has
  <2>3. provider = "namecheap" => request[r].seen.txt = {}
    BY <2>1 DEF StrayFree, CleanList
  <2>4. \A n : ~Owner(r, n)
    BY <1>a DEF Owner, Has
  <2>5. \A n \in zone'.txt : Has(d, n) \/ (n \in zone.txt /\ ~Owner(r, n))
    BY <1>d, <2>2, <2>3, <2>4
  <2>6. provider \in {"gcloud", "route53"} => \A m, n \in zone'.txt : m = n
    BY <1>d
  <2>7. StrayFree'
    <3>1. provider = "namecheap" => d.seen.txt = {}
      BY <1>1, <2>3
    <3>2. request[r].phase # "idle"
      BY <1>a
    <3> QED
      BY <1>a, <1>b, <1>1, <2>1, <2>2, <2>5, <2>6, <3>1, <3>2, MoveFree
  <2> QED
    BY <1>2, <2>7 DEF AcmeInv, StrayInv
<1> QED
  BY <1>3, <1>4

\* A request that goes on with its record, or without one, and is cleaned up
\* after, takes nothing from the zone.
LEMMA GoesOn ==
  ASSUME AcmeInv, NEW r \in Requester, NEW d \in RequestRec,
         request' = [request EXCEPT ![r] = d], request[r].phase # "idle",
         d.phase # "idle", d.run = request[r].run, d.entry = request[r].entry,
         d.seen = request[r].seen, Cleans(request[r]) => Cleans(d),
         \A n : Owner(r, n) => Has(d, n),
         UNCHANGED <<provider, zone, runs, mixed, dnsFaults>>,
         acmeConfig' \in ConfigValue, expiring' \in BOOLEAN,
         pair' \in [cert: 0..MaxRun, key: 0..MaxRun]
  PROVE  AcmeInv'
<1>a. AcmeParts /\ StrayInv
  BY DEF AcmeInv
<1>1. AcmeParts'
  <2>1. d.run \in 1..MaxRun
    BY <1>a DEF AcmeParts
  <2> QED
    BY <1>a, <2>1, MoveType DEF AcmeParts
<1>2. CASE Excused
  BY <1>1, <1>2, <1>a, StaysExcused DEF AcmeInv, StrayInv
<1>3. CASE ~Excused
  <2>1. StrayFree
    BY <1>a, <1>3 DEF StrayInv
  <2>2. Cleans(d)
    BY <2>1 DEF StrayFree, WillClean
  <2>3. provider = "namecheap" => d.seen.txt = {}
    BY <2>1 DEF StrayFree, CleanList
  <2>4. \A n \in zone'.txt : Has(d, n) \/ (n \in zone.txt /\ ~Owner(r, n))
    OBVIOUS
  <2>5. provider \in {"gcloud", "route53"} => \A m, n \in zone'.txt : m = n
    BY <2>1 DEF StrayFree, OneValue
  <2>6. StrayFree'
    BY <1>a, <2>1, <2>2, <2>3, <2>4, <2>5, MoveFree
  <2> QED
    BY <1>1, <2>6 DEF AcmeInv, StrayInv
<1> QED
  BY <1>2, <1>3

\* The record has spread.
LEMMA PropagatedKeeps ==
  ASSUME AcmeInv, NEW r \in Requester, Propagated(r)
  PROVE  AcmeInv'
<1>a. request[r] \in RequestRec /\ request[r].phase = "propagating" /\ AcmeParts
  BY DEF AcmeInv, AcmeParts, Propagated
<1>1. PICK d \in RequestRec :
        /\ request' = [request EXCEPT ![r] = d] /\ d.phase = "answering" /\ d.run = request[r].run
        /\ d.entry = request[r].entry /\ d.cleanup = TRUE /\ d.seen = request[r].seen
  <2> DEFINE d == [request[r] EXCEPT !.phase = "answering", !.cleanup = TRUE]
  <2>1. d \in RequestRec /\ d.phase = "answering" /\ d.run = request[r].run
        /\ d.entry = request[r].entry /\ d.cleanup = TRUE /\ d.seen = request[r].seen
    BY <1>a DEF RequestRec, Phase
  <2>2. request' = [request EXCEPT ![r] = d]
    BY DEF Propagated
  <2> QED
    BY <2>1, <2>2
<1>2. Cleans(d) /\ \A n : Owner(r, n) => Has(d, n)
  BY <1>1 DEF Cleans, Owner, Has
<1>3. /\ UNCHANGED <<provider, zone, runs, mixed, dnsFaults>>
      /\ acmeConfig' \in ConfigValue /\ expiring' \in BOOLEAN
      /\ pair' \in [cert: 0..MaxRun, key: 0..MaxRun]
  BY <1>a DEF Propagated, AcmeParts
<1> QED
  BY <1>a, <1>1, <1>2, <1>3, GoesOn

\* A request that has ended, one way or the other, is to be cleaned up.
LEMMA Cleaning ==
  ASSUME AcmeParts, NEW r \in Requester, NEW c \in ConfigValue,
         request' = [request EXCEPT ![r].phase = "cleaning", ![r].cfg = c]
  PROVE  \E d \in RequestRec :
           /\ request' = [request EXCEPT ![r] = d] /\ d.phase = "cleaning"
           /\ d.run = request[r].run /\ d.entry = request[r].entry
           /\ d.cleanup = request[r].cleanup /\ d.seen = request[r].seen
<1> DEFINE d == [request[r] EXCEPT !.phase = "cleaning", !.cfg = c]
<1>1. request[r] \in RequestRec
  BY DEF AcmeParts
<1>2. /\ d \in RequestRec /\ d.phase = "cleaning"
      /\ d.run = request[r].run /\ d.entry = request[r].entry
      /\ d.cleanup = request[r].cleanup /\ d.seen = request[r].seen
  BY <1>1, RequestMoves
<1>3. request' = [request EXCEPT ![r] = d]
  OBVIOUS
<1> QED
  BY <1>2, <1>3

\* The CA has issued.
LEMMA IssueKeeps ==
  ASSUME AcmeInv, NEW r \in Requester, Issue(r)
  PROVE  AcmeInv'
<1>a. /\ request[r] \in RequestRec /\ request[r].phase = "answering" /\ AcmeParts
      /\ request[r].run \in 0..MaxRun
  BY RequestMoves DEF AcmeInv, AcmeParts, Issue
<1>1. PICK c \in ConfigValue : acmeConfig' = c /\
        request' = [request EXCEPT ![r].phase = "cleaning", ![r].cfg = c]
  <2> DEFINE c == [request[r].cfg EXCEPT !.renewed = request[r].run, !.failed = FALSE]
  <2>1. c \in ConfigValue
    <3>1. \A b \in ConfigValue, n \in 0..MaxRun :
            [b EXCEPT !.renewed = n, !.failed = FALSE] \in ConfigValue
      BY DEF ConfigValue
    <3>2. request[r].cfg \in ConfigValue
      BY <1>a, RequestMoves
    <3> QED
      BY <1>a, <3>1, <3>2
  <2> QED
    BY <2>1 DEF Issue
<1>2. PICK d \in RequestRec :
        /\ request' = [request EXCEPT ![r] = d] /\ d.phase = "cleaning" /\ d.run = request[r].run
        /\ d.entry = request[r].entry /\ d.cleanup = request[r].cleanup /\ d.seen = request[r].seen
  BY <1>a, <1>1, Cleaning
<1>3. (Cleans(request[r]) => Cleans(d)) /\ \A n : Owner(r, n) => Has(d, n)
  BY <1>a, <1>2 DEF Cleans, Owner, Has
<1>4. UNCHANGED <<provider, zone, runs, mixed, dnsFaults>> /\ expiring' \in BOOLEAN
  BY DEF Issue
<1>5. pair' \in [cert: 0..MaxRun, key: 0..MaxRun]
  BY <1>a DEF Issue
<1> QED
  BY <1>a, <1>1, <1>2, <1>3, <1>4, <1>5, GoesOn

\* What a failure makes of the request.
LEMMA FailFacts ==
  ASSUME AcmeParts, NEW r \in Requester, Fail(r)
  PROVE  /\ acmeConfig' \in ConfigValue /\ UNCHANGED <<provider, pair, expiring, runs, mixed>>
         /\ \E d \in RequestRec :
              /\ request' = [request EXCEPT ![r] = d] /\ d.phase = "cleaning"
              /\ d.run = request[r].run /\ d.entry = request[r].entry
              /\ d.cleanup = request[r].cleanup /\ d.seen = request[r].seen
<1>a. request[r] \in RequestRec
  BY DEF AcmeParts
<1>1. PICK c \in ConfigValue : acmeConfig' = c /\
        request' = [request EXCEPT ![r].phase = "cleaning", ![r].cfg = c]
  <2> DEFINE c == [request[r].cfg EXCEPT !.failed = TRUE]
  <2>1. c \in ConfigValue
    BY <1>a, RequestMoves DEF ConfigValue
  <2> QED
    BY <2>1 DEF Fail
<1>2. UNCHANGED <<provider, pair, expiring, runs, mixed>>
  BY DEF Fail
<1> QED
  BY <1>1, <1>2, Cleaning

\* A failure leaves the records to the cleanup; one whose answer was lost is
\* a fault.
LEMMA FailKeeps ==
  ASSUME AcmeInv, NEW r \in Requester,
         OrderFails(r) \/ AnswerLost(r) \/ ValidationFails(r)
  PROVE  AcmeInv'
<1>a. /\ request[r] \in RequestRec /\ AcmeParts /\ Fail(r)
      /\ request[r].phase \in {"reading", "ordering", "answering"}
  BY DEF AcmeInv, AcmeParts, OrderFails, AnswerLost, ValidationFails
<1>1. PICK d \in RequestRec :
        /\ request' = [request EXCEPT ![r] = d] /\ d.phase = "cleaning" /\ d.run = request[r].run
        /\ d.entry = request[r].entry /\ d.cleanup = request[r].cleanup /\ d.seen = request[r].seen
  BY <1>a, FailFacts
<1>2. /\ acmeConfig' \in ConfigValue /\ UNCHANGED <<provider, runs, mixed>>
      /\ expiring' \in BOOLEAN /\ pair' \in [cert: 0..MaxRun, key: 0..MaxRun]
  BY <1>a, FailFacts DEF AcmeParts
<1>3. CASE UNCHANGED <<zone, dnsFaults>>
  <2>1. (Cleans(request[r]) => Cleans(d)) /\ \A n : Owner(r, n) => Has(d, n)
    BY <1>a, <1>1 DEF Cleans, Owner, Has
  <2> QED
    BY <1>a, <1>1, <1>2, <1>3, <2>1, GoesOn
<1>4. CASE AnswerLost(r)
  <2>1. zone' \in ZoneValue
    <3>1. /\ zone' = RecordsAfter(TRUE, zone, request[r].run, request[r].seen)
          /\ request[r].run \in 1..MaxRun /\ request[r].seen \in ZoneValue
          /\ zone \in ZoneValue /\ provider \in Provider
      BY <1>4, <1>a, RequestMoves DEF AnswerLost, AcmeParts
    <3> QED
      BY <3>1, CreateFacts
  <2>2. dnsFaults' \in 0..MaxDnsFault /\ Excused'
    BY <1>4, <1>a, FaultExcuses DEF AnswerLost
  <2>3. AcmeParts'
    <3>1. d.run \in 1..MaxRun
      BY <1>a, <1>1 DEF AcmeParts
    <3> QED
      BY <1>a, <1>1, <1>2, <2>1, <2>2, <3>1, MoveType DEF AcmeParts
  <2> QED
    BY <2>2, <2>3 DEF AcmeInv, StrayInv
<1> QED
  BY <1>3, <1>4 DEF OrderFails, ValidationFails, NoDnsFault

\* The cleanup removes the record of its request, and leaves those of others
\* to them.
LEMMA CleanUpKeeps ==
  ASSUME AcmeInv, NEW r \in Requester, CleanUp(r)
  PROVE  AcmeInv'
<1>a. /\ AcmeParts /\ StrayInv /\ request[r] \in RequestRec /\ request[r].seen \in ZoneValue
      /\ zone \in ZoneValue /\ request[r].phase = "cleaning" /\ provider \in Provider
      /\ request[r].run \in 1..MaxRun /\ request[r].cfg \in ConfigValue
  BY RequestMoves DEF AcmeInv, AcmeParts, CleanUp
<1>b. /\ UNCHANGED <<provider, pair, expiring, runs, mixed>> /\ acmeConfig' \in ConfigValue
      /\ request' = [request EXCEPT ![r] = NoRequest]
  BY <1>a DEF CleanUp, AcmeParts
<1> DEFINE after == RecordsAfter(FALSE, zone, request[r].run, request[r].seen)
<1>c. after \in ZoneValue
  BY <1>a, DeleteFacts
<1>d. /\ provider = "namecheap" => after.txt = request[r].seen.txt
      /\ provider # "namecheap" => after.txt \subseteq zone.txt
      /\ provider \notin {"gcloud", "route53", "namecheap"} => request[r].run \notin after.txt
      /\ provider \in {"gcloud", "route53"} /\ zone.txt = {request[r].run} =>
           request[r].run \notin after.txt
  <2>1. PICK z \in ZoneValue, s \in ZoneValue, n \in 1..MaxRun :
          z = zone /\ s = request[r].seen /\ n = request[r].run
    BY <1>a
  <2>2. after = RecordsAfter(FALSE, z, n, s)
    BY <2>1, Zenon
  <2> HIDE DEF after
  <2>3. provider = "namecheap" => after.txt = request[r].seen.txt
    BY <2>1, <2>2, DeleteNamecheap
  <2>4. /\ provider # "namecheap" => after.txt \subseteq z.txt
        /\ provider \notin {"gcloud", "route53", "namecheap"} => n \notin after.txt
        /\ provider \in {"gcloud", "route53"} /\ z.txt = {n} => n \notin after.txt
    BY <1>a, <2>2, DeleteFacts
  <2> QED
    BY <2>1, <2>3, <2>4
<1>1. zone' \in {zone, after} /\ (dnsFaults' = dnsFaults \/ DnsFault)
  BY DEF CleanUp, NoDnsFault
<1>e. ASSUME request[r].cleanup /\ request[r].entry, ~DnsFault
      PROVE  zone' = after
  <2>1. \/ zone' = RecordsAfter(FALSE, zone, request[r].run, request[r].seen) /\ NoDnsFault
        \/ UNCHANGED zone /\ DnsFault
    BY <1>e, Zenon DEF CleanUp
  <2> QED
    BY <2>1, <1>e, Zenon
<1> HIDE DEF after
<1>2. dnsFaults' \in 0..MaxDnsFault
  BY <1>a, <1>1, FaultExcuses DEF AcmeParts
<1>3. AcmeParts'
  BY <1>a, <1>b, <1>c, <1>1, <1>2, RequestFacts, MoveType DEF AcmeParts
<1>4. CASE Excused \/ DnsFault
  BY <1>3, <1>4, <1>a, <1>b, <1>1, StaysExcused, FaultExcuses DEF AcmeInv, StrayInv
<1>5. CASE ~Excused /\ ~DnsFault
  <2>1. StrayFree
    BY <1>a, <1>5 DEF StrayInv
  <2>2. Cleans(NoRequest) /\ (provider = "namecheap" => NoRequest.seen.txt = {})
    BY RequestFacts DEF Cleans
  <2>3. CASE request[r].cleanup /\ request[r].entry
    <3>1. zone' = after
      BY <1>5, <1>e, <2>3
    <3>2. ASSUME NEW n \in after.txt PROVE n \in zone.txt /\ n # request[r].run
      <4>1. CASE provider = "namecheap"
        BY <1>d, <2>1, <3>2, <4>1 DEF StrayFree, CleanList
      <4>2. CASE provider \in {"gcloud", "route53"}
        <5>1. n \in zone.txt
          BY <1>d, <3>2, <4>2
        <5>2. ASSUME n = request[r].run PROVE FALSE
          <6>1. zone.txt = {request[r].run}
            BY <2>1, <4>2, <5>1, <5>2 DEF StrayFree, OneValue
          <6> QED
            BY <1>d, <3>2, <4>2, <5>2, <6>1
        <5> QED
          BY <5>1, <5>2
      <4>3. CASE provider \notin {"gcloud", "route53", "namecheap"}
        BY <1>d, <3>2, <4>3
      <4> QED
        BY <4>1, <4>2, <4>3
    <3>3. \A n \in zone'.txt : n \in zone.txt /\ ~Owner(r, n)
      BY <3>1, <3>2 DEF Owner, Has
    <3>4. provider \in {"gcloud", "route53"} => \A m, n \in zone'.txt : m = n
      BY <2>1, <3>3 DEF StrayFree, OneValue
    <3>5. StrayFree'
      BY <1>a, <1>b, <2>1, <2>2, <3>3, <3>4, RequestFacts, MoveFree
    <3> QED
      BY <1>3, <3>5 DEF AcmeInv, StrayInv
  <2>4. CASE ~(request[r].cleanup /\ request[r].entry)
    <3>1. zone' = zone
      BY <2>4 DEF CleanUp
    <3>2. \A n : ~Owner(r, n)
      BY <1>a, <2>1, <2>4 DEF StrayFree, WillClean, Cleans, Owner, Has
    <3>3. provider \in {"gcloud", "route53"} => \A m, n \in zone'.txt : m = n
      BY <2>1, <3>1 DEF StrayFree, OneValue
    <3>4. \A n \in zone'.txt : n \in zone.txt /\ ~Owner(r, n)
      BY <3>1, <3>2
    <3>5. StrayFree'
      BY <1>a, <1>b, <2>1, <2>2, <3>3, <3>4, RequestFacts, MoveFree
    <3> QED
      BY <1>3, <3>5 DEF AcmeInv, StrayInv
  <2> QED
    BY <2>3, <2>4
<1> QED
  BY <1>4, <1>5

\* The other steps take no part in a request, or lose them all.
LEMMA OthersKeep ==
  ASSUME AcmeInv,
         \/ EditAcmeSettings \/ AddHost \/ CertificateAges \/ AcmeCrash
         \/ UNCHANGED acmeVars
  PROVE  AcmeInv'
<1>a. AcmeParts /\ StrayInv
  BY DEF AcmeInv
<1>1. CASE EditAcmeSettings \/ CertificateAges \/ UNCHANGED acmeVars
  <2>1. UNCHANGED <<provider, zone, request, pair, runs, dnsFaults, mixed>>
    BY <1>1 DEF EditAcmeSettings, CertificateAges, acmeVars
  <2>2. acmeConfig' \in ConfigValue /\ expiring' \in BOOLEAN
    BY <1>1, <1>a DEF EditAcmeSettings, CertificateAges, acmeVars, AcmeParts, ConfigValue
  <2> QED
    BY <1>a, <2>1, <2>2 DEF AcmeInv, AcmeParts, StrayInv, StrayFree, Excused, Owned, Owner,
       WillClean, OneValue, CleanList
<1>2. CASE AddHost
  <2>1. /\ UNCHANGED <<provider, request, acmeConfig, pair, expiring, runs, dnsFaults>>
        /\ mixed' \in BOOLEAN /\ (mixed => mixed')
    BY <1>2, <1>a DEF AddHost, AcmeParts
  <2>2. zone' \in ZoneValue /\ zone'.txt = zone.txt
    BY <1>2, <1>a DEF AddHost, AcmeParts, ZoneValue
  <2>3. AcmeParts'
    BY <1>a, <2>1, <2>2 DEF AcmeParts
  <2>4. StrayInv'
    BY <1>a, <2>1, <2>2 DEF StrayInv, StrayFree, Excused, Owned, Owner, WillClean, OneValue,
       CleanList
  <2> QED
    BY <2>3, <2>4 DEF AcmeInv
<1>3. CASE AcmeCrash
  <2>1. dnsFaults' \in 0..MaxDnsFault /\ Excused'
    BY <1>3, <1>a, FaultExcuses DEF AcmeCrash
  <2>2. /\ acmeConfig' \in ConfigValue /\ expiring' \in BOOLEAN
        /\ pair' \in [cert: 0..MaxRun, key: 0..MaxRun]
    <3>1. \A r \in Requester : [pair EXCEPT !.cert = request[r].run] \in
            [cert: 0..MaxRun, key: 0..MaxRun]
      <4>1. \A r \in Requester : request[r].run \in 0..MaxRun
        BY <1>a, RequestMoves DEF AcmeParts
      <4> QED
        BY <1>a, <4>1 DEF AcmeParts
    <3> QED
      BY <1>3, <1>a, <3>1, RequestFacts DEF AcmeCrash, AcmeParts, Requesting
  <2>3. /\ UNCHANGED <<provider, zone, runs, mixed>>
        /\ request' = [r \in Requester |-> NoRequest]
    BY <1>3 DEF AcmeCrash
  <2>4. AcmeParts'
    BY <1>a, <2>1, <2>2, <2>3, RequestFacts DEF AcmeParts
  <2> QED
    BY <2>1, <2>4 DEF AcmeInv, StrayInv
<1> QED
  BY <1>1, <1>2, <1>3

\* It holds of every reachable state.
LEMMA AcmeInvCorrect == AcmeSpec => []AcmeInv
<1>1. AcmeInit => AcmeInv
  <2> SUFFICES ASSUME AcmeInit PROVE AcmeInv
    OBVIOUS
  <2>1. 0 \in 0..MaxRun /\ 0 \in 0..MaxDnsFault
    BY RequestFacts
  <2>2. AcmeParts
    BY <2>1, RequestFacts DEF AcmeInit, AcmeParts
  <2>3. StrayFree
    BY RequestFacts
    DEF AcmeInit, StrayFree, Owned, WillClean, Cleans, OneValue, CleanList
  <2> QED
    BY <2>2, <2>3 DEF AcmeInv, StrayInv
<1>2. AcmeInv /\ [AcmeNext]_acmeVars => AcmeInv'
  BY StartKeeps, ReadKeeps, CreateKeeps, PropagatedKeeps, IssueKeeps, FailKeeps, CleanUpKeeps,
     OthersKeep
  DEF AcmeNext
<1> QED
  BY <1>1, <1>2, PTL DEF AcmeSpec

\* The variables keep their types, for every provider.
THEOREM AcmeTypeCorrect == AcmeSpec => []AcmeTypeOK
<1>1. AcmeInv => AcmeTypeOK
  BY DEF AcmeInv, AcmeParts, AcmeTypeOK, RequestRec
<1> QED
  BY <1>1, AcmeInvCorrect, PTL

\* For every provider and any number of administrators, every way through
\* request_certificate that placed a challenge record takes it away, unless a
\* provider call or the hub failed, or a host list was written back that
\* something else had changed.
THEOREM NoStrayChallengeCorrect == AcmeSpec => []NoStrayChallenge
<1>1. AcmeInv => NoStrayChallenge
  <2> SUFFICES ASSUME AcmeInv, Requesting = {}, dnsFaults = 0, provider = "namecheap" => ~mixed
               PROVE  zone.txt = {}
    BY DEF NoStrayChallenge
  <2>1. StrayFree
    BY DEF AcmeInv, StrayInv, Excused
  <2> QED
    BY <2>1 DEF StrayFree, Owned, Owner, Has, Requesting
<1> QED
  BY <1>1, AcmeInvCorrect, PTL

-----------------------------------------------------------------------------
(* UsbLists: types.                                                        *)

UsbSteps == {"idle", "set", "list", "save", "ensure", "listAll", "pushAll"}
UsbEditRec == [step: UsbSteps, list: List, copy: UsbRow]
UsbCommand == [ver: UsbVersion, list: {Omitted} \cup List]

\* Requests that have still to raise the version.
Waiting == {t \in UsbThread : usbEdit[t].step \in {"set", "list", "pushAll"}}

\* The versions that there are, of the row, its copies and the commands.
Raised == {usbRow.cv, usbRow.av}
          \cup {usbEdit[t].copy.cv : t \in UsbThread} \cup {usbEdit[t].copy.av : t \in UsbThread}
          \cup {usbQueue[k].ver : k \in DOMAIN usbQueue}

\* A version is raised once by each request and by each correction.
RaisesCounted ==
  /\ IsFiniteSet(Waiting)
  /\ \A v \in Raised : v + Cardinality(Waiting) <= usbEdits + drifts

UsbInv == UsbTypeOK /\ RaisesCounted

\* The rows of requests, commands and spoke, and what is made of them.
LEMMA UsbFacts ==
  /\ MaxUsbEdit + MaxDrift \in Nat
  /\ NewRow \in UsbRow /\ NoUsbEdit \in UsbEditRec /\ {} \in List
  /\ \A r \in UsbRow, v \in UsbVersion : [r EXCEPT !.cv = v] \in UsbRow
  /\ \A r \in UsbRow, v \in UsbVersion : [r EXCEPT !.av = v] \in UsbRow
  /\ \A r \in UsbRow, p \in {Omitted} \cup List : [r EXCEPT !.hash = p] \in UsbRow
  /\ \A d \in UsbEditRec, x \in UsbSteps : [d EXCEPT !.step = x] \in UsbEditRec
  /\ UsbTypeOK => Payload \in {Omitted} \cup List
<1>1. MaxUsbEdit + MaxDrift \in Nat /\ 0 \in UsbVersion
  BY UsbAssumption DEF UsbVersion
<1>2. NewRow \in UsbRow /\ {} \in List
  BY <1>1 DEF NewRow, UsbRow, List
<1>3. NoUsbEdit \in UsbEditRec
  BY <1>2 DEF NoUsbEdit, UsbEditRec, UsbSteps
<1>4. UsbTypeOK => Payload \in {Omitted} \cup List
  BY DEF UsbTypeOK, Payload, Effective, List
<1> QED
  BY <1>1, <1>2, <1>3, <1>4 DEF UsbRow, UsbEditRec

\* The types in terms of the records.
LEMMA UsbTypes ==
  UsbTypeOK <=>
    /\ globalUsb \in List /\ tenantUsb \in List /\ keyed \in BOOLEAN
    /\ usbEdit \in [UsbThread -> UsbEditRec]
    /\ usbRow \in UsbRow
    /\ usbQueue \in Seq(UsbCommand)
    /\ handled \in 0..Len(usbQueue)
    /\ installed \in List
    /\ usbEdits \in 0..MaxUsbEdit /\ pushAlls \in 0..MaxPushAll /\ drifts \in 0..MaxDrift
  BY DEF UsbTypeOK, UsbEditRec, UsbSteps, UsbCommand

\* A request that goes on, among those that have still to raise the version.
LEMMA WaitingMoves ==
  ASSUME IsFiniteSet(Waiting), usbEdit \in [UsbThread -> UsbEditRec],
         NEW t \in UsbThread, NEW d \in UsbEditRec,
         usbEdit' = [usbEdit EXCEPT ![t] = d]
  PROVE  /\ IsFiniteSet(Waiting) /\ IsFiniteSet(Waiting')
         /\ Cardinality(Waiting) \in Nat /\ Cardinality(Waiting') \in Nat
         /\ t \notin Waiting /\ d.step \in {"set", "list", "pushAll"}
              => Cardinality(Waiting') = Cardinality(Waiting) + 1
         /\ t \in Waiting /\ d.step \in {"set", "list", "pushAll"}
              => Cardinality(Waiting') = Cardinality(Waiting)
         /\ t \in Waiting /\ d.step \notin {"set", "list", "pushAll"}
              => Cardinality(Waiting') + 1 = Cardinality(Waiting)
         /\ t \notin Waiting /\ d.step \notin {"set", "list", "pushAll"}
              => Cardinality(Waiting') = Cardinality(Waiting)
<1>1. Waiting' = IF d.step \in {"set", "list", "pushAll"} THEN Waiting \cup {t} ELSE Waiting \ {t}
  BY DEF Waiting
<1>2. /\ IsFiniteSet(Waiting \cup {t}) /\ IsFiniteSet(Waiting \ {t})
      /\ Cardinality(Waiting \cup {t}) =
           IF t \in Waiting THEN Cardinality(Waiting) ELSE Cardinality(Waiting) + 1
      /\ Cardinality(Waiting \ {t}) =
           IF t \in Waiting THEN Cardinality(Waiting) - 1 ELSE Cardinality(Waiting)
  BY FS_AddElement, FS_RemoveElement
<1>3. IsFiniteSet(Waiting') /\ Cardinality(Waiting) \in Nat /\ Cardinality(Waiting') \in Nat
  BY <1>1, <1>2, FS_CardinalityType
<1> QED
  BY <1>1, <1>2, <1>3

\* There are only versions.
LEMMA RaisedType == UsbTypeOK => Raised \subseteq UsbVersion
<1> SUFFICES ASSUME UsbTypeOK, NEW v \in Raised PROVE v \in UsbVersion
  OBVIOUS
<1>1. usbRow \in UsbRow /\ usbEdit \in [UsbThread -> UsbEditRec] /\ usbQueue \in Seq(UsbCommand)
  BY UsbTypes
<1>2. \A r \in UsbRow : r.cv \in UsbVersion /\ r.av \in UsbVersion
  BY DEF UsbRow
<1>3. \A t \in UsbThread : usbEdit[t].copy \in UsbRow
  BY <1>1 DEF UsbEditRec
<1>4. \A k \in DOMAIN usbQueue : usbQueue[k].ver \in UsbVersion
  <2>1. DOMAIN usbQueue = 1..Len(usbQueue)
    BY <1>1
  <2>2. \A k \in 1..Len(usbQueue) : usbQueue[k] \in UsbCommand
    BY <1>1
  <2>3. \A c \in UsbCommand : c.ver \in UsbVersion
    BY DEF UsbCommand
  <2> QED
    BY <2>1, <2>2, <2>3
<1> QED
  BY <1>1, <1>2, <1>3, <1>4 DEF Raised

\* A step that makes no version, or one that is accounted for.
LEMMA CountedStep ==
  ASSUME UsbInv, UsbTypeOK', IsFiniteSet(Waiting'), NEW n \in Nat,
         n + Cardinality(Waiting') <= usbEdits' + drifts',
         Raised' \subseteq Raised \cup {0, n},
         Cardinality(Waiting') + (usbEdits + drifts) <= Cardinality(Waiting) + (usbEdits' + drifts')
  PROVE  UsbInv'
<1>1. /\ Raised \subseteq Nat
      /\ usbEdits \in Nat /\ drifts \in Nat /\ usbEdits' \in Nat /\ drifts' \in Nat
  BY RaisedType, UsbAssumption DEF UsbInv, UsbVersion, UsbTypeOK
<1>2. Cardinality(Waiting) \in Nat /\ Cardinality(Waiting') \in Nat
  BY FS_CardinalityType DEF UsbInv, RaisesCounted
<1>3. ASSUME NEW v \in Raised
      PROVE  v + Cardinality(Waiting') <= usbEdits' + drifts'
  <2>1. v \in Nat /\ v + Cardinality(Waiting) <= usbEdits + drifts
    BY <1>1 DEF UsbInv, RaisesCounted
  <2> QED
    BY <1>1, <1>2, <2>1
<1>4. 0 + Cardinality(Waiting') <= usbEdits' + drifts'
  BY <1>1, <1>2
<1>5. \A v \in Raised' : v + Cardinality(Waiting') <= usbEdits' + drifts'
  BY <1>3, <1>4
<1> QED
  BY <1>5 DEF UsbInv, RaisesCounted

\* What is bounded by the count is a version.
LEMMA CountedIsVersion ==
  ASSUME NEW n \in Nat, NEW w \in Nat, NEW e \in 0..MaxUsbEdit, NEW d \in 0..MaxDrift,
         n + w <= e + d
  PROVE  n \in UsbVersion
  BY UsbAssumption DEF UsbVersion

\* A request that begins: it is counted, and has still to raise the version.
LEMMA RequestCounted ==
  ASSUME UsbInv, NEW t \in UsbThread, NEW d \in UsbEditRec, Request(t),
         d.step \in {"set", "list", "pushAll"}, d.copy = usbEdit[t].copy,
         usbEdit' = [usbEdit EXCEPT ![t] = d],
         globalUsb' \in List, tenantUsb' \in List, keyed' \in BOOLEAN,
         pushAlls' \in 0..MaxPushAll
  PROVE  UsbInv'
<1>1. /\ usbEdit \in [UsbThread -> UsbEditRec] /\ usbRow \in UsbRow
      /\ usbQueue \in Seq(UsbCommand) /\ handled \in 0..Len(usbQueue) /\ installed \in List
      /\ usbEdits \in 0..MaxUsbEdit /\ drifts \in 0..MaxDrift
  BY UsbTypes DEF UsbInv
<1>2. t \notin Waiting /\ IsFiniteSet(Waiting)
  BY DEF Waiting, Request, UsbInv, RaisesCounted
<1>3. /\ IsFiniteSet(Waiting') /\ Cardinality(Waiting) \in Nat
      /\ Cardinality(Waiting') = Cardinality(Waiting) + 1
  BY <1>1, <1>2, WaitingMoves
<1>4. usbEdits' = usbEdits + 1 /\ usbEdits' \in 0..MaxUsbEdit
  BY <1>1, UsbAssumption DEF Request
<1>5. UNCHANGED <<usbRow, usbQueue, handled, installed, drifts>>
  BY DEF Request
<1>6. usbEdit' \in [UsbThread -> UsbEditRec]
  BY <1>1
<1>7. UsbTypeOK'
  BY <1>1, <1>4, <1>5, <1>6 DEF UsbTypeOK, UsbEditRec, UsbSteps, UsbCommand
<1>8. \A u \in UsbThread : usbEdit'[u].copy = usbEdit[u].copy
  BY <1>1
<1>9. Raised' = Raised
  BY <1>5, <1>8 DEF Raised
<1>10. usbRow.cv \in Raised /\ usbRow.cv \in Nat
  BY <1>1 DEF Raised, UsbRow, UsbVersion
<1>11. usbRow.cv + Cardinality(Waiting) <= usbEdits + drifts
  BY <1>10 DEF UsbInv, RaisesCounted
<1>12. usbRow.cv + Cardinality(Waiting') <= usbEdits' + drifts'
  BY <1>1, <1>3, <1>4, <1>5, <1>10, <1>11
<1>13. Cardinality(Waiting') + (usbEdits + drifts) <= Cardinality(Waiting) + (usbEdits' + drifts')
  BY <1>1, <1>3, <1>4, <1>5
<1> QED
  BY <1>3, <1>7, <1>9, <1>10, <1>12, <1>13, CountedStep

\* A step that raises no version.
LEMMA NothingRaised ==
  ASSUME UsbInv, UsbTypeOK', IsFiniteSet(Waiting'),
         Cardinality(Waiting') <= Cardinality(Waiting),
         UNCHANGED <<usbEdits, drifts>>, Raised' \subseteq Raised \cup {0}
  PROVE  UsbInv'
<1>1. /\ Raised \subseteq Nat /\ usbRow.cv \in Raised
      /\ usbEdits \in Nat /\ drifts \in Nat
  BY RaisedType, UsbAssumption DEF UsbInv, UsbVersion, UsbTypeOK, Raised
<1>2. Cardinality(Waiting) \in Nat /\ Cardinality(Waiting') \in Nat
  BY FS_CardinalityType DEF UsbInv, RaisesCounted
<1>3. usbRow.cv \in Nat /\ usbRow.cv + Cardinality(Waiting) <= usbEdits + drifts
  BY <1>1 DEF UsbInv, RaisesCounted
<1>4. 0 + Cardinality(Waiting') <= usbEdits' + drifts'
  BY <1>1, <1>2, <1>3
<1>5. Cardinality(Waiting') + (usbEdits + drifts) <= Cardinality(Waiting) + (usbEdits' + drifts')
  BY <1>1, <1>2
<1> QED
  BY <1>4, <1>5, CountedStep

\* What a step queues (ensure_config_update_command).
LEMMA EnsureFacts ==
  ASSUME UsbInv, Ensure
  PROVE  /\ usbRow' \in UsbRow /\ usbQueue' \in Seq(UsbCommand)
         /\ handled \in 0..Len(usbQueue')
         /\ usbRow'.cv = usbRow.cv /\ usbRow'.av = usbRow.av
         /\ \A k \in DOMAIN usbQueue' :
              usbQueue'[k].ver = usbRow.cv \/ (k \in DOMAIN usbQueue /\ usbQueue'[k] = usbQueue[k])
<1>1. /\ usbRow \in UsbRow /\ usbQueue \in Seq(UsbCommand) /\ handled \in 0..Len(usbQueue)
      /\ Payload \in {Omitted} \cup List
  BY UsbTypes, UsbFacts DEF UsbInv
<1>2. CASE Wanted
  <2> DEFINE c == [ver |-> usbRow.cv, list |-> Payload]
  <2>1. c \in UsbCommand /\ c.ver = usbRow.cv
    BY <1>1 DEF UsbCommand, UsbRow
  <2>2. usbQueue' = Append(usbQueue, c) /\ usbRow' = [usbRow EXCEPT !.hash = Payload]
    BY <1>2 DEF Ensure
  <2>3. usbRow' \in UsbRow /\ usbRow'.cv = usbRow.cv /\ usbRow'.av = usbRow.av
    BY <1>1, <2>2 DEF UsbRow
  <2> HIDE DEF c
  <2>4. /\ usbQueue' \in Seq(UsbCommand) /\ Len(usbQueue') = Len(usbQueue) + 1
        /\ \A k \in 1..Len(usbQueue) : usbQueue'[k] = usbQueue[k]
        /\ usbQueue'[Len(usbQueue) + 1] = c
    BY <1>1, <2>1, <2>2
  <2>5. handled \in 0..Len(usbQueue')
    BY <1>1, <2>4
  <2>6. DOMAIN usbQueue = 1..Len(usbQueue)
    BY <1>1
  <2>7. \A k \in DOMAIN usbQueue' : k \in DOMAIN usbQueue \/ k = Len(usbQueue) + 1
    BY <1>1, <2>4, <2>6
  <2>8. \A k \in DOMAIN usbQueue' :
          usbQueue'[k].ver = usbRow.cv \/ (k \in DOMAIN usbQueue /\ usbQueue'[k] = usbQueue[k])
    BY <2>1, <2>4, <2>6, <2>7
  <2> QED
    BY <2>3, <2>4, <2>5, <2>8
<1>3. CASE ~Wanted
  BY <1>1, <1>3 DEF Ensure
<1> QED
  BY <1>2, <1>3

\* Every step keeps the types and the count.
LEMMA UsbStep == UsbInv /\ [UsbNext]_usbVars => UsbInv'
<1> SUFFICES ASSUME UsbInv, [UsbNext]_usbVars PROVE UsbInv'
  OBVIOUS
<1>a. /\ globalUsb \in List /\ tenantUsb \in List /\ keyed \in BOOLEAN
      /\ usbEdit \in [UsbThread -> UsbEditRec] /\ usbRow \in UsbRow
      /\ usbQueue \in Seq(UsbCommand) /\ handled \in 0..Len(usbQueue) /\ installed \in List
      /\ usbEdits \in 0..MaxUsbEdit /\ pushAlls \in 0..MaxPushAll /\ drifts \in 0..MaxDrift
  BY UsbTypes DEF UsbInv
<1>b. /\ IsFiniteSet(Waiting) /\ Cardinality(Waiting) \in Nat
      /\ \A v \in Raised : v \in Nat /\ v + Cardinality(Waiting) <= usbEdits + drifts
      /\ usbRow.cv \in Raised /\ usbRow.av \in Raised
      /\ \A t \in UsbThread : usbEdit[t].copy.cv \in Raised /\ usbEdit[t].copy.av \in Raised
      /\ \A k \in DOMAIN usbQueue : usbQueue[k].ver \in Raised
  <2>1. Raised \subseteq Nat
    BY RaisedType DEF UsbInv, UsbVersion
  <2> QED
    BY <2>1, FS_CardinalityType DEF UsbInv, RaisesCounted, Raised
<1>c. NewRow.cv = 0 /\ NewRow.av = 0 /\ NoUsbEdit.copy = NewRow /\ NoUsbEdit.step = "idle"
  BY DEF NewRow, NoUsbEdit
<1>e. {} \in List /\ NewRow \in UsbRow /\ NoUsbEdit \in UsbEditRec
  BY UsbFacts
<1>1. ASSUME NEW t \in UsbThread, NEW list \in List, SetGlobal(t, list) PROVE UsbInv'
  <2> DEFINE d == [usbEdit[t] EXCEPT !.step = "list"]
  <2>1. d \in UsbEditRec /\ d.step = "list" /\ d.copy = usbEdit[t].copy
    BY <1>a DEF UsbEditRec, UsbSteps
  <2>2. usbEdit' = [usbEdit EXCEPT ![t] = d]
    BY <1>1 DEF SetGlobal, Step
  <2> HIDE DEF d
  <2>3. /\ Request(t) /\ globalUsb' \in List /\ tenantUsb' \in List /\ keyed' \in BOOLEAN
        /\ pushAlls' \in 0..MaxPushAll
    BY <1>1, <1>a DEF SetGlobal
  <2> QED
    BY <2>1, <2>2, <2>3, RequestCounted
<1>2. ASSUME NEW t \in UsbThread, NEW list \in List, PushAllSet(t, list) PROVE UsbInv'
  <2> DEFINE d == [usbEdit[t] EXCEPT !.step = "pushAll", !.list = list]
  <2>1. d \in UsbEditRec /\ d.step = "pushAll" /\ d.copy = usbEdit[t].copy
    BY <1>a DEF UsbEditRec, UsbSteps
  <2>2. usbEdit' = [usbEdit EXCEPT ![t] = d]
    BY <1>2, <1>a DEF PushAllSet, UsbEditRec
  <2> HIDE DEF d
  <2>3. /\ Request(t) /\ globalUsb' \in List /\ tenantUsb' \in List /\ keyed' \in BOOLEAN
    BY <1>2, <1>a DEF PushAllSet
  <2>4. pushAlls' \in 0..MaxPushAll
    BY <1>2, <1>a, UsbAssumption DEF PushAllSet
  <2> QED
    BY <2>1, <2>2, <2>3, <2>4, RequestCounted
<1>3. ASSUME NEW t \in UsbThread, NEW e \in Device, EditTenantList(t, e) PROVE UsbInv'
  <2> DEFINE l == IF e \in tenantUsb THEN tenantUsb \ {e} ELSE tenantUsb \cup {e}
             d == [usbEdit[t] EXCEPT !.step = "set", !.list = l]
  <2>0. l \in List
    BY <1>a DEF List
  <2>2. usbEdit' = [usbEdit EXCEPT ![t] = d]
    BY <1>3, <1>a DEF EditTenantList, UsbEditRec
  <2> HIDE DEF l
  <2>1. d \in UsbEditRec /\ d.step = "set" /\ d.copy = usbEdit[t].copy
    BY <1>a, <2>0 DEF UsbEditRec, UsbSteps
  <2> HIDE DEF d
  <2>3. /\ Request(t) /\ globalUsb' \in List /\ tenantUsb' \in List /\ keyed' \in BOOLEAN
        /\ pushAlls' \in 0..MaxPushAll
    BY <1>3, <1>a DEF EditTenantList, usbLists
  <2> QED
    BY <2>1, <2>2, <2>3, RequestCounted
<1>4. ASSUME NEW t \in UsbThread, Resync(t) PROVE UsbInv'
  <2> DEFINE d == [usbEdit[t] EXCEPT !.step = "list"]
  <2>1. d \in UsbEditRec /\ d.step = "list" /\ d.copy = usbEdit[t].copy
    BY <1>a DEF UsbEditRec, UsbSteps
  <2>2. usbEdit' = [usbEdit EXCEPT ![t] = d]
    BY <1>4 DEF Resync, Step
  <2> HIDE DEF d
  <2>3. /\ Request(t) /\ globalUsb' \in List /\ tenantUsb' \in List /\ keyed' \in BOOLEAN
        /\ pushAlls' \in 0..MaxPushAll
    BY <1>4, <1>a DEF Resync, usbLists
  <2> QED
    BY <2>1, <2>2, <2>3, RequestCounted
<1>5. ASSUME NEW t \in UsbThread, SetTenantList(t) PROVE UsbInv'
  <2> DEFINE d == [usbEdit[t] EXCEPT !.step = "list", !.list = {}]
  <2>1. d \in UsbEditRec /\ d.step = "list" /\ d.copy = usbEdit[t].copy
    BY <1>a, <1>e DEF UsbEditRec, UsbSteps
  <2>2. usbEdit' = [usbEdit EXCEPT ![t] = d]
    BY <1>5, <1>a DEF SetTenantList, UsbEditRec
  <2> HIDE DEF d
  <2>3. t \in Waiting /\ usbEdit[t].list \in List
    BY <1>5, <1>a DEF SetTenantList, Waiting, UsbEditRec
  <2>4. UNCHANGED <<globalUsb, usbRow, usbQueue, handled, installed, usbEdits, pushAlls, drifts>>
    BY <1>5 DEF SetTenantList, usbCounters
  <2>5. tenantUsb' \in List /\ keyed' \in BOOLEAN /\ usbEdit' \in [UsbThread -> UsbEditRec]
    BY <1>5, <1>a, <2>1, <2>2, <2>3 DEF SetTenantList
  <2>6. UsbTypeOK'
    BY <1>a, <2>4, <2>5 DEF UsbTypeOK, UsbEditRec, UsbSteps, UsbCommand
  <2>7. IsFiniteSet(Waiting') /\ Cardinality(Waiting') = Cardinality(Waiting)
    BY <1>a, <1>b, <2>1, <2>2, <2>3, WaitingMoves
  <2>8. Raised' = Raised
    BY <1>a, <2>1, <2>2, <2>4 DEF Raised
  <2> QED
    BY <1>b, <2>4, <2>6, <2>7, <2>8, NothingRaised
<1>6. ASSUME NEW t \in UsbThread, ListRow(t) PROVE UsbInv'
  <2> DEFINE n == usbRow.cv + 1
             r == [usbRow EXCEPT !.cv = n]
             d == [usbEdit[t] EXCEPT !.step = "save", !.copy = r]
  <2>2. usbEdit' = [usbEdit EXCEPT ![t] = d]
    BY <1>6, <1>a DEF ListRow, UsbEditRec
  <2>3. t \in Waiting
    BY <1>6 DEF ListRow, Waiting
  <2>4. UNCHANGED <<globalUsb, tenantUsb, keyed, usbRow, usbQueue, handled, installed,
                    usbEdits, pushAlls, drifts>>
    BY <1>6 DEF ListRow, usbCounters, usbLists
  <2>5. Cardinality(Waiting) >= 1
    BY <1>b, <2>3, FS_EmptySet
  <2>6. /\ n \in Nat /\ Cardinality(Waiting) - 1 \in Nat
        /\ n + (Cardinality(Waiting) - 1) <= usbEdits + drifts
    BY <1>a, <1>b, <2>5
  <2>7. n \in UsbVersion
    BY <1>a, <2>6, CountedIsVersion
  <2> HIDE DEF n
  <2>8. r \in UsbRow /\ r.cv = n /\ r.av = usbRow.av
    BY <1>a, <2>7 DEF UsbRow
  <2> HIDE DEF r
  <2>1. d \in UsbEditRec /\ d.step = "save" /\ d.copy = r
    BY <1>a, <2>8 DEF UsbEditRec, UsbSteps
  <2> HIDE DEF d
  <2>9. usbEdit' \in [UsbThread -> UsbEditRec]
    BY <1>a, <2>1, <2>2
  <2>10. UsbTypeOK'
    BY <1>a, <2>4, <2>9 DEF UsbTypeOK, UsbEditRec, UsbSteps, UsbCommand
  <2>11. /\ IsFiniteSet(Waiting') /\ Cardinality(Waiting') \in Nat
         /\ Cardinality(Waiting') + 1 = Cardinality(Waiting)
    BY <1>a, <1>b, <2>1, <2>2, <2>3, WaitingMoves
  <2>12. Raised' \subseteq Raised \cup {0, n}
    BY <1>a, <1>b, <2>1, <2>2, <2>4, <2>8 DEF Raised
  <2>13. n + Cardinality(Waiting') <= usbEdits' + drifts'
    BY <1>a, <2>4, <2>6, <2>11
  <2>14. Cardinality(Waiting') + (usbEdits + drifts) <= Cardinality(Waiting) + (usbEdits' + drifts')
    BY <1>a, <2>4, <2>11
  <2> QED
    BY <2>6, <2>10, <2>11, <2>12, <2>13, <2>14, CountedStep
<1>7. ASSUME NEW t \in UsbThread, SaveUsbRow(t) PROVE UsbInv'
  <2> DEFINE d == [usbEdit[t] EXCEPT !.step = "ensure", !.copy = NewRow]
  <2>1. d \in UsbEditRec /\ d.step = "ensure" /\ d.copy = NewRow
    BY <1>a, <1>e DEF UsbEditRec, UsbSteps
  <2>2. usbEdit' = [usbEdit EXCEPT ![t] = d]
    BY <1>7, <1>a DEF SaveUsbRow, UsbEditRec
  <2> HIDE DEF d
  <2>3. t \notin Waiting /\ usbEdit[t].copy \in UsbRow
    BY <1>7, <1>a DEF SaveUsbRow, Waiting, UsbEditRec
  <2>4. UNCHANGED <<globalUsb, tenantUsb, keyed, usbQueue, handled, installed,
                    usbEdits, pushAlls, drifts>>
    BY <1>7 DEF SaveUsbRow, usbCounters, usbLists
  <2>5. usbRow' = usbEdit[t].copy /\ usbEdit' \in [UsbThread -> UsbEditRec]
    BY <1>7, <1>a, <2>1, <2>2 DEF SaveUsbRow
  <2>6. UsbTypeOK'
    BY <1>a, <2>3, <2>4, <2>5 DEF UsbTypeOK, UsbEditRec, UsbSteps, UsbCommand
  <2>7. IsFiniteSet(Waiting') /\ Cardinality(Waiting') = Cardinality(Waiting)
    BY <1>a, <1>b, <2>1, <2>2, <2>3, WaitingMoves
  <2>8. Raised' \subseteq Raised \cup {0}
    BY <1>a, <1>b, <1>c, <2>1, <2>2, <2>4, <2>5 DEF Raised
  <2> QED
    BY <1>b, <2>4, <2>6, <2>7, <2>8, NothingRaised
<1>8. ASSUME NEW t \in UsbThread, EnsurePush(t) PROVE UsbInv'
  <2> DEFINE d == [usbEdit[t] EXCEPT !.step = "idle"]
  <2>1. d \in UsbEditRec /\ d.step = "idle" /\ d.copy = usbEdit[t].copy
    BY <1>a DEF UsbEditRec, UsbSteps
  <2>2. usbEdit' = [usbEdit EXCEPT ![t] = d] /\ Ensure
    BY <1>8 DEF EnsurePush, Step
  <2> HIDE DEF d
  <2>3. t \notin Waiting /\ usbEdit' \in [UsbThread -> UsbEditRec]
    BY <1>8, <1>a, <2>1, <2>2 DEF EnsurePush, Waiting
  <2>4. UNCHANGED <<globalUsb, tenantUsb, keyed, handled, installed, usbEdits, pushAlls, drifts>>
    BY <1>8 DEF EnsurePush, usbCounters, usbLists
  <2>5. /\ usbRow' \in UsbRow /\ usbQueue' \in Seq(UsbCommand)
        /\ handled' \in 0..Len(usbQueue')
        /\ usbRow'.cv = usbRow.cv /\ usbRow'.av = usbRow.av
        /\ \A k \in DOMAIN usbQueue' :
             usbQueue'[k].ver = usbRow.cv \/ (k \in DOMAIN usbQueue /\ usbQueue'[k] = usbQueue[k])
    BY <2>2, <2>4, EnsureFacts
  <2>6. UsbTypeOK'
    BY <1>a, <2>3, <2>4, <2>5 DEF UsbTypeOK, UsbEditRec, UsbSteps, UsbCommand
  <2>7. IsFiniteSet(Waiting') /\ Cardinality(Waiting') = Cardinality(Waiting)
    BY <1>a, <1>b, <2>1, <2>2, <2>3, WaitingMoves
  <2>8. \A u \in UsbThread : usbEdit'[u].copy = usbEdit[u].copy
    BY <1>a, <2>1, <2>2
  <2>9. Raised' \subseteq Raised \cup {0}
    BY <1>b, <2>5, <2>8 DEF Raised
  <2> QED
    BY <1>b, <2>4, <2>6, <2>7, <2>9, NothingRaised
<1>9. ASSUME NEW t \in UsbThread, PushAllQueue(t) PROVE UsbInv'
  <2> DEFINE n == usbRow.cv + 1
             r == [usbRow EXCEPT !.cv = n]
             c == [ver |-> n, list |-> usbEdit[t].list]
  <2>1. /\ usbEdit' = [usbEdit EXCEPT ![t] = NoUsbEdit]
        /\ usbRow' = r /\ usbQueue' = Append(usbQueue, c)
    BY <1>9 DEF PushAllQueue
  <2>2. UNCHANGED <<globalUsb, tenantUsb, keyed, handled, installed, usbEdits, pushAlls, drifts>>
    BY <1>9 DEF PushAllQueue, usbCounters, usbLists
  <2>3. t \in Waiting /\ usbEdit[t].list \in List
    BY <1>9, <1>a DEF PushAllQueue, Waiting, UsbEditRec
  <2>4. Cardinality(Waiting) >= 1
    BY <1>b, <2>3, FS_EmptySet
  <2>5. /\ n \in Nat /\ Cardinality(Waiting) - 1 \in Nat
        /\ n + (Cardinality(Waiting) - 1) <= usbEdits + drifts
    BY <1>a, <1>b, <2>4
  <2>6. n \in UsbVersion
    BY <1>a, <2>5, CountedIsVersion
  <2> HIDE DEF n
  <2>7. r \in UsbRow /\ r.cv = n /\ r.av = usbRow.av /\ c \in UsbCommand /\ c.ver = n
    BY <1>a, <2>3, <2>6 DEF UsbRow, UsbCommand
  <2> HIDE DEF r, c
  <2>8. /\ usbQueue' \in Seq(UsbCommand) /\ handled \in 0..Len(usbQueue')
        /\ \A k \in DOMAIN usbQueue' :
             usbQueue'[k] = c \/ (k \in DOMAIN usbQueue /\ usbQueue'[k] = usbQueue[k])
    <3>1. /\ usbQueue' \in Seq(UsbCommand) /\ Len(usbQueue') = Len(usbQueue) + 1
          /\ \A k \in 1..Len(usbQueue) : usbQueue'[k] = usbQueue[k]
          /\ usbQueue'[Len(usbQueue) + 1] = c
      BY <1>a, <2>1, <2>7
    <3>2. handled \in 0..Len(usbQueue')
      BY <1>a, <3>1
    <3>3. DOMAIN usbQueue = 1..Len(usbQueue)
      BY <1>a
    <3>4. \A k \in DOMAIN usbQueue' : k \in DOMAIN usbQueue \/ k = Len(usbQueue) + 1
      BY <1>a, <3>1, <3>3
    <3> QED
      BY <3>1, <3>2, <3>3, <3>4
  <2>9. usbEdit' \in [UsbThread -> UsbEditRec] /\ usbRow' \in UsbRow
    BY <1>a, <2>1, <2>7, UsbFacts
  <2>10. UsbTypeOK'
    BY <1>a, <2>2, <2>8, <2>9 DEF UsbTypeOK, UsbEditRec, UsbSteps, UsbCommand
  <2>11. /\ IsFiniteSet(Waiting') /\ Cardinality(Waiting') \in Nat
         /\ Cardinality(Waiting') + 1 = Cardinality(Waiting)
    BY <1>a, <1>b, <1>c, <2>1, <2>3, UsbFacts, WaitingMoves
  <2>12. Raised' \subseteq Raised \cup {0, n}
    BY <1>a, <1>b, <1>c, <2>1, <2>7, <2>8 DEF Raised
  <2>13. n + Cardinality(Waiting') <= usbEdits' + drifts'
    BY <1>a, <2>2, <2>5, <2>11
  <2>14. Cardinality(Waiting') + (usbEdits + drifts) <= Cardinality(Waiting) + (usbEdits' + drifts')
    BY <1>a, <2>2, <2>11
  <2> QED
    BY <2>5, <2>10, <2>11, <2>12, <2>13, <2>14, CountedStep
<1>d. UNCHANGED usbEdit => Waiting' = Waiting
  BY DEF Waiting
<1>10. CASE Apply
  <2> DEFINE c == usbQueue[handled + 1]
             v == IF c.ver > usbRow.av THEN c.ver ELSE usbRow.av
  <2>1. handled' = handled + 1 /\ handled' \in 1..Len(usbQueue)
    BY <1>10, <1>a DEF Apply
  <2>2. c \in UsbCommand
    BY <1>a, <2>1
  <2>3. /\ UNCHANGED <<globalUsb, tenantUsb, keyed, usbEdit, usbQueue, usbEdits, pushAlls, drifts>>
        /\ installed' = IF c.list = Omitted THEN installed ELSE c.list
        /\ usbRow' = [usbRow EXCEPT !.av = v]
    BY <1>10, <2>1 DEF Apply, usbLists, usbCounters
  <2>4. v \in UsbVersion /\ v \in Raised
    BY <1>a, <1>b, <2>1, <2>2 DEF UsbCommand, UsbRow
  <2>5. installed' \in List
    BY <1>a, <2>2, <2>3 DEF UsbCommand
  <2> HIDE DEF v, c
  <2>6. usbRow' \in UsbRow /\ usbRow'.cv = usbRow.cv /\ usbRow'.av = v
    BY <1>a, <2>3, <2>4 DEF UsbRow
  <2>7. UsbTypeOK'
    BY <1>a, <2>1, <2>3, <2>5, <2>6 DEF UsbTypeOK, UsbEditRec, UsbSteps, UsbCommand
  <2>8. Raised' \subseteq Raised \cup {0}
    BY <1>b, <2>3, <2>4, <2>6 DEF Raised
  <2> QED
    BY <1>b, <1>d, <2>3, <2>7, <2>8, NothingRaised
<1>11. CASE FixDrift
  <2> DEFINE n == usbRow.av + 1
  <2>1. /\ UNCHANGED <<globalUsb, tenantUsb, keyed, usbEdit, usbQueue, handled, installed,
                       usbEdits, pushAlls>>
        /\ usbRow' = [usbRow EXCEPT !.cv = n]
        /\ drifts' = drifts + 1 /\ drifts' \in 0..MaxDrift
    BY <1>11, <1>a, UsbAssumption DEF FixDrift, usbLists
  <2>2. n \in Nat /\ n + Cardinality(Waiting) <= usbEdits + drifts'
    BY <1>a, <1>b, <2>1
  <2>3. n \in UsbVersion
    BY <1>a, <1>b, <2>1, <2>2, CountedIsVersion
  <2> HIDE DEF n
  <2>4. usbRow' \in UsbRow /\ usbRow'.cv = n /\ usbRow'.av = usbRow.av
    BY <1>a, <2>1, <2>3 DEF UsbRow
  <2>5. UsbTypeOK'
    BY <1>a, <2>1, <2>4 DEF UsbTypeOK, UsbEditRec, UsbSteps, UsbCommand
  <2>6. Raised' \subseteq Raised \cup {0, n}
    BY <1>b, <2>1, <2>4 DEF Raised
  <2>7. Cardinality(Waiting') + (usbEdits + drifts) <= Cardinality(Waiting) + (usbEdits' + drifts')
    BY <1>a, <1>b, <1>d, <2>1
  <2> QED
    BY <1>b, <1>d, <2>1, <2>2, <2>5, <2>6, <2>7, CountedStep
<1>12. CASE PollUsb
  <2>1. Ensure /\ UNCHANGED <<globalUsb, tenantUsb, keyed, usbEdit, handled, installed,
                              usbEdits, pushAlls, drifts>>
    BY <1>12 DEF PollUsb, usbLists, usbCounters
  <2>2. /\ usbRow' \in UsbRow /\ usbQueue' \in Seq(UsbCommand)
        /\ handled' \in 0..Len(usbQueue')
        /\ usbRow'.cv = usbRow.cv /\ usbRow'.av = usbRow.av
        /\ \A k \in DOMAIN usbQueue' :
             usbQueue'[k].ver = usbRow.cv \/ (k \in DOMAIN usbQueue /\ usbQueue'[k] = usbQueue[k])
    BY <2>1, EnsureFacts
  <2>3. UsbTypeOK'
    BY <1>a, <2>1, <2>2 DEF UsbTypeOK, UsbEditRec, UsbSteps, UsbCommand
  <2>4. Raised' \subseteq Raised \cup {0}
    BY <1>b, <2>1, <2>2 DEF Raised
  <2> QED
    BY <1>b, <1>d, <2>1, <2>3, <2>4, NothingRaised
<1>13. CASE UNCHANGED usbVars
  BY <1>13 DEF usbVars, usbLists, usbCounters, UsbInv, UsbTypeOK, RaisesCounted, Raised, Waiting
<1> QED
  BY <1>1, <1>2, <1>3, <1>4, <1>5, <1>6, <1>7, <1>8, <1>9, <1>10, <1>11, <1>12, <1>13
  DEF UsbNext

\* The counts hold of every reachable state.
LEMMA UsbInvCorrect == UsbSpec => []UsbInv
<1>1. UsbInit => UsbInv
  <2> SUFFICES ASSUME UsbInit PROVE UsbInv
    OBVIOUS
  <2>1. UsbTypeOK
    <3>1. {} \in List /\ NewRow \in UsbRow /\ NoUsbEdit \in UsbEditRec
      BY UsbFacts
    <3>2. <<>> \in Seq(UsbCommand) /\ Len(<<>>) = 0
      OBVIOUS
    <3>3. 0 \in 0..MaxUsbEdit /\ 0 \in 0..MaxPushAll /\ 0 \in 0..MaxDrift
      BY UsbAssumption
    <3>4. usbEdit \in [UsbThread -> UsbEditRec]
      BY <3>1 DEF UsbInit
    <3>5. handled \in 0..Len(usbQueue) /\ usbQueue \in Seq(UsbCommand)
      BY <3>2 DEF UsbInit
    <3>6. /\ globalUsb \in List /\ tenantUsb \in List /\ keyed \in BOOLEAN
          /\ usbRow \in UsbRow /\ installed \in List
      BY <3>1 DEF UsbInit
    <3>7. usbEdits \in 0..MaxUsbEdit /\ pushAlls \in 0..MaxPushAll /\ drifts \in 0..MaxDrift
      BY <3>3 DEF UsbInit
    <3> QED
      BY <3>4, <3>5, <3>6, <3>7, UsbTypes
  <2>2. Waiting = {} /\ Raised \subseteq {0}
    BY DEF UsbInit, Waiting, Raised, NoUsbEdit, NewRow
  <2>3. usbEdits = 0 /\ drifts = 0
    BY DEF UsbInit
  <2> QED
    BY <2>1, <2>2, <2>3, FS_EmptySet DEF UsbInv, RaisesCounted
<1> QED
  BY <1>1, UsbStep, PTL DEF UsbSpec

\* For any devices, threads and numbers of requests, the lists, the requests
\* under way, the row, the commands and the spoke keep their types, and no
\* version is raised more often than there were requests and corrections.
THEOREM UsbTypeCorrect == UsbSpec => []UsbTypeOK
<1>1. UsbInv => UsbTypeOK
  BY DEF UsbInv
<1> QED
  BY <1>1, UsbInvCorrect, PTL

-----------------------------------------------------------------------------
(* UsbLists: the lists reach the spoke, if requests come one at a time.    *)

OneAtATime == \A t, u \in UsbThread : t = u

UsbSent(v) == \E k \in DOMAIN usbQueue : usbQueue[k].ver = v
LastIsPayload == usbQueue # <<>> /\ usbQueue[Len(usbQueue)].list = Payload

\* Nothing but the push to all sends another list than the effective one.
NoPushAll == \A t \in UsbThread : usbEdit[t].step \notin {"listAll", "pushAll"}

\* A version was issued before it was sent, and sent before it was applied.
InIssueOrder ==
  /\ \A k \in DOMAIN usbQueue : usbQueue[k].ver <= usbRow.cv
  /\ usbRow.av <= usbRow.cv /\ (usbRow.av = 0 \/ UsbSent(usbRow.av))

\* The spoke works with the last list it was sent.
RunsLast ==
  \A k \in DOMAIN usbQueue :
    k = handled /\ usbQueue[k].list # Omitted => installed = usbQueue[k].list

\* Between two edits the last list sent is the one to send.
AllSent ==
  (\A t \in UsbThread : usbEdit[t].step \in {"idle", "set"})
    => IF usbQueue = <<>> THEN Payload = Omitted ELSE LastIsPayload

\* The version of a row about to be saved is new, or a correction has issued
\* it after the edit's list was set, hence with that list.
SaveIsNew(t) ==
  LET copy == usbEdit[t].copy IN
  /\ usbRow.cv <= copy.cv /\ copy.av < copy.cv
  /\ copy.av = 0 \/ UsbSent(copy.av)
  /\ UsbSent(copy.cv) => LastIsPayload /\ usbRow.hash = Payload

\* What is about to be ensured is still to be sent, or sent already.
EnsureSends(t) ==
  /\ usbRow.cv > 0
  /\ LastIsPayload \/ ~UsbSent(usbRow.cv)

DeliveredInv ==
  /\ NoPushAll /\ InIssueOrder /\ RunsLast /\ AllSent
  /\ \A t \in UsbThread : usbEdit[t].step = "save" => SaveIsNew(t)
  /\ \A t \in UsbThread : usbEdit[t].step = "ensure" => EnsureSends(t)


\* What the row of a version and a count is made of.
LEMMA UsbNumbers ==
  ASSUME UsbTypeOK
  PROVE  /\ usbRow.cv \in Nat /\ usbRow.av \in Nat
         /\ \A t \in UsbThread : usbEdit[t].copy.cv \in Nat /\ usbEdit[t].copy.av \in Nat
         /\ \A k \in DOMAIN usbQueue : usbQueue[k].ver \in Nat
         /\ DOMAIN usbQueue = 1..Len(usbQueue) /\ Len(usbQueue) \in Nat
<1>1. Raised \subseteq Nat
  BY RaisedType DEF UsbVersion
<1>2. DOMAIN usbQueue = 1..Len(usbQueue) /\ Len(usbQueue) \in Nat
  BY UsbTypes
<1> QED
  BY <1>1, <1>2 DEF Raised

\* ensure_config_update_command does nothing, or sends the effective list last.
LEMMA EnsureOutcome ==
  ASSUME UsbTypeOK, Ensure, UNCHANGED usbLists
  PROVE  /\ Payload' = Payload
         /\ usbRow'.cv = usbRow.cv /\ usbRow'.av = usbRow.av
         /\ DOMAIN usbQueue \subseteq DOMAIN usbQueue'
         /\ \A k \in DOMAIN usbQueue : usbQueue'[k] = usbQueue[k]
         /\ ~Wanted => UNCHANGED <<usbRow, usbQueue>>
         /\ Wanted => /\ usbRow'.hash = Payload /\ LastIsPayload'
                      /\ DOMAIN usbQueue' = DOMAIN usbQueue \cup {Len(usbQueue) + 1}
                      /\ usbQueue'[Len(usbQueue) + 1].ver = usbRow.cv
<1>1. usbRow \in UsbRow /\ usbQueue \in Seq(UsbCommand) /\ Payload \in {Omitted} \cup List
  BY UsbTypes, UsbFacts
<1>2. Payload' = Payload
  BY DEF usbLists, Payload, Effective
<1>3. CASE Wanted
  <2> DEFINE c == [ver |-> usbRow.cv, list |-> Payload]
  <2>1. c \in UsbCommand /\ c.ver = usbRow.cv /\ c.list = Payload
    BY <1>1 DEF UsbCommand, UsbRow
  <2>2. usbQueue' = Append(usbQueue, c) /\ usbRow' = [usbRow EXCEPT !.hash = Payload]
    BY <1>3 DEF Ensure
  <2>3. usbRow'.cv = usbRow.cv /\ usbRow'.av = usbRow.av /\ usbRow'.hash = Payload
    BY <1>1, <2>2 DEF UsbRow
  <2> HIDE DEF c
  <2>4. /\ Len(usbQueue') = Len(usbQueue) + 1 /\ usbQueue' \in Seq(UsbCommand)
        /\ \A k \in 1..Len(usbQueue) : usbQueue'[k] = usbQueue[k]
        /\ usbQueue'[Len(usbQueue) + 1] = c
        /\ Len(usbQueue) \in Nat /\ DOMAIN usbQueue = 1..Len(usbQueue)
    BY <1>1, <2>1, <2>2
  <2>5. DOMAIN usbQueue' = DOMAIN usbQueue \cup {Len(usbQueue) + 1}
    BY <2>4
  <2>6. usbQueue' # <<>>
    BY <2>4
  <2>7. LastIsPayload'
    BY <1>2, <2>1, <2>4, <2>6 DEF LastIsPayload
  <2> QED
    BY <1>2, <1>3, <2>1, <2>3, <2>4, <2>5, <2>7
<1>4. CASE ~Wanted
  BY <1>2, <1>4 DEF Ensure
<1> QED
  BY <1>3, <1>4

\* Sending keeps the order, and what the spoke works with.
LEMMA EnsureKeeps ==
  ASSUME UsbTypeOK, InIssueOrder, RunsLast, Ensure, UNCHANGED <<usbLists, handled, installed>>
  PROVE  /\ InIssueOrder' /\ RunsLast'
         /\ \A v \in Nat : UsbSent(v) => UsbSent(v)'
         /\ \A v \in Nat : UsbSent(v)' => UsbSent(v) \/ (Wanted /\ v = usbRow.cv)
<1> USE UsbNumbers, EnsureOutcome
<1>1. \A k \in DOMAIN usbQueue' :
        \/ k \in DOMAIN usbQueue /\ usbQueue'[k] = usbQueue[k]
        \/ Wanted /\ k = Len(usbQueue) + 1 /\ usbQueue'[k].ver = usbRow.cv
  OBVIOUS
<1>2. \A v \in Nat : UsbSent(v) => UsbSent(v)'
  BY DEF UsbSent
<1>3. \A v \in Nat : UsbSent(v)' => UsbSent(v) \/ (Wanted /\ v = usbRow.cv)
  BY <1>1 DEF UsbSent
<1>4. InIssueOrder'
  <2>1. \A k \in DOMAIN usbQueue' : usbQueue'[k].ver <= usbRow'.cv
    BY <1>1 DEF InIssueOrder
  <2>2. usbRow'.av <= usbRow'.cv /\ (usbRow'.av = 0 \/ UsbSent(usbRow.av)')
    <3>1. usbRow.av <= usbRow.cv /\ (usbRow.av = 0 \/ UsbSent(usbRow.av))
      BY DEF InIssueOrder
    <3>2. UsbSent(usbRow.av) => UsbSent(usbRow.av)'
      <4> SUFFICES ASSUME NEW k \in DOMAIN usbQueue, usbQueue[k].ver = usbRow.av
                   PROVE  usbQueue'[k].ver = usbRow'.av /\ k \in DOMAIN usbQueue'
        BY DEF UsbSent
      <4> QED
        OBVIOUS
    <3> QED
      BY <3>1, <3>2
  <2> QED
    BY <2>1, <2>2 DEF InIssueOrder
<1>5. RunsLast'
  <2> SUFFICES ASSUME NEW k \in DOMAIN usbQueue', k = handled', usbQueue'[k].list # Omitted
               PROVE  installed' = usbQueue'[k].list
    BY DEF RunsLast
  <2>1. handled \in 0..Len(usbQueue)
    BY DEF UsbTypeOK
  <2>2. k # Len(usbQueue) + 1
    BY <2>1
  <2>3. k \in DOMAIN usbQueue /\ usbQueue'[k] = usbQueue[k]
    BY <1>1, <2>2
  <2> QED
    BY <2>3 DEF RunsLast
<1> QED
  BY <1>2, <1>3, <1>4, <1>5

\* With one request at a time every step but a push to all keeps them.
LEMMA DeliveredStep ==
  ASSUME OneAtATime, UsbTypeOK, UsbTypeOK', DeliveredInv, [UsbNext]_usbVars, pushAlls' = 0
  PROVE  DeliveredInv'
<1> USE UsbNumbers
<1>a. /\ usbEdit \in [UsbThread -> UsbEditRec] /\ usbRow \in UsbRow
      /\ usbQueue \in Seq(UsbCommand) /\ handled \in 0..Len(usbQueue)
      /\ pushAlls \in Nat
  BY UsbTypes, UsbAssumption
<1>b. NoPushAll /\ InIssueOrder /\ RunsLast /\ AllSent
  BY DEF DeliveredInv
\* A request that goes on leaves nothing for the others to say.
<1>c. ASSUME NEW t \in UsbThread, NEW x, usbEdit'[t].step = x
      PROVE  \A u \in UsbThread : u = t /\ usbEdit'[u].step = x
  BY <1>c DEF OneAtATime
<1>d. ASSUME UNCHANGED <<usbRow, usbQueue>> PROVE InIssueOrder'
  BY <1>b, <1>d DEF InIssueOrder, UsbSent
<1>e. ASSUME UNCHANGED <<usbQueue, handled, installed>> PROVE RunsLast'
  BY <1>b, <1>e DEF RunsLast
<1>1. ASSUME NEW t \in UsbThread, usbEdit'[t].step = "list",
             UNCHANGED <<usbRow, usbQueue, handled, installed>>
      PROVE  DeliveredInv'
  <2>1. \A u \in UsbThread : usbEdit'[u].step = "list"
    BY <1>1, <1>c
  <2>2. AllSent' /\ NoPushAll'
    BY <2>1 DEF AllSent, NoPushAll
  <2> QED
    BY <1>1, <1>d, <1>e, <2>1, <2>2 DEF DeliveredInv
<1>2. ASSUME NEW t \in UsbThread,
             \/ \E list \in List : SetGlobal(t, list)
             \/ SetTenantList(t) \/ Resync(t)
      PROVE  DeliveredInv'
  <2>1. usbEdit'[t].step = "list"
    BY <1>2, <1>a DEF SetGlobal, SetTenantList, Resync, Step, UsbEditRec
  <2>2. UNCHANGED <<usbRow, usbQueue, handled, installed>>
    BY <1>2 DEF SetGlobal, SetTenantList, Resync, Request
  <2> QED
    BY <1>1, <2>1, <2>2
<1>3. ASSUME NEW t \in UsbThread, NEW d \in Device, EditTenantList(t, d) PROVE DeliveredInv'
  <2>1. usbEdit[t].step = "idle" /\ usbEdit'[t].step = "set"
    BY <1>3, <1>a DEF EditTenantList, Request, UsbEditRec
  <2>2. UNCHANGED <<usbLists, usbRow, usbQueue, handled, installed>>
    BY <1>3 DEF EditTenantList, Request
  <2>3. \A u \in UsbThread : usbEdit'[u].step = "set" /\ usbEdit[u].step = "idle"
    BY <2>1 DEF OneAtATime
  <2>4. Payload' = Payload
    BY <2>2 DEF usbLists, Payload, Effective
  <2>5. AllSent' /\ NoPushAll'
    BY <1>b, <2>2, <2>3, <2>4 DEF AllSent, NoPushAll, LastIsPayload
  <2> QED
    BY <1>d, <1>e, <2>2, <2>3, <2>5 DEF DeliveredInv
<1>4. ASSUME NEW t \in UsbThread, ListRow(t) PROVE DeliveredInv'
  <2> DEFINE r == [usbRow EXCEPT !.cv = @ + 1]
  <2>1. r.cv = usbRow.cv + 1 /\ r.av = usbRow.av
    BY <1>a DEF UsbRow
  <2>2. usbEdit'[t].step = "save" /\ usbEdit'[t].copy = r
    BY <1>4, <1>a DEF ListRow, UsbEditRec
  <2> HIDE DEF r
  <2>3. \A u \in UsbThread : u = t /\ usbEdit'[u].step = "save"
    BY <1>c, <2>2
  <2>4. UNCHANGED <<usbRow, usbQueue, handled, installed>>
    BY <1>4 DEF ListRow
  <2>5. AllSent' /\ NoPushAll'
    BY <2>3 DEF AllSent, NoPushAll
  <2>6. ~UsbSent(usbRow.cv + 1)
    <3>1. \A k \in DOMAIN usbQueue : usbQueue[k].ver # usbRow.cv + 1
      BY <1>b DEF InIssueOrder
    <3> QED
      BY <3>1 DEF UsbSent
  <2>7. /\ usbRow.cv <= usbRow.cv + 1 /\ usbRow.av < usbRow.cv + 1
        /\ usbRow.av = 0 \/ UsbSent(usbRow.av)
    BY <1>b DEF InIssueOrder
  <2>8. SaveIsNew(t)'
    BY <2>1, <2>2, <2>4, <2>6, <2>7 DEF SaveIsNew, UsbSent
  <2> QED
    BY <1>d, <1>e, <2>3, <2>4, <2>5, <2>8 DEF DeliveredInv
<1>5. ASSUME NEW t \in UsbThread, SaveUsbRow(t) PROVE DeliveredInv'
  <2>1. usbEdit[t].step = "save" /\ usbEdit'[t].step = "ensure" /\ usbRow' = usbEdit[t].copy
    BY <1>5, <1>a DEF SaveUsbRow, UsbEditRec
  <2>2. UNCHANGED <<usbLists, usbQueue, handled, installed>>
    BY <1>5 DEF SaveUsbRow
  <2>3. \A u \in UsbThread : u = t /\ usbEdit'[u].step = "ensure"
    BY <1>c, <2>1
  <2>4. SaveIsNew(t)
    BY <2>1 DEF DeliveredInv
  <2>5. AllSent' /\ NoPushAll'
    BY <2>3 DEF AllSent, NoPushAll
  <2>6. \A v \in Nat : UsbSent(v)' <=> UsbSent(v)
    BY <2>2 DEF UsbSent
  <2>7. InIssueOrder'
    <3>1. \A k \in DOMAIN usbQueue : usbQueue[k].ver <= usbEdit[t].copy.cv
      BY <1>b, <2>4 DEF InIssueOrder, SaveIsNew
    <3>2. /\ usbEdit[t].copy.av <= usbEdit[t].copy.cv
          /\ usbEdit[t].copy.av = 0 \/ UsbSent(usbEdit[t].copy.av)
      BY <2>4 DEF SaveIsNew
    <3> QED
      BY <2>1, <2>2, <3>1, <3>2 DEF InIssueOrder, UsbSent
  <2>8. Payload' = Payload
    BY <2>2 DEF usbLists, Payload, Effective
  <2>9. EnsureSends(t)'
    <3>1. usbEdit[t].copy.cv > 0
      BY <2>4 DEF SaveIsNew
    <3>2. LastIsPayload \/ ~UsbSent(usbEdit[t].copy.cv)
      BY <2>4 DEF SaveIsNew
    <3> QED
      BY <2>1, <2>2, <2>8, <3>1, <3>2 DEF EnsureSends, LastIsPayload, UsbSent
  <2> QED
    BY <1>e, <2>2, <2>3, <2>5, <2>7, <2>9 DEF DeliveredInv
<1>6. ASSUME NEW t \in UsbThread, EnsurePush(t) PROVE DeliveredInv'
  <2>1. usbEdit[t].step = "ensure" /\ usbEdit'[t].step = "idle"
    BY <1>6, <1>a DEF EnsurePush, Step, UsbEditRec
  <2>2. Ensure /\ UNCHANGED <<usbLists, handled, installed>>
    BY <1>6 DEF EnsurePush
  <2>3. \A u \in UsbThread : u = t /\ usbEdit'[u].step = "idle"
    BY <1>c, <2>1
  <2>4. EnsureSends(t)
    BY <2>1 DEF DeliveredInv
  <2>5. LastIsPayload'
    <3>1. CASE Wanted
      BY <2>2, <3>1, EnsureOutcome
    <3>2. CASE ~Wanted
      <4>1. usbRow.cv <= usbRow.av \/ UsbSent(usbRow.cv)
        BY <3>2 DEF Wanted, UsbSent
      <4>2. usbRow.cv <= usbRow.av => UsbSent(usbRow.cv)
        <5> SUFFICES ASSUME usbRow.cv <= usbRow.av PROVE UsbSent(usbRow.cv)
          OBVIOUS
        <5>1. usbRow.cv = usbRow.av /\ usbRow.av # 0
          BY <1>b, <2>4 DEF InIssueOrder, EnsureSends
        <5> QED
          BY <1>b, <5>1 DEF InIssueOrder
      <4>3. LastIsPayload
        BY <2>4, <4>1, <4>2 DEF EnsureSends
      <4>4. Payload' = Payload /\ UNCHANGED <<usbRow, usbQueue>>
        BY <2>2, <3>2, EnsureOutcome
      <4> QED
        BY <4>3, <4>4 DEF LastIsPayload
    <3> QED
      BY <3>1, <3>2
  <2>6. AllSent' /\ NoPushAll'
    BY <2>3, <2>5 DEF AllSent, NoPushAll, LastIsPayload
  <2> QED
    BY <1>b, <2>2, <2>3, <2>6, EnsureKeeps DEF DeliveredInv
<1>7. ASSUME NEW t \in UsbThread, (\E list \in List : PushAllSet(t, list)) \/ PushAllQueue(t)
      PROVE  FALSE
  <2>1. CASE \E list \in List : PushAllSet(t, list)
    <3>1. pushAlls' = pushAlls + 1
      BY <2>1 DEF PushAllSet
    <3> QED
      BY <1>a, <3>1
  <2>2. CASE PushAllQueue(t)
    BY <1>b, <2>2 DEF NoPushAll, PushAllQueue
  <2> QED
    BY <1>7, <2>1, <2>2
\* Steps that leave the requests and the lists alone.
<1>f. ASSUME UNCHANGED <<usbLists, usbEdit>>
      PROVE  Payload' = Payload /\ NoPushAll'
  BY <1>b, <1>f DEF usbLists, Payload, Effective, NoPushAll
<1>8. CASE Apply
  <2> DEFINE c == usbQueue[handled + 1]
             v == IF c.ver > usbRow.av THEN c.ver ELSE usbRow.av
  <2>1. handled' = handled + 1 /\ handled' \in DOMAIN usbQueue
    BY <1>8, <1>a DEF Apply
  <2>2. /\ UNCHANGED <<usbLists, usbEdit, usbQueue>>
        /\ installed' = IF c.list = Omitted THEN installed ELSE c.list
        /\ usbRow' = [usbRow EXCEPT !.av = v]
    BY <1>8, <2>1 DEF Apply
  <2>3. c.ver \in Nat /\ c.ver <= usbRow.cv /\ UsbSent(c.ver)
    BY <1>b, <2>1 DEF InIssueOrder, UsbSent
  <2>4. v <= usbRow.cv /\ (v = 0 \/ UsbSent(v))
    BY <1>b, <2>3 DEF InIssueOrder
  <2> HIDE DEF v
  <2>5. usbRow'.cv = usbRow.cv /\ usbRow'.av = v /\ usbRow'.hash = usbRow.hash
    BY <1>a, <2>2 DEF UsbRow
  <2>6. InIssueOrder'
    BY <1>b, <2>2, <2>4, <2>5 DEF InIssueOrder, UsbSent
  <2>7. RunsLast'
    BY <2>1, <2>2 DEF RunsLast
  <2>8. AllSent'
    BY <1>b, <1>f, <2>2 DEF AllSent, LastIsPayload
  <2>9. ASSUME NEW t \in UsbThread, usbEdit'[t].step = "save" PROVE SaveIsNew(t)'
    <3>1. SaveIsNew(t)
      BY <2>2, <2>9 DEF DeliveredInv
    <3> QED
      BY <1>f, <2>2, <2>5, <3>1 DEF SaveIsNew, LastIsPayload, UsbSent
  <2>10. ASSUME NEW t \in UsbThread, usbEdit'[t].step = "ensure" PROVE EnsureSends(t)'
    <3>1. EnsureSends(t)
      BY <2>2, <2>10 DEF DeliveredInv
    <3> QED
      BY <1>f, <2>2, <2>5, <3>1 DEF EnsureSends, LastIsPayload, UsbSent
  <2> QED
    BY <1>f, <2>2, <2>6, <2>7, <2>8, <2>9, <2>10 DEF DeliveredInv
<1>9. CASE FixDrift
  <2>1. /\ UNCHANGED <<usbLists, usbEdit, usbQueue, handled, installed>>
        /\ usbRow.cv <= usbRow.av /\ usbRow.hash # Payload
        /\ usbRow' = [usbRow EXCEPT !.cv = usbRow.av + 1]
    BY <1>9 DEF FixDrift, Drift
  <2>2. usbRow'.cv = usbRow.av + 1 /\ usbRow'.av = usbRow.av /\ usbRow'.hash = usbRow.hash
    BY <1>a, <2>1 DEF UsbRow
  <2>3. usbRow.av = usbRow.cv /\ \A k \in DOMAIN usbQueue : usbQueue[k].ver < usbRow.av + 1
    BY <1>b, <2>1 DEF InIssueOrder
  <2>4. ~UsbSent(usbRow.av + 1)
    BY <2>3 DEF UsbSent
  <2>5. InIssueOrder'
    <3>1. \A k \in DOMAIN usbQueue : usbQueue[k].ver <= usbRow.av + 1
      BY <2>3
    <3> QED
      BY <1>b, <2>1, <2>2, <3>1 DEF InIssueOrder, UsbSent
  <2>6. AllSent'
    BY <1>b, <1>f, <2>1 DEF AllSent, LastIsPayload
  <2>7. ASSUME NEW t \in UsbThread, usbEdit'[t].step = "save" PROVE SaveIsNew(t)'
    <3>1. SaveIsNew(t)
      BY <2>1, <2>7 DEF DeliveredInv
    <3>2. usbRow.cv # usbEdit[t].copy.cv
      <4> SUFFICES ASSUME usbRow.cv = usbEdit[t].copy.cv PROVE FALSE
        OBVIOUS
      <4>1. usbRow.av # 0
        BY <2>3, <3>1 DEF SaveIsNew
      <4>2. UsbSent(usbEdit[t].copy.cv)
        BY <1>b, <2>3, <4>1 DEF InIssueOrder
      <4> QED
        BY <2>1, <3>1, <4>2 DEF SaveIsNew
    <3>3. usbRow.av + 1 <= usbEdit[t].copy.cv
      BY <2>3, <3>1, <3>2 DEF SaveIsNew
    <3> QED
      BY <1>f, <2>1, <2>2, <3>1, <3>3 DEF SaveIsNew, LastIsPayload, UsbSent
  <2>8. ASSUME NEW t \in UsbThread, usbEdit'[t].step = "ensure" PROVE EnsureSends(t)'
    BY <2>1, <2>2, <2>4 DEF EnsureSends, UsbSent
  <2> QED
    BY <1>e, <1>f, <2>1, <2>5, <2>6, <2>7, <2>8 DEF DeliveredInv
<1>10. CASE PollUsb
  <2>1. Wanted /\ Ensure /\ UNCHANGED <<usbLists, usbEdit, handled, installed>>
    BY <1>10 DEF PollUsb
  <2>2. /\ InIssueOrder' /\ RunsLast'
        /\ \A v \in Nat : UsbSent(v) => UsbSent(v)'
        /\ \A v \in Nat : UsbSent(v)' => UsbSent(v) \/ v = usbRow.cv
    BY <1>b, <2>1, EnsureKeeps
  <2>3. /\ usbRow'.cv = usbRow.cv /\ usbRow'.av = usbRow.av
        /\ usbRow'.hash = Payload /\ LastIsPayload' /\ Payload' = Payload
    BY <2>1, EnsureOutcome
  <2>4. AllSent'
    BY <2>3 DEF AllSent, LastIsPayload
  <2>5. ASSUME NEW t \in UsbThread, usbEdit'[t].step = "save" PROVE SaveIsNew(t)'
    <3>1. SaveIsNew(t) /\ usbEdit'[t] = usbEdit[t]
      BY <2>1, <2>5 DEF DeliveredInv
    <3>2. usbEdit[t].copy.av = 0 \/ UsbSent(usbEdit[t].copy.av)'
      BY <2>2, <3>1 DEF SaveIsNew
    <3> QED
      BY <2>3, <3>1, <3>2 DEF SaveIsNew, UsbSent
  <2>6. ASSUME NEW t \in UsbThread, usbEdit'[t].step = "ensure" PROVE EnsureSends(t)'
    <3>1. EnsureSends(t)
      BY <2>1, <2>6 DEF DeliveredInv
    <3> QED
      BY <2>3, <3>1 DEF EnsureSends
  <2> QED
    BY <1>f, <2>1, <2>2, <2>4, <2>5, <2>6 DEF DeliveredInv
<1>11. CASE UNCHANGED usbVars
  <2>1. UNCHANGED <<usbLists, usbEdit, usbRow, usbQueue, handled, installed>>
    BY <1>11 DEF usbVars
  <2>2. AllSent'
    BY <1>b, <1>f, <2>1 DEF AllSent, LastIsPayload
  <2>3. ASSUME NEW t \in UsbThread
        PROVE  /\ SaveIsNew(t)' <=> SaveIsNew(t)
               /\ EnsureSends(t)' <=> EnsureSends(t)
    BY <1>f, <2>1 DEF SaveIsNew, EnsureSends, LastIsPayload, UsbSent
  <2> QED
    BY <1>d, <1>e, <1>f, <2>1, <2>2, <2>3 DEF DeliveredInv
<1> QED
  BY <1>2, <1>3, <1>4, <1>5, <1>6, <1>7, <1>8, <1>9, <1>10, <1>11 DEF UsbNext

\* Once nothing is under way the spoke works with the last list.
LEMMA DeliveredFollows ==
  ASSUME UsbTypeOK, DeliveredInv
  PROVE  UsbDelivered
<1> USE UsbNumbers
<1> SUFFICES ASSUME UsbSettled, Payload # Omitted PROVE installed = Payload
  BY DEF UsbDelivered
<1>1. usbQueue # <<>> /\ usbQueue[Len(usbQueue)].list = Payload
  BY DEF DeliveredInv, AllSent, LastIsPayload, UsbSettled
<1>2. handled = Len(usbQueue) /\ handled \in DOMAIN usbQueue
  <2>1. usbQueue \in Seq(UsbCommand)
    BY UsbTypes
  <2>2. Len(usbQueue) # 0
    BY <1>1, <2>1
  <2> QED
    BY <2>2 DEF UsbSettled
<1> QED
  BY <1>1, <1>2 DEF DeliveredInv, RunsLast

\* If requests come one at a time, and as long as no list was pushed to all,
\* the spoke ends up with the union of the platform's list and the tenant's,
\* for any devices and any number of edits, heartbeats and polls in between
\* (_effective_usb_vidpids_from, ensure_config_update_command).  Overlapping
\* requests break it: one saves its older copy of the row over the other's.
THEOREM UsbDeliveredCorrect ==
  ASSUME OneAtATime PROVE UsbSpec => [](pushAlls = 0 => UsbDelivered)
<1> DEFINE Delivered == pushAlls = 0 => DeliveredInv
<1>1. UsbInit => Delivered
  BY DEF UsbInit, NoUsbEdit, NewRow, DeliveredInv, NoPushAll, InIssueOrder, RunsLast,
         AllSent, Payload, Effective
<1>2. UsbTypeOK /\ UsbTypeOK' /\ Delivered /\ [UsbNext]_usbVars => Delivered'
  <2> SUFFICES ASSUME UsbTypeOK, UsbTypeOK', Delivered, [UsbNext]_usbVars, pushAlls' = 0
               PROVE  DeliveredInv'
    OBVIOUS
  <2>1. pushAlls \in Nat
    BY UsbAssumption DEF UsbTypeOK
  <2>2. pushAlls' = pushAlls \/ pushAlls' = pushAlls + 1
    BY DEF UsbNext, SetGlobal, PushAllSet, EditTenantList, SetTenantList, Resync, ListRow,
           SaveUsbRow, EnsurePush, PushAllQueue, Apply, FixDrift, PollUsb, usbCounters, usbVars
  <2>3. pushAlls = 0
    BY <2>1, <2>2
  <2> QED
    BY <2>3, OneAtATime, DeliveredStep
<1>3. UsbTypeOK /\ Delivered => (pushAlls = 0 => UsbDelivered)
  BY DeliveredFollows
<1> HIDE DEF Delivered
<1> QED
  BY <1>1, <1>2, <1>3, UsbTypeCorrect, PTL DEF UsbSpec

=============================================================================
