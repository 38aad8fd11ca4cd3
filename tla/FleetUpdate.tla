---------------------------- MODULE FleetUpdate ----------------------------
(* "Update all" of a tenant (routers/spokes.py): every approved spoke is    *)
(* told to update its Proxmox agent, and a background task looks at the     *)
(* reported versions until each agent's changes, or has not for some polls, *)
(* then tells that spoke to update itself and waits for its version.        *)
EXTENDS Naturals, FiniteSets

CONSTANTS
    Host,       \* the spokes
    UpdateId,   \* the jobs that may be started
    AgentPolls, \* polls after which an unchanged agent counts as current (4)
    JobPolls,   \* polls until the deadline (600 s / 15 s)
    MaxLoss     \* bound: restarts of the hub

ASSUME UpdateAssumption == {AgentPolls, JobPolls, MaxLoss} \subseteq Nat

VARIABLES
    approved,   \* the tenant's spokes, which may be deleted
    version,    \* version[s]: what the spoke s runs: [agent, spoke]
    shown,      \* shown[s]: what its telemetry says
    toUpdate,   \* toUpdate[s]: update commands queued for s
    updateJob,  \* updateJob[j]: _update_jobs
    selfTold,   \* history, selfTold[j][s]: self_update commands queued by j
    losses      \* restarts so far

updateVars == <<approved, version, shown, toUpdate, updateJob, selfTold, losses>>

Unknown == 0
Old == 1
New == 2
Versions == [agent: {Unknown, Old, New}, spoke: {Unknown, Old, New}]

(* A spoke's entry in a job; one that was not approved then has none.       *)
EntryValue == [before: Versions, checks: 0..AgentPolls,
               agent: {"pending", "updated", "current", "timeout"},
               spoke: {"pending", "updated", "timeout"}]
NoEntry == [before |-> [agent |-> Unknown, spoke |-> Unknown], checks |-> 0,
            agent |-> "none", spoke |-> "none"]
NoJob == [step |-> "none", polls |-> 0, entry |-> [s \in Host |-> NoEntry]]

UpdateTypeOK ==
    /\ approved \subseteq Host
    /\ version \in [Host -> Versions] /\ shown \in [Host -> Versions]
    /\ toUpdate \in [Host -> SUBSET {"proxmox_agent_update", "self_update"}]
    /\ updateJob \in [UpdateId -> [step: {"none", "polling", "completed"}, polls: 0..JobPolls,
                                   entry: [Host -> EntryValue \cup {NoEntry}]]]
    /\ selfTold \in [UpdateId -> [Host -> 0..2]]
    /\ losses \in 0..MaxLoss

UpdateInit ==
    /\ approved = Host
    /\ version = [s \in Host |-> [agent |-> Old, spoke |-> Old]]
    /\ shown = [s \in Host |-> [agent |-> Unknown, spoke |-> Unknown]]
    /\ toUpdate = [s \in Host |-> {}]
    /\ updateJob = [j \in UpdateId |-> NoJob]
    /\ selfTold = [j \in UpdateId |-> [s \in Host |-> 0]]
    /\ losses = 0

In(j, s) == updateJob[j].entry[s] # NoEntry

-----------------------------------------------------------------------------
(* _spoke_versions_snapshot                                                 *)
Snapshot == [s \in Host |->
    IF s \in approved
    THEN [before |-> shown[s], checks |-> 0, agent |-> "pending", spoke |-> "pending"]
    ELSE NoEntry]

(* update_all_spokes                                                        *)
UpdateAll(j) ==
    /\ updateJob[j].step = "none" /\ approved # {}
    /\ updateJob' = [updateJob EXCEPT ![j] = [step |-> "polling", polls |-> 0, entry |-> Snapshot]]
    /\ toUpdate' = [s \in Host |-> IF s \in approved THEN toUpdate[s] \cup {"proxmox_agent_update"}
                                   ELSE toUpdate[s]]
    /\ UNCHANGED <<approved, version, shown, selfTold, losses>>

-----------------------------------------------------------------------------
Changed(now, before) == now # Unknown /\ now # before

(* What a poll makes of the entry e of s: the agent's status first.         *)
AgentLooked(e, s) ==
    IF e.agent # "pending" THEN e
    ELSE IF Changed(shown[s].agent, e.before.agent) THEN [e EXCEPT !.agent = "updated"]
    ELSE IF e.checks >= AgentPolls THEN [e EXCEPT !.agent = "current"]
    ELSE [e EXCEPT !.checks = @ + 1]

SpokeLooked(e, s) ==
    IF e.spoke = "pending" /\ Changed(shown[s].spoke, e.before.spoke)
    THEN [e EXCEPT !.spoke = "updated"] ELSE e

Looked(e, s) == SpokeLooked(AgentLooked(e, s), s)

(* Mutant of AllDone: only the spokes' own versions are waited for.         *)
SpokesDone(entry) == \A s \in approved : entry[s].spoke # "pending"

(* all_done; a deleted spoke is not waited for.                             *)
AllDone(entry) == \A s \in approved : entry[s].agent # "pending" /\ entry[s].spoke # "pending"

(* One poll of _poll_update_job over the spokes that are in the store.      *)
PollUpdate(j) ==
    /\ updateJob[j].step = "polling" /\ updateJob[j].polls < JobPolls
    /\ LET old == updateJob[j].entry
           entry == [s \in Host |-> IF s \in approved /\ In(j, s) THEN Looked(old[s], s) ELSE old[s]]
           tell == {s \in Host : In(j, s) /\ old[s].agent = "pending" /\ entry[s].agent # "pending"}
       IN  /\ updateJob' = [updateJob EXCEPT ![j] =
                   [step |-> IF AllDone(entry) THEN "completed" ELSE "polling",
                    polls |-> @.polls + 1, entry |-> entry]]
           /\ toUpdate' = [s \in Host |-> IF s \in tell THEN toUpdate[s] \cup {"self_update"}
                                          ELSE toUpdate[s]]
           /\ selfTold' = [selfTold EXCEPT ![j] =
                   [s \in Host |-> IF s \in tell THEN @[s] + 1 ELSE @[s]]]
    /\ UNCHANGED <<approved, version, shown, losses>>

(* The deadline: what is pending has timed out.                             *)
TimedOut(e) == [e EXCEPT !.agent = IF @ = "pending" THEN "timeout" ELSE @,
                         !.spoke = IF @ = "pending" THEN "timeout" ELSE @]

EndUpdate(j) ==
    /\ updateJob[j].step = "polling" /\ updateJob[j].polls = JobPolls
    /\ updateJob' = [updateJob EXCEPT ![j] =
           [step |-> "completed", polls |-> @.polls, entry |-> [s \in Host |-> TimedOut(@.entry[s])]]]
    /\ UNCHANGED <<approved, version, shown, toUpdate, selfTold, losses>>

-----------------------------------------------------------------------------
(* A spoke runs an update, which brings a new version or does not.          *)
RunUpdate(s) ==
    /\ s \in approved
    /\ \E c \in toUpdate[s] :
        /\ toUpdate' = [toUpdate EXCEPT ![s] = @ \ {c}]
        /\ \/ UNCHANGED version
           \/ version' = IF c = "self_update" THEN [version EXCEPT ![s].spoke = New]
                         ELSE [version EXCEPT ![s].agent = New]
    /\ UNCHANGED <<approved, shown, updateJob, selfTold, losses>>

(* An administrator of the spoke updates it there.                          *)
UpdateByHand(s) ==
    /\ s \in approved
    /\ version' = [version EXCEPT ![s].spoke = New]
    /\ UNCHANGED <<approved, shown, toUpdate, updateJob, selfTold, losses>>

(* Telemetry                                                                *)
ShowVersions(s) ==
    /\ s \in approved
    /\ shown' = [shown EXCEPT ![s] = version[s]]
    /\ UNCHANGED <<approved, version, toUpdate, updateJob, selfTold, losses>>

(* Nothing more is heard of it, whatever it runs.                           *)
DeleteHost(s) ==
    /\ s \in approved /\ approved' = approved \ {s}
    /\ toUpdate' = [toUpdate EXCEPT ![s] = {}]
    /\ shown' = [shown EXCEPT ![s] = [agent |-> Unknown, spoke |-> Unknown]]
    /\ version' = [version EXCEPT ![s] = [agent |-> Old, spoke |-> Old]]
    /\ UNCHANGED <<updateJob, selfTold, losses>>

(* The jobs are only in memory.                                             *)
LoseJobs ==
    /\ losses < MaxLoss /\ losses' = losses + 1
    /\ updateJob' = [j \in UpdateId |-> NoJob]
    /\ selfTold' = [j \in UpdateId |-> [s \in Host |-> 0]]
    /\ UNCHANGED <<approved, version, shown, toUpdate>>

UpdateNext ==
    \/ \E j \in UpdateId : UpdateAll(j) \/ PollUpdate(j) \/ EndUpdate(j)
    \/ \E s \in Host : RunUpdate(s) \/ UpdateByHand(s) \/ ShowVersions(s) \/ DeleteHost(s)
    \/ LoseJobs

UpdateSpec == UpdateInit /\ [][UpdateNext]_updateVars

-----------------------------------------------------------------------------
(* A job that says it is completed has passed over no spoke that is still   *)
(* in the fleet: each is either reported as timed out, or its self_update   *)
(* was queued by this job, once, in whatever order the two versions changed *)
(* (a spoke updated by hand, or by the other job, before its agent was) and *)
(* although a poll skips the spokes it does not find.                       *)
NobodySkipped ==
    \A j \in UpdateId : updateJob[j].step = "completed" =>
        \A s \in approved : In(j, s) =>
            \/ "timeout" \in {updateJob[j].entry[s].agent, updateJob[j].entry[s].spoke}
            \/ selfTold[j][s] = 1 /\ updateJob[j].entry[s].spoke = "updated"
============================================================================
