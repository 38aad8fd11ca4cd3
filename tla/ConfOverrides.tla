--------------------------- MODULE ConfOverrides ---------------------------
(* How an administrator changes what simulations the clients of a tenant    *)
(* run (routers/aggregate.py): the hub keeps override texts in the tenant   *)
(* and pushes them with config_update; with a GitHub token the files in the *)
(* repository are changed instead.  The content of user-overrides.conf is   *)
(* the set of flags that are on for one client, and no override the empty   *)
(* set; of simulation.conf, a text.                                         *)
(*                                                                          *)
(* The endpoints that do not await run in threads, each over its own copy   *)
(* of the tenant; the two that talk to GitHub hold theirs across the calls. *)
EXTENDS Naturals, FiniteSets

CONSTANTS
    Flag,       \* simulations that can be switched for the client
    Text,       \* texts of simulation.conf
    Unset,      \* no override: the file in the repository applies
    Editor,     \* requests that may be under way at once
    Fleet,      \* the tenant's approved spokes
    MaxChange,  \* bound: requests started
    MaxCommit   \* bound: commits in the repository

ASSUME OverrideAssumption ==
    /\ Unset \notin Text /\ Text # {} /\ Flag # {}
    /\ MaxChange \in Nat /\ MaxCommit \in Nat

VARIABLES
    token,      \* a GitHub token is configured
    managed,    \* hub_config_enabled: drift detection covers the overrides
    overrides,  \* [sim, user, display]: the tenant's override fields
    repo,       \* user-overrides.conf on GitHub: [rev, on]
    simFile,    \* simulation.conf on GitHub: [rev, text]
    edit,       \* edit[e]: the request handled by e
    stale,      \* spokes not sent the overrides as they are
    toSync,     \* spokes with a queued repo_sync
    changes     \* requests so far

confVars == <<token, managed, overrides, repo, simFile, edit, stale, toSync, changes>>

OverridesValue == [sim: Text \cup {Unset}, user: SUBSET Flag,
                   display: SUBSET Flag]
NoEditYet == [step |-> "none", flag |-> CHOOSE f \in Flag : TRUE, on |-> FALSE,
              copy |-> [sim |-> Unset, user |-> {}, display |-> {}],
              rev |-> 0, got |-> {}, text |-> Unset]

ConfTypeOK ==
    /\ token \in BOOLEAN /\ managed \in BOOLEAN
    /\ overrides \in OverridesValue
    /\ repo \in [rev: 0..MaxCommit, on: SUBSET Flag]
    /\ simFile \in [rev: 0..MaxCommit, text: Text]
    /\ edit \in [Editor -> [step: {"none", "save", "push", "fetch", "put", "fetchSim", "putSim"},
                            flag: Flag, on: BOOLEAN, copy: OverridesValue,
                            rev: 0..MaxCommit, got: SUBSET Flag, text: Text \cup {Unset}]]
    /\ stale \subseteq Fleet /\ toSync \subseteq Fleet
    /\ changes \in 0..MaxChange

ConfInit ==
    /\ token \in BOOLEAN /\ managed \in BOOLEAN
    /\ overrides = [sim |-> Unset, user |-> {}, display |-> {}]
    /\ repo = [rev |-> 0, on |-> {}]
    /\ simFile = [rev |-> 0, text |-> CHOOSE t \in Text : TRUE]
    /\ edit = [e \in Editor |-> NoEditYet]
    /\ stale = {} /\ toSync = {}
    /\ changes = 0

(* _modify_ini_content: one key of one section is set or removed.           *)
Modified(content, flag, on) == IF on THEN content \cup {flag} ELSE content \ {flag}

Begin(e, step, request) ==
    /\ edit[e].step = "none" /\ changes < MaxChange
    /\ changes' = changes + 1
    /\ edit' = [edit EXCEPT ![e] = [request EXCEPT !.step = step]]
    /\ UNCHANGED <<token, managed, overrides, repo, simFile, stale, toSync>>

-----------------------------------------------------------------------------
(* save_ and clear_sim_conf_override, and save_simulation_conf without a     *)
(* token: the tenant is read, one field of the copy changed.                 *)
EditSimOverride(e, text) ==
    Begin(e, "save", [NoEditYet EXCEPT !.copy = [overrides EXCEPT !.sim = text]])

(* save_, clear_user_conf_override, save_user_overrides_conf.               *)
EditUserOverride(e, content) ==
    Begin(e, "save", [NoEditYet EXCEPT !.copy = [overrides EXCEPT !.user = content]])

(* set_client_sim_override: the display list changes in the copy; with a     *)
(* token the repository comes first, without one the override changes too.   *)
SwitchFlag(e, f, on) ==
    LET shown == [overrides EXCEPT !.display = Modified(@, f, on)]
        hubOnly == [shown EXCEPT !.user = Modified(@, f, on)]
        request == [NoEditYet EXCEPT !.flag = f, !.on = on]
    IN \/ token /\ Begin(e, "fetch", [request EXCEPT !.copy = shown])
       \/ ~token /\ Begin(e, "save", [request EXCEPT !.copy = hubOnly])

FetchUserConf(e) ==
    /\ edit[e].step = "fetch"
    /\ edit' = [edit EXCEPT ![e].step = "put", ![e].rev = repo.rev, ![e].got = repo.on]
    /\ UNCHANGED <<token, managed, overrides, repo, simFile, stale, toSync, changes>>

(* GitHub did not take the change, or cannot be heard: it goes to the hub's  *)
(* override of the tenant as read at the start.                              *)
FallBack(e) == [edit EXCEPT ![e].step = "save",
                            ![e].copy.user = Modified(@, edit[e].flag, edit[e].on)]

GitHubFails(e) ==
    /\ edit[e].step \in {"fetch", "put"}
    /\ edit' = FallBack(e)
    /\ UNCHANGED <<token, managed, overrides, repo, simFile, stale, toSync, changes>>

(* Mutant of PutUserConf: the PUT does not name the revision it read.        *)
PutUserConfBlindly(e) ==
    /\ edit[e].step = "put"
    /\ repo.rev < MaxCommit
    /\ repo' = [rev |-> repo.rev + 1, on |-> Modified(edit[e].got, edit[e].flag, edit[e].on)]
    /\ edit' = [edit EXCEPT ![e].step = "save"]
    /\ UNCHANGED <<token, managed, overrides, simFile, stale, toSync, changes>>

(* GitHub takes a PUT for the revision it still has; its answer may be lost. *)
PutUserConf(e) ==
    /\ edit[e].step = "put"
    /\ edit[e].rev = repo.rev /\ repo.rev < MaxCommit
    /\ repo' = [rev |-> repo.rev + 1, on |-> Modified(edit[e].got, edit[e].flag, edit[e].on)]
    /\ \/ edit' = [edit EXCEPT ![e].step = "save"]
       \/ edit' = FallBack(e)
    /\ UNCHANGED <<token, managed, overrides, simFile, stale, toSync, changes>>

(* save_tenant writes the whole copy.                                       *)
SaveOverrides(e) ==
    /\ edit[e].step = "save"
    /\ overrides' = edit[e].copy
    /\ stale' = IF edit[e].copy.sim # overrides.sim \/ edit[e].copy.user # overrides.user
                THEN Fleet ELSE stale
    /\ edit' = [edit EXCEPT ![e].step = "push"]
    /\ UNCHANGED <<token, managed, repo, simFile, toSync, changes>>

(* _push_conf_overrides_to_spokes calls store.get_spokes, which the store    *)
(* does not define: the request ends in an AttributeError, before any spoke. *)
PushOverrides(e) ==
    /\ edit[e].step = "push"
    /\ edit' = [edit EXCEPT ![e] = NoEditYet]
    /\ UNCHANGED <<token, managed, overrides, repo, simFile, stale, toSync, changes>>

-----------------------------------------------------------------------------
(* save_simulation_conf with a token: the content is the editor's, the       *)
(* revision the one of just before the PUT.  If its answer is lost, no spoke *)
(* is told.                                                                  *)
EditSimFile(e, text) ==
    token /\ Begin(e, "fetchSim", [NoEditYet EXCEPT !.text = text])

FetchSimFile(e) ==
    /\ edit[e].step = "fetchSim"
    /\ edit' = [edit EXCEPT ![e].step = "putSim", ![e].rev = simFile.rev]
    /\ UNCHANGED <<token, managed, overrides, repo, simFile, stale, toSync, changes>>

PutSimFile(e) ==
    /\ edit[e].step = "putSim"
    /\ edit[e].rev = simFile.rev /\ simFile.rev < MaxCommit
    /\ simFile' = [rev |-> simFile.rev + 1, text |-> edit[e].text]
    /\ toSync' \in {Fleet, toSync}
    /\ edit' = [edit EXCEPT ![e] = NoEditYet]
    /\ UNCHANGED <<token, managed, overrides, repo, stale, changes>>

SimFileFails(e) ==
    /\ edit[e].step \in {"fetchSim", "putSim"}
    /\ edit' = [edit EXCEPT ![e] = NoEditYet]
    /\ UNCHANGED <<token, managed, overrides, repo, simFile, stale, toSync, changes>>

-----------------------------------------------------------------------------
(* Somebody commits to user-overrides.conf in the repository.                *)
Commit(f) ==
    /\ repo.rev < MaxCommit
    /\ repo' = [rev |-> repo.rev + 1, on |-> Modified(repo.on, f, f \notin repo.on)]
    /\ UNCHANGED <<token, managed, overrides, simFile, edit, stale, toSync, changes>>

(* A heartbeat that finds the hash changed pushes; without hub management    *)
(* the hash covers the USB list alone.                                       *)
Heartbeat(s) ==
    /\ stale' = IF managed THEN stale \ {s} ELSE stale
    /\ UNCHANGED <<token, managed, overrides, repo, simFile, edit, toSync, changes>>

SyncRepo(s) ==
    /\ s \in toSync
    /\ toSync' = toSync \ {s}
    /\ UNCHANGED <<token, managed, overrides, repo, simFile, edit, stale, changes>>

ConfNext ==
    \/ \E e \in Editor :
         \/ \E t \in Text \cup {Unset} : EditSimOverride(e, t)
         \/ \E c \in SUBSET Flag : EditUserOverride(e, c)
         \/ \E f \in Flag, on \in BOOLEAN : SwitchFlag(e, f, on)
         \/ FetchUserConf(e) \/ PutUserConf(e) \/ GitHubFails(e)
         \/ SaveOverrides(e) \/ PushOverrides(e)
         \/ \E t \in Text : EditSimFile(e, t)
         \/ FetchSimFile(e) \/ PutSimFile(e) \/ SimFileFails(e)
    \/ \E f \in Flag : Commit(f)
    \/ \E s \in Fleet : Heartbeat(s) \/ SyncRepo(s)

ConfSpec == ConfInit /\ [][ConfNext]_confVars

-----------------------------------------------------------------------------
(* A commit switches one flag: a request that prepared its content while     *)
(* another change was committed takes no flag of that change back, because   *)
(* its PUT names the revision it was prepared from.                          *)
CommitSwitchesOne ==
    [][LET before == repo.on
           after == repo'.on
       IN Cardinality((before \ after) \cup (after \ before)) <= 1]_confVars

(* When no request is under way every approved spoke has been sent the       *)
(* overrides: saving one pushes it to all approved spokes, as the endpoints' *)
(* descriptions say (aggregate.py:887).                                      *)
OverridesPushed == (\A e \in Editor : edit[e].step = "none") => stale = {}
=============================================================================
