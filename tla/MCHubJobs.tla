----------------------------- MODULE MCHubJobs -----------------------------
(***************************************************************************)
(* What must end, for TLC, in one run: the pushes of queued commands, the  *)
(* sends on a spoke's sockets, a reseed job and the announcements of       *)
(* check_state_engine.  Each behaviour is one of a single part, named by   *)
(* component.  No action with fairness is enabled in the initial state of  *)
(* a part, so that the fairness of the others asks nothing of it.          *)
(***************************************************************************)
EXTENDS CommandQueue, ReseedJob, FleetWatch, SpokeLink, TLC

CONSTANTS s1, s2

VARIABLE component

Limits == s1 :> 2 @@ s2 :> 1

JobsInit ==
  /\ component \in {"queue", "reseed", "watch", "link"}
  /\ Init /\ ReseedInit /\ WatchInit /\ LinkInit

JobsNext ==
  /\ UNCHANGED component
  /\ \/ component = "queue" /\ Next /\ UNCHANGED <<reseedVars, watchVars, linkVars>>
     \/ component = "reseed" /\ ReseedNext /\ UNCHANGED <<vars, watchVars, linkVars>>
     \/ component = "watch" /\ WatchNext /\ UNCHANGED <<vars, reseedVars, linkVars>>
     \/ component = "link" /\ LinkNext /\ UNCHANGED <<vars, reseedVars, watchVars>>

jobsVars == <<component, vars, reseedVars, watchVars, linkVars>>

JobsSpec ==
  /\ JobsInit /\ [][JobsNext]_jobsVars
  /\ Fairness /\ ReseedFairness /\ WatchFairness /\ LinkFairness

(* Every part keeps to its types.                                          *)
JobsTypeOK ==
  /\ component = "queue" => TypeOK
  /\ component = "reseed" => ReseedTypeOK
  /\ component = "watch" => WatchTypeOK
  /\ component = "link" => LinkTypeOK
=============================================================================
