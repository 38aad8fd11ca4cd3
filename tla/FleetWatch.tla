----------------------------- MODULE FleetWatch -----------------------------
(***************************************************************************)
(* The loops of tasks.py that watch over the fleet: heartbeat_monitor      *)
(* shows which spokes are online, check_state_engine announces those that  *)
(* went offline (send_notification).  What they remember is in memory      *)
(* only.                                                                   *)
(*                                                                         *)
(* The loops are tasks of one event loop: they interleave where they       *)
(* await, and a pass goes on with the rows of spokes.json it read before.  *)
(***************************************************************************)
EXTENDS Naturals

CONSTANTS
  Watched, \* the spokes of the one tenant
  MaxFault \* bound: restarts and failed saves

ASSUME WatchAssumption == MaxFault \in Nat

VARIABLES
  approved,   \* spokes with status "approved"
  seen,       \* last_seen: never, less than 300 seconds ago, or before
  shown,      \* spoke_online, and what the browsers were told
  prev,       \* prev_online of check_state_engine
  toLook,     \* spokes that its pass has still to look at
  readOld,    \* those whose last_seen was 300 seconds old when it was read
  announcing, \* the spoke whose notification is being sent
  told,       \* history: spokes whose present silence was announced
  unsent,     \* history: those for which the message was given up
  watchFaults

engineVars == <<prev, toLook, readOld, announcing, told, unsent>>
watchVars == <<approved, seen, shown, engineVars, watchFaults>>

Nowhere == "nowhere"
Unknown == "unknown"
Seen == {"never", "new", "old"}
Online(s) == seen[s] = "new"
State == {"online", "offline"}
StateOf(online) == IF online THEN "online" ELSE "offline"
Forgotten == [s \in Watched |-> Unknown]

WatchTypeOK ==
  /\ approved \subseteq Watched
  /\ seen \in [Watched -> Seen]
  /\ shown \in [Watched -> State \cup {Unknown}]
  /\ prev \in [Watched -> State \cup {Unknown}]
  /\ toLook \subseteq Watched /\ readOld \subseteq Watched
  /\ announcing \in Watched \cup {Nowhere}
  /\ told \subseteq Watched /\ unsent \subseteq Watched
  /\ watchFaults \in 0 .. MaxFault

WatchInit ==
  /\ approved = {} /\ seen = [s \in Watched |-> "never"]
  /\ shown = Forgotten
  /\ prev = Forgotten /\ toLook = {} /\ readOld = {} /\ announcing = Nowhere
  /\ told = {} /\ unsent = {}
  /\ watchFaults = 0

WatchFault == watchFaults < MaxFault /\ watchFaults' = watchFaults + 1

-----------------------------------------------------------------------------
(* The spokes and the administrator.                                       *)

Approve(s) ==
  /\ s \notin approved
  /\ approved' = approved \cup {s}
  /\ UNCHANGED <<seen, shown, engineVars, watchFaults>>

ReportSeen(s) ==
  /\ s \in approved
  /\ seen' = [seen EXCEPT ![s] = "new"]
  /\ told' = told \ {s} /\ unsent' = unsent \ {s}
  /\ UNCHANGED <<approved, shown, prev, toLook, readOld, announcing, watchFaults>>

\* 300 seconds go by without a report of s.
FallSilent(s) ==
  /\ Online(s)
  /\ seen' = [seen EXCEPT ![s] = "old"]
  /\ UNCHANGED <<approved, shown, engineVars, watchFaults>>

-----------------------------------------------------------------------------
(* heartbeat_monitor: one pass, which awaits nothing but its broadcast.    *)

ShowOnline ==
  /\ shown' = [s \in Watched |-> IF s \in approved THEN StateOf(Online(s)) ELSE shown[s]]
  /\ shown' # shown
  /\ UNCHANGED <<approved, seen, engineVars, watchFaults>>

-----------------------------------------------------------------------------
(* check_state_engine.                                                     *)

\* The pass reads the rows of all spokes.
BeginPass ==
  /\ toLook = {} /\ announcing = Nowhere /\ approved # {}
  /\ toLook' = approved
  /\ readOld' = {s \in approved : ~Online(s)}
  /\ UNCHANGED <<approved, seen, shown, prev, announcing, told, unsent, watchFaults>>

\* While a notification is sent, more of the rows it read become old.
Ages(s) ==
  /\ announcing # Nowhere /\ s \in toLook \ readOld
  /\ readOld' = readOld \cup {s}
  /\ UNCHANGED <<approved, seen, shown, prev, toLook, announcing, told, unsent,
                 watchFaults>>

\* A spoke that was online and is not any more is announced first.
Look(s) ==
  /\ announcing = Nowhere /\ s \in toLook
  /\ IF prev[s] = "online" /\ s \in readOld
       THEN announcing' = s /\ UNCHANGED <<toLook, prev>>
       ELSE /\ prev' = [prev EXCEPT ![s] = StateOf(s \notin readOld)]
            /\ toLook' = toLook \ {s} /\ UNCHANGED announcing
  /\ UNCHANGED <<approved, seen, shown, readOld, told, unsent, watchFaults>>

\* send_notification returns, and prev_online is recorded: a message was sent,
\* or queued for the spoke, or it was given up, for a failed POST or SMTP send and
\* a missing configuration raise nothing.
Announced(s) ==
  /\ announcing = s
  /\ \/ told' = told \cup {s} /\ UNCHANGED unsent
     \/ unsent' = unsent \cup {s} /\ UNCHANGED told
  /\ prev' = [prev EXCEPT ![s] = "offline"]
  /\ toLook' = toLook \ {s} /\ announcing' = Nowhere
  /\ UNCHANGED <<approved, seen, shown, readOld, watchFaults>>

\* (mutant) a pass that ends with an exception has recorded the transition
AnnounceFailsOnce(s) ==
  /\ announcing = s /\ WatchFault
  /\ told' \in {told, told \cup {s}}
  /\ prev' = [prev EXCEPT ![s] = "offline"]
  /\ toLook' = {} /\ announcing' = Nowhere
  /\ UNCHANGED <<approved, seen, shown, readOld, unsent>>

\* The store raises, before a message is queued or when it is entered in the
\* audit log: the pass ends there, and prev_online is as it was.
AnnounceFails(s) ==
  /\ announcing = s /\ WatchFault
  /\ told' \in {told, told \cup {s}}
  /\ toLook' = {} /\ announcing' = Nowhere
  /\ UNCHANGED <<approved, seen, shown, prev, readOld, unsent>>

-----------------------------------------------------------------------------
(* The hub is restarted, and knows none of it any more.                    *)

RestartHub ==
  /\ WatchFault
  /\ shown' = Forgotten /\ prev' = Forgotten
  /\ toLook' = {} /\ readOld' = {} /\ announcing' = Nowhere
  /\ UNCHANGED <<approved, seen, told, unsent>>

WatchNext ==
  \/ \E s \in Watched :
       \/ Approve(s) \/ ReportSeen(s) \/ FallSilent(s)
       \/ Ages(s) \/ Look(s) \/ Announced(s) \/ AnnounceFails(s)
  \/ ShowOnline \/ BeginPass \/ RestartHub

WatchSpec == WatchInit /\ [][WatchNext]_watchVars

\* The pass is repeated, and an await ends: messages are sent with a timeout.
WatchFairness ==
  /\ WF_watchVars(BeginPass)
  /\ \A s \in Watched : WF_watchVars(Look(s)) /\ WF_watchVars(Announced(s))

WatchFairSpec == WatchSpec /\ WatchFairness

-----------------------------------------------------------------------------
(* Properties.                                                             *)

\* A spoke that check_state_engine knew to be online and that stays silent gets
\* a send_notification that runs to its end: a pass that ends with an exception
\* leaves prev_online as it was, and the next one tries again.  That the message
\* arrives is not said: one that Teams or the mail server refuses, or nobody is
\* configured for, is given up and not tried again.
SilenceTried ==
  \A s \in Watched :
    (prev[s] = "online" /\ seen[s] = "old")
      ~> (s \in told \cup unsent \/ seen[s] = "new" \/ prev[s] = Unknown)

=============================================================================
