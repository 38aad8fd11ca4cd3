------------------------------ MODULE ReseedJob ------------------------------
(***************************************************************************)
(* A reseed job (routers/backups.py): a VM template is sent to the spokes  *)
(* of a tenant, each of which restores it and reports its progress; the    *)
(* hub sends the command again, up to three times, some minutes after an   *)
(* error.  The job lives in the hub's memory, in the dict backup_jobs.     *)
(*                                                                         *)
(* trigger_reseed, _retry_reseed_after_delay and the handler of a report   *)
(* are coroutines of one event loop.  They give way only while they wait   *)
(* to send (the lock of the spoke's socket, a full buffer); the frame and  *)
(* the change of the status that follows it are one step.                  *)
(*                                                                         *)
(* A report carries the job, not the attempt: the hub cannot tell a late   *)
(* report of an attempt from one of the next attempt.  A spoke repeats a   *)
(* failed attempt itself (retry_max), so an error need not be its last     *)
(* word.                                                                   *)
(***************************************************************************)
EXTENDS Naturals

CONSTANTS
  Spoke,  \* the spokes of the job
  limit,  \* the retries of each spoke; in the code, 3 for every one
  MaxLost \* bound: attempts that expire in a queue or die with their spoke

ASSUME ReseedAssumption ==
  /\ Spoke # {}
  /\ limit \in [Spoke -> Nat]
  /\ MaxLost \in Nat

VARIABLES
  job,      \* status of the job, "none" before the request
  state,    \* spoke_status of the job
  todo,     \* spokes that trigger_reseed has not come to
  sending,  \* attempts whose coroutine waits to send them
  timers,   \* attempts whose coroutine sleeps
  queued,   \* attempts in the queue files of the spokes
  working,  \* attempts that a spoke has received and not finished
  attempts, \* how often each attempt was sent or queued
  lost      \* number of attempts that were lost

reseedVars == <<job, state, todo, sending, timers, queued, working, attempts, lost>>

\* _RESEED_RETRY_DELAYS has a delay for every retry up to the limit.  Counts
\* beyond the limit are all alike, limit + 1 stands for them.
Attempt == UNION {{s} \X (0 .. limit[s]) : s \in Spoke}

Success == {"done"}          \* _RESEED_SUCCESS_STATES
Failure == {"error"}         \* _RESEED_ERROR_STATES
JobStatus == {"pending", "running", "queued", "retrying"} \cup Success \cup Failure

ReseedTypeOK ==
  /\ job \in {"none", "running", "completed", "failed"}
  /\ state \in [Spoke -> [status : JobStatus, retry_count : Nat]]
  /\ \A s \in Spoke : state[s].retry_count <= limit[s] + 1
  /\ todo \subseteq Spoke
  /\ sending \subseteq Attempt
  /\ timers \subseteq Attempt
  /\ queued \subseteq Attempt
  /\ working \subseteq Attempt
  /\ attempts \in [Attempt -> Nat]
  /\ lost \in 0 .. MaxLost

ReseedInit ==
  /\ job = "none"
  /\ state = [s \in Spoke |-> [status |-> "pending", retry_count |-> 0]]
  /\ todo = {}
  /\ sending = {}
  /\ timers = {}
  /\ queued = {}
  /\ working = {}
  /\ attempts = [a \in Attempt |-> 0]
  /\ lost = 0

\* _refresh_backup_job_status for a reseed job.
StatusOf(states) ==
  LET reached == {states[s].status : s \in Spoke} IN
  IF reached \subseteq Success THEN "completed"
  ELSE IF reached \subseteq Success \cup Failure THEN "failed"
  ELSE "running"

-----------------------------------------------------------------------------
(* Sending.                                                                *)

\* trigger_reseed makes the job.
TriggerReseed ==
  /\ job = "none"
  /\ job' = "running"
  /\ todo' = Spoke
  /\ UNCHANGED <<state, sending, timers, queued, working, attempts, lost>>

\* Its loop comes to the next spoke and waits to send.
NextSpoke(s) ==
  /\ s \in todo
  /\ \A t \in Spoke : <<t, 0>> \notin sending
  /\ todo' = todo \ {s}
  /\ sending' = sending \cup {<<s, 0>>}
  /\ UNCHANGED <<job, state, timers, queued, working, attempts, lost>>

\* The command is sent, or put into the queue of a spoke that is not connected;
\* the coroutine then sets the status of the spoke.
Dispatch(a, sent, refreshed) ==
  /\ a \in sending
  /\ sending' = sending \ {a}
  /\ attempts' = [attempts EXCEPT ![a] = @ + 1]
  /\ working' = IF sent THEN working \cup {a} ELSE working
  /\ queued' = IF sent THEN queued ELSE queued \cup {a}
  /\ state' = [state EXCEPT ![a[1]].status = IF sent THEN "running" ELSE "queued"]
  /\ job' = IF refreshed THEN StatusOf(state') ELSE job
  /\ UNCHANGED <<todo, timers, lost>>

SendFirst(a) == a[2] = 0 /\ \E sent \in BOOLEAN : Dispatch(a, sent, FALSE)

\* Variant: the job's status is not computed again.
SendRetryOnly(a) == a[2] # 0 /\ \E sent \in BOOLEAN : Dispatch(a, sent, FALSE)

SendRetry(a) == a[2] # 0 /\ \E sent \in BOOLEAN : Dispatch(a, sent, TRUE)

\* Variant: the retry looks for the status it is about to set.
WakeRunning(a) ==
  /\ a \in timers
  /\ timers' = timers \ {a}
  /\ sending' = IF state[a[1]] = [status |-> "running", retry_count |-> a[2]]
                THEN sending \cup {a} ELSE sending
  /\ UNCHANGED <<job, state, todo, queued, working, attempts, lost>>

\* The delay of a retry is over; it goes on only if the spoke is still waiting
\* for this retry.
WakeRetry(a) ==
  /\ a \in timers
  /\ timers' = timers \ {a}
  /\ sending' = IF state[a[1]] = [status |-> "retrying", retry_count |-> a[2]]
                THEN sending \cup {a} ELSE sending
  /\ UNCHANGED <<job, state, todo, queued, working, attempts, lost>>

-----------------------------------------------------------------------------
(* Reports.                                                                *)

CountOf(s, status) ==
  IF status \in Failure /\ state[s].retry_count <= limit[s]
  THEN state[s].retry_count + 1 ELSE state[s].retry_count

\* Variants: one retry more than there are delays, the coroutine of which ends
\* at once; the count starts anew when a
\* spoke reports progress.
HandleReportTooLong(s, status) ==
  LET count == CountOf(s, status)
      retry == status \in Failure /\ count <= limit[s] + 1 IN
  /\ state' = [state EXCEPT ![s] =
                 [status |-> IF retry THEN "retrying" ELSE status,
                  retry_count |-> count]]
  /\ timers' = IF retry THEN timers \cup {<<s, count>>} ELSE timers
  /\ job' = StatusOf(state')

HandleReportAnew(s, status) ==
  LET count == IF status \in Failure THEN CountOf(s, status) ELSE 0
      retry == status \in Failure /\ count <= limit[s] IN
  /\ state' = [state EXCEPT ![s] =
                 [status |-> IF retry THEN "retrying" ELSE status,
                  retry_count |-> count]]
  /\ timers' = IF retry THEN timers \cup {<<s, count>>} ELSE timers
  /\ job' = StatusOf(state')

\* update_backup_progress and _relay_backup_progress.
HandleReport(s, status) ==
  LET count == CountOf(s, status)
      retry == status \in Failure /\ count <= limit[s] IN
  /\ state' = [state EXCEPT ![s] =
                 [status |-> IF retry THEN "retrying" ELSE status,
                  retry_count |-> count]]
  /\ timers' = IF retry THEN timers \cup {<<s, count>>} ELSE timers
  /\ job' = StatusOf(state')

\* A report of an attempt that goes on: a progress or an error that the spoke
\* deals with itself.
Report(a, status) ==
  /\ a \in working
  /\ HandleReport(a[1], status)
  /\ UNCHANGED <<todo, sending, queued, working, attempts, lost>>

\* The last report of an attempt.
Finish(a, status) ==
  /\ a \in working
  /\ working' = working \ {a}
  /\ HandleReport(a[1], status)
  /\ UNCHANGED <<todo, sending, queued, attempts, lost>>

\* The spoke gets the command from its queue (see CommandQueue).
Deliver(a) ==
  /\ a \in queued
  /\ queued' = queued \ {a}
  /\ working' = working \cup {a}
  /\ UNCHANGED <<job, state, todo, sending, timers, attempts, lost>>

\* The command expires in the queue after 24 hours, or the spoke dies with it.
Lose(a) ==
  /\ lost < MaxLost
  /\ a \in queued \cup working
  /\ queued' = queued \ {a}
  /\ working' = working \ {a}
  /\ lost' = lost + 1
  /\ UNCHANGED <<job, state, todo, sending, timers, attempts>>

ReseedNext ==
  \/ TriggerReseed
  \/ \E s \in Spoke : NextSpoke(s)
  \/ \E a \in Attempt :
       \/ SendFirst(a)
       \/ SendRetry(a)
       \/ WakeRetry(a)
       \/ \E status \in {"running", "error"} : Report(a, status)
       \/ \E status \in {"done", "error"} : Finish(a, status)
       \/ Deliver(a)
       \/ Lose(a)

ReseedSpec == ReseedInit /\ [][ReseedNext]_reseedVars

\* Coroutines and timers run; a spoke that has a command in its queue fetches
\* it, and finishes what it has received.
ReseedFairness ==
  /\ \A s \in Spoke : WF_reseedVars(NextSpoke(s))
  /\ \A a \in Attempt :
       /\ WF_reseedVars(SendFirst(a))
       /\ WF_reseedVars(SendRetry(a))
       /\ WF_reseedVars(WakeRetry(a))
       /\ WF_reseedVars(Deliver(a))
       /\ WF_reseedVars(\E status \in {"done", "error"} : Finish(a, status))

ReseedFairSpec == ReseedSpec /\ ReseedFairness

-----------------------------------------------------------------------------
(* Properties.                                                             *)

\* The job's status is the one that its spokes' states give, although each
\* coroutine computes it (or does not) from what it has just changed.
JobStatusAgrees == job # "none" => job = StatusOf(state)

\* A command id, made of job, spoke and retry count, is sent or queued once: the
\* spoke and its queue tell commands apart by it.
AttemptsOnce == \A a \in Attempt : attempts[a] <= 1

\* What can still move the state of s.
Outstanding(s) ==
  \/ s \in todo
  \/ \E a \in sending \cup queued \cup working : a[1] = s
  \/ <<s, state[s].retry_count>> \in timers

\* A spoke that is neither done nor given up on is not forgotten: a retry, a
\* send, a queued command or an attempt of it is under way.
NoneForgotten ==
  job # "none" /\ lost = 0 =>
    \A s \in Spoke : state[s].status \notin Success \cup Failure
                       => Outstanding(s)

\* A job ends, if no attempt is lost.
Settles ==
  job = "running" ~> (lost > 0 \/ job \in {"completed", "failed"})

=============================================================================
