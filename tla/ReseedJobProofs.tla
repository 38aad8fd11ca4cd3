--------------------------- MODULE ReseedJobProofs ---------------------------
(***************************************************************************)
(* Proofs about ReseedJob for any set of spokes and any number of retries: *)
(* the job's status agrees with its spokes, no attempt is sent twice, and  *)
(* no spoke is forgotten.  All of them follow from one inductive invariant.*)
(* At the end the types of FleetWatch, the watch over silent spokes.       *)
(***************************************************************************)
EXTENDS ReseedJob, FleetWatch, TLAPS

\* Before the request nothing is there.
NotStarted ==
  job = "none" =>
    /\ \A s \in Spoke : state[s].status = "pending"
    /\ todo = {} /\ sending = {} /\ timers = {} /\ queued = {} /\ working = {}
    /\ \A a \in Attempt : attempts[a] = 0

\* Until the trigger has sent to a spoke nothing else is sent to it.
Untouched(s) ==
  /\ state[s].status = "pending"
  /\ \A n \in 0 .. limit[s] :
       /\ <<s, n>> \notin timers \cup queued \cup working
       /\ n # 0 => <<s, n>> \notin sending
       /\ attempts[<<s, n>>] = 0

FirstIsPending ==
  \A s \in Spoke : s \in todo \/ <<s, 0>> \in sending => Untouched(s)

TodoNotSent == \A s \in todo : <<s, 0>> \notin sending

\* An attempt that sleeps or waits to be sent has not been sent before, and the
\* spoke's count has reached it.
Fresh(s, n) ==
  /\ <<s, n>> \in timers \cup sending =>
       attempts[<<s, n>>] = 0 /\ n <= state[s].retry_count
  /\ <<s, n>> \in timers => n # 0 /\ <<s, n>> \notin sending
  /\ n > state[s].retry_count => attempts[<<s, n>>] = 0
  /\ attempts[<<s, n>>] <= 1

RetriesAreFresh == \A s \in Spoke : \A n \in 0 .. limit[s] : Fresh(s, n)

\* What the states that are not final wait for.
PendingIsSent ==
  job # "none" =>
    \A s \in Spoke : state[s].status = "pending" => s \in todo \/ <<s, 0>> \in sending

RunningWorks ==
  lost = 0 => \A s \in Spoke : state[s].status = "running" =>
                \E n \in 0 .. limit[s] : <<s, n>> \in working

QueuedIsQueued ==
  lost = 0 => \A s \in Spoke : state[s].status = "queued" =>
                \E n \in 0 .. limit[s] : <<s, n>> \in queued \cup working

Sleeps(s) ==
  /\ state[s].retry_count \in 1 .. limit[s]
  /\ <<s, state[s].retry_count>> \in timers \cup sending

RetryingSleeps == \A s \in Spoke : state[s].status = "retrying" => Sleeps(s)

IInv ==
  /\ ReseedTypeOK
  /\ JobStatusAgrees
  /\ NotStarted
  /\ FirstIsPending
  /\ TodoNotSent
  /\ RetriesAreFresh
  /\ PendingIsSent
  /\ RunningWorks
  /\ QueuedIsQueued
  /\ RetryingSleeps

-----------------------------------------------------------------------------
(* Facts about the definitions.                                            *)

\* An attempt is a spoke with a number up to its limit.
LEMMA AttemptFacts ==
  /\ \A a \in Attempt : \E s \in Spoke : \E n \in 0 .. limit[s] : a = <<s, n>>
  /\ \A s \in Spoke : \A n \in 0 .. limit[s] : <<s, n>> \in Attempt
BY DEF Attempt

\* The limits are natural numbers.
LEMMA LimitFacts == \A s \in Spoke : limit[s] \in Nat
BY ReseedAssumption

\* A spoke whose state is not final keeps the job running.
LEMMA StillRunning ==
  ASSUME NEW states, NEW s \in Spoke,
         states[s].status \notin Success \cup Failure
  PROVE  StatusOf(states) = "running"
BY DEF StatusOf

\* No job has the status "none".
LEMMA StatusIsSet ==
  ASSUME NEW states PROVE StatusOf(states) \in {"running", "completed", "failed"}
BY DEF StatusOf

-----------------------------------------------------------------------------
(* The invariant holds at first, and every step keeps it.                  *)

\* The initial states satisfy the invariant.
LEMMA InitIInv == ReseedInit => IInv
<1> SUFFICES ASSUME ReseedInit PROVE IInv
  OBVIOUS
<1> USE LimitFacts, ReseedAssumption
<1>1. ReseedTypeOK
  BY DEF ReseedInit, ReseedTypeOK, JobStatus
<1>2. NotStarted /\ TodoNotSent /\ PendingIsSent /\ JobStatusAgrees
  BY DEF ReseedInit, NotStarted, TodoNotSent, PendingIsSent, JobStatusAgrees
<1>3. FirstIsPending
  BY DEF ReseedInit, FirstIsPending, Untouched
<1>4. RetriesAreFresh
  <2> SUFFICES ASSUME NEW s \in Spoke, NEW n \in 0 .. limit[s]
               PROVE  Fresh(s, n)
    BY DEF RetriesAreFresh, Fresh
  <2>1. attempts[<<s, n>>] = 0
    BY AttemptFacts DEF ReseedInit
  <2> QED
    BY <2>1 DEF ReseedInit, Fresh
<1>5. RunningWorks /\ QueuedIsQueued /\ RetryingSleeps
  BY DEF ReseedInit, RunningWorks, QueuedIsQueued, RetryingSleeps, Sleeps
<1> QED
  BY <1>1, <1>2, <1>3, <1>4, <1>5 DEF IInv

\* The request.
LEMMA TriggerKeeps == IInv /\ TriggerReseed => IInv'
<1> SUFFICES ASSUME IInv, TriggerReseed PROVE IInv'
  OBVIOUS
<1> USE DEF IInv, TriggerReseed
<1>1. ReseedTypeOK'
  BY DEF ReseedTypeOK
<1>2. PICK s \in Spoke : TRUE
  BY ReseedAssumption
<1>3. JobStatusAgrees'
  <2>1. state[s].status \notin Success \cup Failure
    BY DEF NotStarted, Success, Failure
  <2> QED
    BY <2>1, StillRunning DEF JobStatusAgrees
<1>4. NotStarted' /\ TodoNotSent' /\ PendingIsSent'
  BY DEF NotStarted, TodoNotSent, PendingIsSent
<1>5. FirstIsPending'
  BY AttemptFacts DEF FirstIsPending, NotStarted, Untouched
<1>6. RetriesAreFresh' /\ RunningWorks' /\ QueuedIsQueued' /\ RetryingSleeps'
  BY DEF RetriesAreFresh, RunningWorks, QueuedIsQueued, RetryingSleeps, Fresh, Sleeps
<1> QED
  BY <1>1, <1>3, <1>4, <1>5, <1>6

\* The next spoke of the loop.
LEMMA NextSpokeKeeps == \A s \in Spoke : IInv /\ NextSpoke(s) => IInv'
<1> SUFFICES ASSUME NEW s \in Spoke, IInv, NextSpoke(s) PROVE IInv'
  OBVIOUS
<1> USE DEF IInv, NextSpoke
<1>0. limit[s] \in Nat /\ 0 \in 0 .. limit[s] /\ <<s, 0>> \in Attempt
  BY LimitFacts, AttemptFacts
<1>1. ReseedTypeOK'
  BY <1>0 DEF ReseedTypeOK
<1>2. JobStatusAgrees' /\ NotStarted' /\ TodoNotSent'
  BY DEF JobStatusAgrees, NotStarted, TodoNotSent, ReseedTypeOK
<1>3. FirstIsPending'
  BY DEF FirstIsPending, Untouched
<1>4. RetriesAreFresh'
  <2> SUFFICES ASSUME NEW t \in Spoke, NEW n \in 0 .. limit[t]
               PROVE  Fresh(t, n)'
    BY DEF RetriesAreFresh, Fresh
  <2>1. CASE <<t, n>> = <<s, 0>>
    BY <2>1, <1>0, LimitFacts DEF RetriesAreFresh, FirstIsPending, ReseedTypeOK, Untouched, Fresh
  <2>2. CASE <<t, n>> # <<s, 0>>
    BY <2>2 DEF RetriesAreFresh, Fresh
  <2> QED
    BY <2>1, <2>2
<1>5. PendingIsSent' /\ RunningWorks' /\ QueuedIsQueued' /\ RetryingSleeps'
  BY DEF PendingIsSent, RunningWorks, QueuedIsQueued, RetryingSleeps, Sleeps
<1> QED
  BY <1>1, <1>2, <1>3, <1>4, <1>5

\* What a dispatch does to the part of the invariant about all attempts.
LEMMA DispatchKeepsRetries ==
  ASSUME IInv, NEW s \in Spoke, NEW n \in 0 .. limit[s],
         NEW sent \in BOOLEAN, NEW refreshed \in BOOLEAN,
         Dispatch(<<s, n>>, sent, refreshed)
  PROVE  /\ ReseedTypeOK'
         /\ RetriesAreFresh'
         /\ RunningWorks' /\ QueuedIsQueued' /\ RetryingSleeps'
<1> DEFINE a == <<s, n>>
<1> USE DEF IInv
<1>0. /\ a \in Attempt /\ limit[s] \in Nat /\ a \in sending
      /\ attempts' = [attempts EXCEPT ![a] = attempts[a] + 1]
      /\ state' = [state EXCEPT ![s].status = IF sent THEN "running" ELSE "queued"]
      /\ sending' = sending \ {a} /\ timers' = timers /\ lost' = lost /\ todo' = todo
      /\ working' = IF sent THEN working \cup {a} ELSE working
      /\ queued' = IF sent THEN queued ELSE queued \cup {a}
      /\ job' \in {job, StatusOf(state')}
  BY AttemptFacts, LimitFacts DEF Dispatch
<1>1. job' \in {"none", "running", "completed", "failed"}
  BY <1>0, StatusIsSet DEF ReseedTypeOK
<1>2. /\ state' \in [Spoke -> [status : JobStatus, retry_count : Nat]]
      /\ \A t \in Spoke : state'[t].retry_count = state[t].retry_count
      /\ \A t \in Spoke \ {s} : state'[t] = state[t]
      /\ state'[s].status = IF sent THEN "running" ELSE "queued"
  BY <1>0 DEF ReseedTypeOK, JobStatus
<1>3. attempts' \in [Attempt -> Nat]
  BY <1>0 DEF ReseedTypeOK
<1>4. ReseedTypeOK'
  BY <1>0, <1>1, <1>2, <1>3 DEF ReseedTypeOK
<1>5. RetriesAreFresh'
  <2> SUFFICES ASSUME NEW t \in Spoke, NEW m \in 0 .. limit[t]
               PROVE  Fresh(t, m)'
    BY DEF RetriesAreFresh, Fresh
  <2>1. CASE <<t, m>> = a
    <3>1. t = s /\ m = n
      BY <2>1
    <3>2. attempts[a] = 0 /\ n <= state[s].retry_count /\ a \notin timers
      BY <1>0 DEF RetriesAreFresh, Fresh
    <3>3. attempts'[a] = 1
      BY <1>0, <3>2 DEF ReseedTypeOK
    <3> QED
      BY <1>0, <1>2, <3>1, <3>2, <3>3, LimitFacts DEF ReseedTypeOK, Fresh
  <2>2. CASE <<t, m>> # a
    <3>1. attempts'[<<t, m>>] = attempts[<<t, m>>]
      BY <2>2, <1>0, AttemptFacts DEF ReseedTypeOK
    <3>2. Fresh(t, m)
      BY DEF RetriesAreFresh, Fresh
    <3> QED
      BY <1>0, <1>2, <2>2, <3>1, <3>2 DEF Fresh
  <2> QED
    BY <2>1, <2>2
<1>6. RunningWorks' /\ QueuedIsQueued'
  BY <1>0, <1>2 DEF RunningWorks, QueuedIsQueued
<1>7. RetryingSleeps'
  <2> SUFFICES ASSUME NEW t \in Spoke, state'[t].status = "retrying"
               PROVE  Sleeps(t)'
    BY DEF RetryingSleeps, Sleeps
  <2>1. t # s
    BY <1>2
  <2> QED
    BY <2>1, <1>0, <1>2 DEF RetryingSleeps, Sleeps
<1> QED
  BY <1>4, <1>5, <1>6, <1>7

\* The first send: the spoke was pending, the job runs on.
LEMMA SendFirstKeeps == \A a \in Attempt : IInv /\ SendFirst(a) => IInv'
<1> SUFFICES ASSUME NEW a \in Attempt, IInv, SendFirst(a) PROVE IInv'
  OBVIOUS
<1>0. PICK s \in Spoke : \E n \in 0 .. limit[s] : a = <<s, n>>
  BY AttemptFacts
<1>1. PICK n \in 0 .. limit[s] : a = <<s, n>>
  BY <1>0
<1>2. PICK sent \in BOOLEAN : Dispatch(a, sent, FALSE)
  BY DEF SendFirst
<1>3. n = 0
  BY <1>1 DEF SendFirst
<1> USE DEF IInv
<1>4. /\ ReseedTypeOK' /\ RetriesAreFresh'
      /\ RunningWorks' /\ QueuedIsQueued' /\ RetryingSleeps'
  BY <1>1, <1>2, DispatchKeepsRetries
<1>5. /\ <<s, 0>> \in sending /\ sending' = sending \ {<<s, 0>>}
      /\ attempts' = [attempts EXCEPT ![a] = attempts[a] + 1]
      /\ state' = [state EXCEPT ![s].status = IF sent THEN "running" ELSE "queued"]
      /\ timers' = timers /\ todo' = todo /\ job' = job
      /\ working' \subseteq working \cup {<<s, 0>>}
      /\ queued' \subseteq queued \cup {<<s, 0>>}
  BY <1>1, <1>2, <1>3 DEF Dispatch
<1>6. state'[s].status \in {"running", "queued"} /\ \A t \in Spoke \ {s} : state'[t] = state[t]
  BY <1>5 DEF ReseedTypeOK
<1>7. job # "none" /\ state[s].status = "pending"
  BY <1>5 DEF NotStarted, FirstIsPending, Untouched
<1>8. JobStatusAgrees'
  <2>1. StatusOf(state) = "running"
    BY <1>7, StillRunning DEF Success, Failure
  <2>2. StatusOf(state') = "running"
    BY <1>6, StillRunning DEF Success, Failure
  <2> QED
    BY <2>1, <2>2, <1>5, <1>7 DEF JobStatusAgrees
<1>9. NotStarted' /\ TodoNotSent' /\ PendingIsSent'
  BY <1>5, <1>6, <1>7 DEF NotStarted, TodoNotSent, PendingIsSent
<1>10. FirstIsPending'
  <2> SUFFICES ASSUME NEW t \in Spoke, t \in todo' \/ <<t, 0>> \in sending'
               PROVE  Untouched(t)'
    BY DEF FirstIsPending, Untouched
  <2>1. t # s
    BY <1>5 DEF TodoNotSent
  <2>2. \A m \in 0 .. limit[t] : attempts'[<<t, m>>] = attempts[<<t, m>>]
    BY <1>1, <1>5, <2>1, AttemptFacts DEF ReseedTypeOK
  <2> QED
    BY <1>5, <1>6, <2>1, <2>2 DEF FirstIsPending, Untouched
<1> QED
  BY <1>4, <1>8, <1>9, <1>10

\* A retry is sent: the job's status is computed again.
LEMMA SendRetryKeeps == \A a \in Attempt : IInv /\ SendRetry(a) => IInv'
<1> SUFFICES ASSUME NEW a \in Attempt, IInv, SendRetry(a) PROVE IInv'
  OBVIOUS
<1>0. PICK s \in Spoke : \E n \in 0 .. limit[s] : a = <<s, n>>
  BY AttemptFacts
<1>1. PICK n \in 0 .. limit[s] : a = <<s, n>>
  BY <1>0
<1>2. PICK sent \in BOOLEAN : Dispatch(a, sent, TRUE)
  BY DEF SendRetry
<1>3. n # 0
  BY <1>1 DEF SendRetry
<1> USE DEF IInv
<1>4. /\ ReseedTypeOK' /\ RetriesAreFresh'
      /\ RunningWorks' /\ QueuedIsQueued' /\ RetryingSleeps'
  BY <1>1, <1>2, DispatchKeepsRetries
<1>5. /\ <<s, n>> \in sending /\ sending' = sending \ {<<s, n>>}
      /\ attempts' = [attempts EXCEPT ![a] = attempts[a] + 1]
      /\ state' = [state EXCEPT ![s].status = IF sent THEN "running" ELSE "queued"]
      /\ timers' = timers /\ todo' = todo /\ job' = StatusOf(state')
      /\ working' \subseteq working \cup {<<s, n>>}
      /\ queued' \subseteq queued \cup {<<s, n>>}
  BY <1>1, <1>2, <1>3 DEF Dispatch
<1>6. state'[s].status \in {"running", "queued"} /\ \A t \in Spoke \ {s} : state'[t] = state[t]
  BY <1>5 DEF ReseedTypeOK
<1>7. job # "none"
  BY <1>5 DEF NotStarted
<1>8. s \notin todo /\ <<s, 0>> \notin sending
  BY <1>3, <1>5 DEF FirstIsPending, Untouched
<1>9. JobStatusAgrees' /\ NotStarted'
  BY <1>5, StatusIsSet DEF JobStatusAgrees, NotStarted
<1>10. TodoNotSent' /\ PendingIsSent'
  BY <1>3, <1>5, <1>6, <1>7 DEF TodoNotSent, PendingIsSent
<1>11. FirstIsPending'
  <2> SUFFICES ASSUME NEW t \in Spoke, t \in todo' \/ <<t, 0>> \in sending'
               PROVE  Untouched(t)'
    BY DEF FirstIsPending, Untouched
  <2>1. t # s
    BY <1>5, <1>8
  <2>2. \A m \in 0 .. limit[t] : attempts'[<<t, m>>] = attempts[<<t, m>>]
    BY <1>1, <1>5, <2>1, AttemptFacts DEF ReseedTypeOK
  <2> QED
    BY <1>5, <1>6, <2>1, <2>2 DEF FirstIsPending, Untouched
<1> QED
  BY <1>4, <1>9, <1>10, <1>11

\* The delay of a retry is over.
LEMMA WakeKeeps == \A a \in Attempt : IInv /\ WakeRetry(a) => IInv'
<1> SUFFICES ASSUME NEW a \in Attempt, IInv, WakeRetry(a) PROVE IInv'
  OBVIOUS
<1>0. PICK s \in Spoke : \E n \in 0 .. limit[s] : a = <<s, n>>
  BY AttemptFacts
<1>1. PICK n \in 0 .. limit[s] : a = <<s, n>>
  BY <1>0
<1> USE DEF IInv
<1>2. /\ <<s, n>> \in timers /\ timers' = timers \ {<<s, n>>}
      /\ sending' = IF state[s] = [status |-> "retrying", retry_count |-> n]
                    THEN sending \cup {<<s, n>>} ELSE sending
      /\ UNCHANGED <<job, state, todo, queued, working, attempts, lost>>
  BY <1>1 DEF WakeRetry
<1>3. n # 0 /\ s \notin todo /\ <<s, 0>> \notin sending
  BY <1>2 DEF RetriesAreFresh, Fresh, FirstIsPending, Untouched
<1>4. ReseedTypeOK' /\ JobStatusAgrees' /\ NotStarted'
  BY <1>1, <1>2 DEF ReseedTypeOK, JobStatusAgrees, NotStarted
<1>5. FirstIsPending' /\ TodoNotSent' /\ PendingIsSent'
  BY <1>2, <1>3 DEF FirstIsPending, Untouched, TodoNotSent, PendingIsSent
<1>6. RetriesAreFresh'
  BY <1>2, <1>3 DEF RetriesAreFresh, Fresh
<1>7. RunningWorks' /\ QueuedIsQueued'
  BY <1>2 DEF RunningWorks, QueuedIsQueued
<1>8. RetryingSleeps'
  <2> SUFFICES ASSUME NEW t \in Spoke, state[t].status = "retrying" PROVE Sleeps(t)'
    BY <1>2 DEF RetryingSleeps
  <2>1. Sleeps(t)
    BY DEF RetryingSleeps
  <2>2. CASE t = s /\ state[t].retry_count = n
    <3>1. state[s] = [status |-> "retrying", retry_count |-> n]
      BY <2>2 DEF ReseedTypeOK
    <3> QED
      BY <1>2, <2>1, <2>2, <3>1 DEF Sleeps
  <2>3. CASE ~(t = s /\ state[t].retry_count = n)
    BY <1>2, <2>1, <2>3 DEF Sleeps
  <2> QED
    BY <2>2, <2>3
<1> QED
  BY <1>4, <1>5, <1>6, <1>7, <1>8

\* A report, by an attempt <<s, n>> that goes on or ends.
LEMMA HandleReportKeeps ==
  ASSUME IInv, NEW s \in Spoke, NEW n \in 0 .. limit[s],
         NEW status \in {"running", "done", "error"},
         <<s, n>> \in working,
         status = "running" => <<s, n>> \in working',
         working' = working \/ working' = working \ {<<s, n>>},
         HandleReport(s, status),
         UNCHANGED <<todo, sending, queued, attempts, lost>>
  PROVE  IInv'
<1> DEFINE count == CountOf(s, status)
           retry == status \in Failure /\ count <= limit[s]
           new == IF retry THEN "retrying" ELSE status
<1> USE DEF IInv
<1>1. limit[s] \in Nat /\ state[s].retry_count \in Nat
  BY LimitFacts DEF ReseedTypeOK
<1>2. /\ count \in Nat
      /\ count >= state[s].retry_count /\ count <= limit[s] + 1
      /\ retry => count = state[s].retry_count + 1
  BY <1>1 DEF CountOf, ReseedTypeOK
<1> HIDE DEF count
<1>3. /\ state' = [state EXCEPT ![s] = [status |-> new, retry_count |-> count]]
      /\ timers' = IF retry THEN timers \cup {<<s, count>>} ELSE timers
      /\ job' = StatusOf(state')
  BY DEF HandleReport, count
<1>4. new \in {"running", "done", "error", "retrying"} /\ (retry => <<s, count>> \in Attempt)
  BY <1>1, <1>2, AttemptFacts
<1>5. /\ state' \in [Spoke -> [status : JobStatus, retry_count : Nat]]
      /\ \A t \in Spoke \ {s} : state'[t] = state[t]
      /\ state'[s].status = new /\ state'[s].retry_count = count
  BY <1>2, <1>3, <1>4 DEF ReseedTypeOK, JobStatus, Success, Failure
<1>6. ReseedTypeOK'
  BY <1>2, <1>3, <1>4, <1>5, StatusIsSet DEF ReseedTypeOK
<1>7. job # "none" /\ s \notin todo /\ <<s, 0>> \notin sending
  BY DEF NotStarted, FirstIsPending, Untouched
<1>8. JobStatusAgrees' /\ NotStarted'
  BY <1>3, StatusIsSet DEF JobStatusAgrees, NotStarted
<1>9. FirstIsPending' /\ TodoNotSent' /\ PendingIsSent'
  BY <1>3, <1>4, <1>5, <1>7 DEF FirstIsPending, Untouched, TodoNotSent, PendingIsSent
<1>10. RetriesAreFresh'
  <2> SUFFICES ASSUME NEW t \in Spoke, NEW m \in 0 .. limit[t]
               PROVE  Fresh(t, m)'
    BY DEF RetriesAreFresh
  <2>1. Fresh(t, m)
    BY DEF RetriesAreFresh
  <2>2. CASE t # s
    BY <1>3, <1>5, <2>1, <2>2 DEF Fresh
  <2>3. CASE t = s
    BY <1>1, <1>2, <1>3, <1>5, <2>1, <2>3, LimitFacts DEF Fresh
  <2> QED
    BY <2>2, <2>3
<1>11. RunningWorks' /\ QueuedIsQueued'
  <2> SUFFICES ASSUME lost = 0, NEW t \in Spoke
               PROVE  /\ state'[t].status = "running" =>
                            \E m \in 0 .. limit[t] : <<t, m>> \in working'
                      /\ state'[t].status = "queued" =>
                            \E m \in 0 .. limit[t] : <<t, m>> \in queued \cup working'
    BY DEF RunningWorks, QueuedIsQueued
  <2>1. CASE t # s
    BY <1>5, <2>1 DEF RunningWorks, QueuedIsQueued
  <2>2. CASE t = s
    BY <1>5, <2>2
  <2> QED
    BY <2>1, <2>2
<1>12. RetryingSleeps'
  <2> SUFFICES ASSUME NEW t \in Spoke, state'[t].status = "retrying"
               PROVE  Sleeps(t)'
    BY DEF RetryingSleeps
  <2>1. CASE t # s
    BY <1>3, <1>5, <2>1 DEF RetryingSleeps, Sleeps
  <2>2. CASE t = s
    BY <1>1, <1>2, <1>3, <1>5, <2>2 DEF Sleeps
  <2> QED
    BY <2>1, <2>2
<1> QED
  BY <1>6, <1>8, <1>9, <1>10, <1>11, <1>12

\* A report of an attempt that goes on.
LEMMA ReportKeeps ==
  \A a \in Attempt, status \in {"running", "error"} :
    IInv /\ Report(a, status) => IInv'
<1> SUFFICES ASSUME NEW a \in Attempt, NEW status \in {"running", "error"},
                    IInv, Report(a, status)
             PROVE  IInv'
  OBVIOUS
<1>0. PICK s \in Spoke : \E n \in 0 .. limit[s] : a = <<s, n>>
  BY AttemptFacts
<1>1. PICK n \in 0 .. limit[s] : a = <<s, n>>
  BY <1>0
<1>2. /\ <<s, n>> \in working /\ working' = working /\ HandleReport(s, status)
      /\ UNCHANGED <<todo, sending, queued, attempts, lost>>
  BY <1>1 DEF Report
<1> QED
  BY <1>2, HandleReportKeeps

\* The last report of an attempt.
LEMMA FinishKeeps ==
  \A a \in Attempt, status \in {"done", "error"} :
    IInv /\ Finish(a, status) => IInv'
<1> SUFFICES ASSUME NEW a \in Attempt, NEW status \in {"done", "error"},
                    IInv, Finish(a, status)
             PROVE  IInv'
  OBVIOUS
<1>0. PICK s \in Spoke : \E n \in 0 .. limit[s] : a = <<s, n>>
  BY AttemptFacts
<1>1. PICK n \in 0 .. limit[s] : a = <<s, n>>
  BY <1>0
<1>2. /\ <<s, n>> \in working /\ working' = working \ {<<s, n>>}
      /\ HandleReport(s, status)
      /\ UNCHANGED <<todo, sending, queued, attempts, lost>>
  BY <1>1 DEF Finish
<1> QED
  BY <1>2, HandleReportKeeps

\* A command leaves the queue, for its spoke or for good.
LEMMA LeaveKeeps == \A a \in Attempt : IInv /\ (Deliver(a) \/ Lose(a)) => IInv'
<1> SUFFICES ASSUME NEW a \in Attempt, IInv, Deliver(a) \/ Lose(a) PROVE IInv'
  OBVIOUS
<1> USE DEF IInv
<1>1. /\ UNCHANGED <<job, state, todo, sending, timers, attempts>>
      /\ lost' \in 0 .. MaxLost
      /\ queued' \subseteq queued /\ working' \subseteq working \cup queued
      /\ lost' = 0 => /\ lost = 0 /\ working \subseteq working'
                      /\ queued \subseteq queued' \cup working'
  BY ReseedAssumption DEF Deliver, Lose, ReseedTypeOK
<1>2. ReseedTypeOK'
  BY <1>1 DEF ReseedTypeOK
<1>3. JobStatusAgrees' /\ TodoNotSent' /\ PendingIsSent'
  BY <1>1 DEF JobStatusAgrees, TodoNotSent, PendingIsSent
<1>4. NotStarted' /\ FirstIsPending'
  BY <1>1 DEF NotStarted, FirstIsPending, Untouched
<1>5. RetriesAreFresh' /\ RetryingSleeps'
  BY <1>1 DEF RetriesAreFresh, Fresh, RetryingSleeps, Sleeps
<1>6. RunningWorks' /\ QueuedIsQueued'
  <2>1. CASE lost' # 0
    BY <2>1 DEF RunningWorks, QueuedIsQueued
  <2>2. CASE lost' = 0
    BY <1>1, <2>2 DEF RunningWorks, QueuedIsQueued
  <2> QED
    BY <2>1, <2>2
<1> QED
  BY <1>2, <1>3, <1>4, <1>5, <1>6

\* Every step keeps the invariant.
LEMMA NextIInv == IInv /\ [ReseedNext]_reseedVars => IInv'
<1> SUFFICES ASSUME IInv, [ReseedNext]_reseedVars PROVE IInv'
  OBVIOUS
<1>1. CASE TriggerReseed
  BY <1>1, TriggerKeeps
<1>2. CASE \E s \in Spoke : NextSpoke(s)
  BY <1>2, NextSpokeKeeps
<1>3. CASE \E a \in Attempt : SendFirst(a) \/ SendRetry(a) \/ WakeRetry(a)
  BY <1>3, SendFirstKeeps, SendRetryKeeps, WakeKeeps
<1>4. CASE \E a \in Attempt : \E status \in {"running", "error"} : Report(a, status)
  BY <1>4, ReportKeeps
<1>5. CASE \E a \in Attempt : \E status \in {"done", "error"} : Finish(a, status)
  BY <1>5, FinishKeeps
<1>6. CASE \E a \in Attempt : Deliver(a) \/ Lose(a)
  BY <1>6, LeaveKeeps
<1>7. CASE UNCHANGED reseedVars
  BY <1>7 DEF reseedVars, IInv, ReseedTypeOK, JobStatusAgrees, NotStarted, FirstIsPending,
              Untouched, TodoNotSent, RetriesAreFresh, Fresh, PendingIsSent,
              RunningWorks, QueuedIsQueued, RetryingSleeps, Sleeps
<1> QED
  BY <1>1, <1>2, <1>3, <1>4, <1>5, <1>6, <1>7 DEF ReseedNext

\* The invariant holds throughout.
THEOREM Invariant == ReseedSpec => []IInv
<1> QED
  BY InitIInv, NextIInv, PTL DEF ReseedSpec

-----------------------------------------------------------------------------
(* Theorems.                                                               *)

\* The variables keep their types: no retry beyond the limit is started.
THEOREM TypeCorrect == ReseedSpec => []ReseedTypeOK
<1>1. IInv => ReseedTypeOK
  BY DEF IInv
<1> QED
  BY <1>1, Invariant, PTL

\* The job's status is the one that its spokes' states give.
THEOREM JobStatusCorrect == ReseedSpec => []JobStatusAgrees
<1>1. IInv => JobStatusAgrees
  BY DEF IInv
<1> QED
  BY <1>1, Invariant, PTL

\* No attempt is sent or queued twice.
THEOREM AttemptsOnceCorrect == ReseedSpec => []AttemptsOnce
<1>1. IInv => AttemptsOnce
  BY AttemptFacts DEF IInv, AttemptsOnce, RetriesAreFresh, Fresh
<1> QED
  BY <1>1, Invariant, PTL

\* Something that can still move it is under way for every spoke that is neither
\* done nor given up on, while no attempt has been lost.
THEOREM NoneForgottenCorrect == ReseedSpec => []NoneForgotten
<1>1. IInv => NoneForgotten
  <2> SUFFICES ASSUME IInv, job # "none", lost = 0, NEW s \in Spoke,
                      state[s].status \notin Success \cup Failure
               PROVE  Outstanding(s)
    BY DEF NoneForgotten
  <2>1. state[s].status \in {"pending", "running", "queued", "retrying"}
    BY DEF IInv, ReseedTypeOK, JobStatus
  <2>2. CASE state[s].status = "pending"
    <3>1. s \in todo \/ <<s, 0>> \in sending
      BY <2>2 DEF IInv, PendingIsSent
    <3>2. <<s, 0>>[1] = s
      OBVIOUS
    <3> QED
      BY <3>1, <3>2 DEF Outstanding
  <2>3. CASE state[s].status = "running"
    <3>1. PICK n \in 0 .. limit[s] : <<s, n>> \in working
      BY <2>3 DEF IInv, RunningWorks
    <3>2. <<s, n>>[1] = s
      OBVIOUS
    <3> QED
      BY <3>1, <3>2 DEF Outstanding
  <2>4. CASE state[s].status = "queued"
    <3>1. PICK n \in 0 .. limit[s] : <<s, n>> \in queued \cup working
      BY <2>4 DEF IInv, QueuedIsQueued
    <3>2. <<s, n>>[1] = s
      OBVIOUS
    <3> QED
      BY <3>1, <3>2 DEF Outstanding
  <2>5. CASE state[s].status = "retrying"
    <3>1. <<s, state[s].retry_count>> \in timers \cup sending
      BY <2>5 DEF IInv, RetryingSleeps, Sleeps
    <3>2. <<s, state[s].retry_count>>[1] = s
      OBVIOUS
    <3> QED
      BY <3>1, <3>2 DEF Outstanding
  <2> QED
    BY <2>1, <2>2, <2>3, <2>4, <2>5
<1> QED
  BY <1>1, Invariant, PTL

-----------------------------------------------------------------------------
(* FleetWatch: types.                                                      *)

\* No step of the loops, the spokes or a restart leaves the types.
LEMMA WatchTypeStep == WatchTypeOK /\ [WatchNext]_watchVars => WatchTypeOK'
<1> SUFFICES ASSUME WatchTypeOK, [WatchNext]_watchVars PROVE WatchTypeOK'
  OBVIOUS
<1> USE WatchAssumption DEF WatchTypeOK, Seen, State, engineVars
<1>a. \A b \in BOOLEAN : StateOf(b) \in State
  BY DEF StateOf
<1>b. Forgotten \in [Watched -> State \cup {Unknown}]
  BY DEF Forgotten
<1>1. ASSUME NEW s \in Watched, Approve(s) \/ ReportSeen(s) \/ FallSilent(s)
      PROVE  WatchTypeOK'
  BY <1>1 DEF Approve, ReportSeen, FallSilent
<1>2. ASSUME NEW s \in Watched, Ages(s) \/ Announced(s)
      PROVE  WatchTypeOK'
  BY <1>2 DEF Ages, Announced
<1>3. ASSUME NEW s \in Watched, Look(s)
      PROVE  WatchTypeOK'
  <2>1. CASE prev[s] = "online" /\ s \in readOld
    BY <1>3, <2>1 DEF Look
  <2>2. CASE ~(prev[s] = "online" /\ s \in readOld)
    <3>1. StateOf(s \notin readOld) \in State
      BY <1>a
    <3>2. /\ prev' = [prev EXCEPT ![s] = StateOf(s \notin readOld)]
          /\ toLook' = toLook \ {s}
          /\ UNCHANGED <<announcing, approved, seen, shown, readOld, told, unsent, watchFaults>>
      BY <1>3, <2>2 DEF Look
    <3> QED
      BY <3>1, <3>2
  <2> QED
    BY <2>1, <2>2
<1>4. ASSUME NEW s \in Watched, AnnounceFails(s)
      PROVE  WatchTypeOK'
  BY <1>4 DEF AnnounceFails, WatchFault
<1>5. CASE ShowOnline
  <2>1. \A s \in Watched : Online(s) \in BOOLEAN
    BY DEF Online
  <2>2. shown' \in [Watched -> State \cup {Unknown}]
    BY <1>5, <1>a, <2>1 DEF ShowOnline
  <2> QED
    BY <1>5, <2>2 DEF ShowOnline
<1>6. CASE BeginPass
  BY <1>6 DEF BeginPass
<1>7. CASE RestartHub
  BY <1>7, <1>b DEF RestartHub, WatchFault
<1>8. CASE UNCHANGED watchVars
  BY <1>8 DEF watchVars
<1> QED
  BY <1>1, <1>2, <1>3, <1>4, <1>5, <1>6, <1>7, <1>8 DEF WatchNext

\* What heartbeat_monitor and check_state_engine remember of the spokes keeps
\* its types, for any spokes and any number of restarts and failures.
THEOREM WatchTypeCorrect == WatchSpec => []WatchTypeOK
<1>1. WatchInit => WatchTypeOK
  BY WatchAssumption DEF WatchInit, WatchTypeOK, Forgotten, Seen, State
<1> QED
  BY <1>1, WatchTypeStep, PTL DEF WatchSpec

=============================================================================
