---------------------------- MODULE FleetTimers ----------------------------
(***************************************************************************)
(* The timed loops of tasks.py that queue commands for the spokes:         *)
(* auto_recovery_check, schedule_check and maintenance_loop, which removes *)
(* the rows that are too old.  Each loop sleeps before its first pass, and *)
(* again after each pass, so that its passes drift against the clock by    *)
(* the time they take.                                                     *)
(*                                                                         *)
(* Time goes by in units; the loops are never more than one unit late.     *)
(***************************************************************************)
EXTENDS Naturals, Sequences

CONSTANTS
  Spoke,        \* the approved spokes
  Minute,       \* units of a minute: the sleep of schedule_check
  Day,          \* minutes after which the clock shows the same minute again
  Scheduled,    \* the minute that reclone_schedule_cron names
  Recovery,     \* units between two passes of auto_recovery_check
  Purge,        \* units between two passes of maintenance_loop
  Silent,       \* units of vm_silent_timeout
  Life          \* units until a row of the queue expires

ASSUME TimersAssumption ==
  /\ {Minute, Day, Recovery, Purge, Silent, Life} \subseteq Nat \ {0}
  /\ Day > 1 /\ Scheduled \in 0 .. Day - 1

VARIABLES
  up,          \* the hub runs
  clock,       \* units since the clock showed minute 0
  sleep,       \* units until a loop's next pass
  silent,      \* units since a spoke's last_seen, as far as they matter
  onSchedule,  \* spokes with reclone_schedule_enabled = "on"
  triggered,   \* _last_schedule_trigger names the minute the clock shows
  recovery,    \* ages of a spoke's auto_recovery rows
  fired        \* history: reclone_schedule rows of the scheduled minute

timersVars == <<up, clock, sleep, silent, onSchedule, triggered, recovery,
                fired>>

Period == [schedule |-> Minute, recovery |-> Recovery, purge |-> Purge]
Loop == DOMAIN Period

\* sleep(60) and a pass take a minute or, from time to time, a unit more.
Delay(l) == {Period[l], Period[l] + 1}
MinuteOf(c) == c \div Minute
InSchedule(c) == MinuteOf(c) = Scheduled

\* The passes that fit in a row's life.
MaxRows == (Life - 1) \div Recovery + 1

TimersTypeOK ==
  /\ up \in BOOLEAN
  /\ clock \in 0 .. Minute * Day - 1
  /\ sleep \in [Loop -> Nat] /\ \A l \in Loop : sleep[l] <= Period[l] + 1
  /\ silent \in [Spoke -> 0 .. Silent + 1]
  /\ onSchedule \subseteq Spoke /\ triggered \subseteq Spoke
  /\ recovery \in [Spoke -> Seq(0 .. Life)]
  /\ fired \in [Spoke -> Nat]

TimersInit ==
  /\ up = TRUE
  /\ clock = 0
  /\ sleep = Period
  /\ silent = [s \in Spoke |-> 0]
  /\ onSchedule \in SUBSET Spoke /\ triggered = {}
  /\ recovery = [s \in Spoke |-> <<>>]
  /\ fired = [s \in Spoke |-> 0]

-----------------------------------------------------------------------------
(* Time.                                                                   *)

Least(a, b) == IF a < b THEN a ELSE b

\* The clock goes on when no loop is due.
Tick ==
  /\ up => \A l \in Loop : sleep[l] > 0
  /\ LET next == (clock + 1) % (Minute * Day)
         turns == MinuteOf(next) # MinuteOf(clock)
     IN /\ clock' = next
        /\ triggered' = IF turns THEN {} ELSE triggered
        /\ fired' = [s \in Spoke |-> IF turns THEN 0 ELSE fired[s]]
  /\ sleep' = [l \in Loop |-> IF up THEN sleep[l] - 1 ELSE sleep[l]]
  /\ silent' = [s \in Spoke |-> Least(silent[s] + 1, Silent + 1)]
  /\ recovery' = [s \in Spoke |->
                    [i \in DOMAIN recovery[s] |-> Least(recovery[s][i] + 1, Life)]]
  /\ UNCHANGED <<up, onSchedule>>

-----------------------------------------------------------------------------
(* The loops.                                                              *)

Due(l) == up /\ sleep[l] = 0
Sleeps(l) == \E d \in Delay(l) : sleep' = [sleep EXCEPT ![l] = d]

Young(age) == age < Life

\* Rows live equally long, so that the ones which are too old are the first.
Fresh(rows) ==
  LET old == CHOOSE n \in 0 .. Len(rows) :
               \A i \in DOMAIN rows : Young(rows[i]) <=> n < i
  IN SubSeq(rows, old + 1, Len(rows))

\* auto_recovery_check: a row on every pass for every spoke that is silent;
\* enqueue_command drops the rows that are too old.
RecoverSilent ==
  /\ Due("recovery")
  /\ recovery' = [s \in Spoke |-> IF silent[s] > Silent
                                    THEN Append(Fresh(recovery[s]), 0) ELSE recovery[s]]
  /\ Sleeps("recovery")
  /\ UNCHANGED <<up, clock, silent, onSchedule, triggered, fired>>

\* schedule_check: the spokes whose minute the clock shows just now.
CheckSchedules ==
  /\ Due("schedule")
  /\ LET now == IF InSchedule(clock) THEN onSchedule \ triggered ELSE {}
     IN /\ triggered' = triggered \cup now
        /\ fired' = [s \in Spoke |-> IF s \in now THEN fired[s] + 1 ELSE fired[s]]
        /\ recovery' = [s \in Spoke |-> IF s \in now THEN Fresh(recovery[s])
                                        ELSE recovery[s]]
  /\ Sleeps("schedule")
  /\ UNCHANGED <<up, clock, silent, onSchedule>>

\* maintenance_loop: purge_expired_commands.
PurgeExpired ==
  /\ Due("purge")
  /\ recovery' = [s \in Spoke |-> Fresh(recovery[s])]
  /\ Sleeps("purge")
  /\ UNCHANGED <<up, clock, silent, onSchedule, triggered, fired>>

-----------------------------------------------------------------------------
(* The spokes, the administrator and the process.                          *)

\* A spoke reports, and has executed and acknowledged what was queued.
ReportAgain(s) ==
  /\ up
  /\ silent' = [silent EXCEPT ![s] = 0]
  /\ recovery' = [recovery EXCEPT ![s] = <<>>]
  /\ UNCHANGED <<up, clock, sleep, onSchedule, triggered, fired>>

SetSchedule(s) ==
  /\ up
  /\ onSchedule' = (onSchedule \ {s}) \cup ({s} \ onSchedule)
  /\ UNCHANGED <<up, clock, sleep, silent, triggered, recovery, fired>>

\* The process stops; _last_schedule_trigger is lost.
GoDown ==
  /\ up /\ up' = FALSE
  /\ triggered' = {}
  /\ UNCHANGED <<clock, sleep, silent, onSchedule, recovery, fired>>

\* (mutant) the loops start with a pass
ComeUpAtOnce ==
  /\ ~up /\ up' = TRUE
  /\ sleep' = [l \in Loop |-> 0]
  /\ UNCHANGED <<clock, silent, onSchedule, triggered, recovery, fired>>

\* Each loop sleeps before its first pass.
ComeUp ==
  /\ ~up /\ up' = TRUE
  /\ sleep' = Period
  /\ UNCHANGED <<clock, silent, onSchedule, triggered, recovery, fired>>

TimersNext ==
  \/ Tick \/ RecoverSilent \/ CheckSchedules \/ PurgeExpired
  \/ \E s \in Spoke : ReportAgain(s) \/ SetSchedule(s)
  \/ GoDown \/ ComeUp

TimersSpec == TimersInit /\ [][TimersNext]_timersVars

-----------------------------------------------------------------------------
(* Properties.                                                             *)

\* However long a spoke stays silent and however often the hub is restarted,
\* auto_recovery_check leaves no more rows for it than passes fit in a row's
\* life: each one removes what is too old, whenever maintenance_loop runs.
RecoveryBounded == \A s \in Spoke : Len(recovery[s]) <= MaxRows

\* A schedule fires once in its minute, also when the hub is restarted within
\* it and has forgotten _last_schedule_trigger.
ScheduledOnce == \A s \in Spoke : fired[s] <= 1

=============================================================================
