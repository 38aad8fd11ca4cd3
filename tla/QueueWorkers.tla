---------------------------- MODULE QueueWorkers ----------------------------
(***************************************************************************)
(* The queue file of one spoke below the level of CommandQueue: every      *)
(* store operation is a read, a computation and a write of the whole JSON  *)
(* file (_read_json, _write_json), made by a thread of a gunicorn worker.  *)
(* Each worker has its own process-local lock; enqueue_command alone also  *)
(* takes the exclusive flock on the queue's lock file.  _write_json        *)
(* truncates the file and then fills it, and a reader that finds no JSON   *)
(* in it takes the queue to be empty.                                      *)
(*                                                                         *)
(* No row expires and nobody clears the queue here: every command created  *)
(* must stay in the file.                                                  *)
(***************************************************************************)
EXTENDS Naturals

CONSTANTS Cmd,        \* bound: the commands created
          Worker,     \* gunicorn worker processes
          Thread,     \* bound: request threads alive at once
          worker,     \* the process each thread runs in
          Nobody      \* no holder of a lock

ASSUME ThreadAssumption == /\ worker \in [Thread -> Worker]
                           /\ Nobody \notin Thread

VARIABLES
  file,        \* the rows: the status of each command, or "absent"
  torn,        \* the file is truncated and not yet filled
  lock,        \* holder of each worker's RLock
  flock,       \* holder of the queue's lock file
  thread,      \* what each thread does: operation, program counter, its copy
  created      \* commands whose enqueue_command has returned

vars == <<file, torn, lock, flock, thread, created>>

Rank == [s \in {"absent", "queued", "delivered", "executed"} |->
           CASE s = "absent" -> 0 [] s = "queued" -> 1
             [] s = "delivered" -> 2 [] s = "executed" -> 3]
Rows == [Cmd -> DOMAIN Rank]
NoRow == [c \in Cmd |-> "absent"]

\* enqueue_command, mark_commands_delivered or get_queued_commands, ack_command.
Op == {"enqueue", "deliver", "ack"}
Pc == {"idle", "lock", "flock", "read", "truncate", "fill", "unlock"}

Idle == [pc |-> "idle", op |-> "ack", cmds |-> {}, copy |-> NoRow]

TypeOK ==
  /\ file \in Rows
  /\ torn \in BOOLEAN
  /\ lock \in [Worker -> Thread \cup {Nobody}]
  /\ flock \in Thread \cup {Nobody}
  /\ thread \in [Thread -> [pc : Pc, op : Op, cmds : SUBSET Cmd, copy : Rows]]
  /\ created \subseteq Cmd

Init ==
  /\ file = NoRow
  /\ torn = FALSE
  /\ lock = [w \in Worker |-> Nobody]
  /\ flock = Nobody
  /\ thread = [t \in Thread |-> Idle]
  /\ created = {}

\* Variant: a status no other code knows.
AppliedSent(op, cmds, rows) ==
  [c \in Cmd |-> IF c \in cmds THEN "sent" ELSE rows[c]]

\* What a thread writes: its copy with the operation applied.
Applied(op, cmds, rows) ==
  [c \in Cmd |->
     IF c \notin cmds THEN rows[c]
     ELSE CASE op = "enqueue" -> "queued"
       [] op = "deliver" -> IF rows[c] = "queued" THEN "delivered" ELSE rows[c]
       [] op = "ack" -> IF rows[c] = "absent" THEN "absent" ELSE "executed"]

\* Each command is created by one enqueue; the others concern created ones.
Start(t) ==
  /\ thread[t].pc = "idle"
  /\ \/ \E c \in Cmd :
          /\ file[c] = "absent"
          /\ c \notin created
          /\ \A u \in Thread : thread[u].pc # "idle" => c \notin thread[u].cmds
          /\ thread' = [thread EXCEPT ![t] = [Idle EXCEPT !.pc = "lock",
                                              !.op = "enqueue", !.cmds = {c}]]
     \/ \E op \in {"deliver", "ack"}, c \in created :
          thread' = [thread EXCEPT ![t] = [Idle EXCEPT !.pc = "lock",
                                           !.op = op, !.cmds = {c}]]
  /\ UNCHANGED <<file, torn, lock, flock, created>>

\* Variant: no process lock.
AcquireNothing(t) ==
  /\ thread[t].pc = "lock"
  /\ thread' = [thread EXCEPT ![t].pc =
                  IF thread[t].op = "enqueue" THEN "flock" ELSE "read"]
  /\ UNCHANGED <<file, torn, lock, flock, created>>

AcquireLock(t) ==
  /\ thread[t].pc = "lock"
  /\ lock[worker[t]] = Nobody
  /\ lock' = [lock EXCEPT ![worker[t]] = t]
  /\ thread' = [thread EXCEPT ![t].pc =
                  IF thread[t].op = "enqueue" THEN "flock" ELSE "read"]
  /\ UNCHANGED <<file, torn, flock, created>>

AcquireFlock(t) ==
  /\ thread[t].pc = "flock"
  /\ flock = Nobody
  /\ flock' = t
  /\ thread' = [thread EXCEPT ![t].pc = "read"]
  /\ UNCHANGED <<file, torn, lock, created>>

Read(t) ==
  /\ thread[t].pc = "read"
  /\ thread' = [thread EXCEPT ![t].pc = "truncate",
                              ![t].copy = IF torn THEN NoRow ELSE file]
  /\ UNCHANGED <<file, torn, lock, flock, created>>

Truncate(t) ==
  /\ thread[t].pc = "truncate"
  /\ torn' = TRUE
  /\ thread' = [thread EXCEPT ![t].pc = "fill"]
  /\ UNCHANGED <<file, lock, flock, created>>

Fill(t) ==
  /\ thread[t].pc = "fill"
  /\ file' = Applied(thread[t].op, thread[t].cmds, thread[t].copy)
  /\ torn' = FALSE
  /\ thread' = [thread EXCEPT ![t].pc = "unlock"]
  /\ UNCHANGED <<lock, flock, created>>

Unlock(t) ==
  /\ thread[t].pc = "unlock"
  /\ lock' = [lock EXCEPT ![worker[t]] = Nobody]
  /\ flock' = IF flock = t THEN Nobody ELSE flock
  /\ created' = IF thread[t].op = "enqueue" THEN created \cup thread[t].cmds
                ELSE created
  /\ thread' = [thread EXCEPT ![t] = Idle]
  /\ UNCHANGED <<file, torn>>

Next ==
  \E t \in Thread :
    \/ Start(t)
    \/ AcquireLock(t)
    \/ AcquireFlock(t)
    \/ Read(t)
    \/ Truncate(t)
    \/ Fill(t)
    \/ Unlock(t)

Spec == Init /\ [][Next]_vars

-----------------------------------------------------------------------------
\* A command whose enqueue has returned keeps its row: no other operation's
\* write, computed from a copy read earlier, leaves it out.  The module
\* comment of store.py says flock makes queue writes safe across workers.
NoLostCommand == \A c \in created : file[c] # "absent"

\* A write never takes a row back to an earlier status: what an ack recorded
\* is not undone by a mark that read the file before.
NoLostStatus == [][\A c \in Cmd : Rank[file'[c]] >= Rank[file[c]]]_vars

\* The file, whose operations take several steps, keeps the promise that
\* CommandQueue, whose operations take one, makes of it: each write moves the
\* rows it is about forward and leaves the others as they are.  A command may
\* be acknowledged once its enqueue has returned.
Stages == [c \in Cmd |-> IF file[c] = "absent" THEN "new" ELSE file[c]]
FileLifecycle == INSTANCE CommandLifecycle
                   WITH Commands <- Cmd, stage <- Stages, received <- created
FileKeepsLifecycle == FileLifecycle!Spec

=============================================================================
