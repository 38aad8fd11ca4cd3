------------------------- MODULE QueueWorkersProofs -------------------------
(***************************************************************************)
(* Theorems about QueueWorkers: types for any assignment of threads to     *)
(* worker processes, and the two properties of the queue file for any      *)
(* number of threads and commands when the threads share one process, the  *)
(* deployment start.sh makes, with which it implements CommandLifecycle.   *)
(***************************************************************************)
EXTENDS QueueWorkers, TLAPS

\* One gunicorn worker: every request thread runs in the same process.
OneWorker == \A t, u \in Thread : worker[t] = worker[u]

-----------------------------------------------------------------------------
(* What a rewrite of the file returns.                                     *)

\* The statuses of a row and their order.
LEMMA RankFacts ==
  /\ DOMAIN Rank = {"absent", "queued", "delivered", "executed"}
  /\ Rank["absent"] = 0
  /\ Rank["queued"] = 1
  /\ Rank["delivered"] = 2
  /\ Rank["executed"] = 3
  BY DEF Rank

\* Whatever the operation and the rows, the result is a file.
LEMMA AppliedType ==
  ASSUME NEW op \in Op, NEW cmds \in SUBSET Cmd, NEW rows \in Rows
  PROVE  Applied(op, cmds, rows) \in Rows
  BY RankFacts DEF Applied, Rows, Op

\* An enqueue is of commands that have no row.
Fresh(op, cmds, rows) ==
  op = "enqueue" => \A c \in cmds : rows[c] = "absent"

\* The three operations yield a file, leave the rows of other commands alone
\* and, unless one is an enqueue of a row that is there, take no row back.
LEMMA AppliedFacts ==
  ASSUME NEW op \in Op, NEW cmds \in SUBSET Cmd, NEW rows \in Rows,
         Fresh(op, cmds, rows)
  PROVE  /\ Applied(op, cmds, rows) \in Rows
         /\ \A c \in Cmd :
              /\ Rank[Applied(op, cmds, rows)[c]] >= Rank[rows[c]]
              /\ rows[c] # "absent" => Applied(op, cmds, rows)[c] # "absent"
              /\ c \notin cmds => Applied(op, cmds, rows)[c] = rows[c]
              /\ op # "enqueue" /\ rows[c] = "absent"
                   => Applied(op, cmds, rows)[c] = "absent"
              /\ op = "enqueue" /\ c \in cmds
                   => Applied(op, cmds, rows)[c] = "queued"
<1>1. Applied(op, cmds, rows) \in Rows
  BY AppliedType
<1>2. ASSUME NEW c \in Cmd
      PROVE  /\ Rank[Applied(op, cmds, rows)[c]] >= Rank[rows[c]]
             /\ rows[c] # "absent" => Applied(op, cmds, rows)[c] # "absent"
             /\ c \notin cmds => Applied(op, cmds, rows)[c] = rows[c]
             /\ op # "enqueue" /\ rows[c] = "absent"
                  => Applied(op, cmds, rows)[c] = "absent"
             /\ op = "enqueue" /\ c \in cmds
                  => Applied(op, cmds, rows)[c] = "queued"
  <2>1. rows[c] \in {"absent", "queued", "delivered", "executed"}
    BY RankFacts DEF Rows
  <2>2. CASE c \notin cmds
    <3>1. Applied(op, cmds, rows)[c] = rows[c]
      BY <2>2 DEF Applied
    <3>2. Rank[rows[c]] \in Nat
      BY <2>1, RankFacts
    <3> QED
      BY <2>2, <3>1, <3>2
  <2>3. CASE c \in cmds /\ op = "enqueue"
    BY <2>1, <2>3, RankFacts DEF Applied, Fresh
  <2>4. CASE c \in cmds /\ op = "deliver"
    BY <2>1, <2>4, RankFacts DEF Applied
  <2>5. CASE c \in cmds /\ op = "ack"
    BY <2>1, <2>5, RankFacts DEF Applied
  <2> QED
    BY <2>2, <2>3, <2>4, <2>5 DEF Op
<1> QED
  BY <1>1, <1>2

\* The empty queue is a file.
LEMMA NoRowType == NoRow \in Rows
  BY RankFacts DEF NoRow, Rows

\* The record type of a thread, closed under the updates the actions make.
ThreadRec == [pc : Pc, op : Op, cmds : SUBSET Cmd, copy : Rows]

\* A thread with nothing to do is a well typed one.
LEMMA IdleType == Idle \in ThreadRec
  BY NoRowType DEF Idle, ThreadRec, Pc, Op

-----------------------------------------------------------------------------
(* Type correctness, whatever process each thread runs in.                 *)

\* The hub starts with no row, no lock held and no thread at work.
LEMMA InitTypeOK == Init => TypeOK
  BY NoRowType, IdleType, ThreadAssumption DEF Init, TypeOK, ThreadRec

\* No step of a thread leaves the types.
LEMMA NextTypeOK == TypeOK /\ [Next]_vars => TypeOK'
<1> SUFFICES ASSUME TypeOK, [Next]_vars
             PROVE  TypeOK'
  OBVIOUS
<1> USE ThreadAssumption, NoRowType, IdleType DEF TypeOK, ThreadRec
<1>1. ASSUME NEW t \in Thread, Start(t)
      PROVE  TypeOK'
  <2>1. ASSUME NEW op \in Op, NEW c \in Cmd
        PROVE  [Idle EXCEPT !.pc = "lock", !.op = op, !.cmds = {c}]
                 \in ThreadRec
    BY IdleType DEF Pc
  <2>2. PICK op \in Op, c \in Cmd :
          thread' = [thread EXCEPT ![t] =
                       [Idle EXCEPT !.pc = "lock", !.op = op, !.cmds = {c}]]
    BY <1>1 DEF Start, Op
  <2>3. thread \in [Thread -> ThreadRec]
    OBVIOUS
  <2> HIDE DEF ThreadRec
  <2>4. thread' \in [Thread -> ThreadRec]
    BY <2>1, <2>2, <2>3
  <2> QED
    BY <1>1, <2>4 DEF Start, ThreadRec
<1>2. ASSUME NEW t \in Thread, AcquireLock(t)
      PROVE  TypeOK'
  BY <1>2 DEF AcquireLock, Pc
<1>3. ASSUME NEW t \in Thread, AcquireFlock(t)
      PROVE  TypeOK'
  BY <1>3 DEF AcquireFlock, Pc
<1>4. ASSUME NEW t \in Thread, Read(t)
      PROVE  TypeOK'
  BY <1>4 DEF Read, Pc
<1>5. ASSUME NEW t \in Thread, Truncate(t)
      PROVE  TypeOK'
  BY <1>5 DEF Truncate, Pc
<1>6. ASSUME NEW t \in Thread, Fill(t)
      PROVE  TypeOK'
  BY <1>6, AppliedType DEF Fill, Pc
<1>7. ASSUME NEW t \in Thread, Unlock(t)
      PROVE  TypeOK'
  BY <1>7 DEF Unlock
<1>8. CASE UNCHANGED vars
  BY <1>8 DEF vars
<1> QED
  BY <1>1, <1>2, <1>3, <1>4, <1>5, <1>6, <1>7, <1>8 DEF Next

\* Every reachable state of the queue file, the two locks and the threads is
\* well typed, with one worker process or several.
THEOREM TypeCorrect == Spec => []TypeOK
<1>1. Init => TypeOK
  BY InitTypeOK
<1>2. TypeOK /\ [Next]_vars => TypeOK'
  BY NextTypeOK
<1> QED
  BY <1>1, <1>2, PTL DEF Spec

-----------------------------------------------------------------------------
(* The invariant that makes a read-modify-write of the file atomic.        *)

\* A thread between taking and releasing its process's lock.
Inside == {"flock", "read", "truncate", "fill", "unlock"}

\* It holds that lock.
HoldsLock ==
  \A t \in Thread : thread[t].pc \in Inside => lock[worker[t]] = t

\* A truncated file is being filled by somebody.
TornIsFilled == torn => \E t \in Thread : thread[t].pc = "fill"

\* What a thread is about to write was computed from the file as it is.
CopyIsFile ==
  \A t \in Thread :
    thread[t].pc \in {"truncate", "fill"} => thread[t].copy = file

\* Until it has written, an enqueue concerns commands with no row; after, the
\* row is there.
EnqueueStage ==
  \A t \in Thread :
    thread[t].op = "enqueue" =>
      \A c \in thread[t].cmds :
        IF thread[t].pc = "unlock" THEN file[c] # "absent"
                                   ELSE file[c] = "absent"

\* No two enqueues under way create the same command.
EnqueuesApart ==
  \A t, u \in Thread :
    t # u /\ thread[t].op = "enqueue" /\ thread[u].op = "enqueue"
      => thread[t].cmds \cap thread[u].cmds = {}

IdleIsAck == \A t \in Thread : thread[t].pc = "idle" => thread[t].op = "ack"

IInv ==
  /\ TypeOK
  /\ HoldsLock
  /\ TornIsFilled
  /\ CopyIsFile
  /\ EnqueueStage
  /\ EnqueuesApart
  /\ IdleIsAck
  /\ NoLostCommand

\* With one process, two threads are never inside at once.
LEMMA OneInside ==
  ASSUME OneWorker, TypeOK, HoldsLock,
         NEW t \in Thread, NEW u \in Thread,
         thread[t].pc \in Inside, thread[u].pc \in Inside
  PROVE  t = u
  BY DEF OneWorker, HoldsLock

\* The invariant holds at the start.
LEMMA InitIInv == Init => IInv
  BY InitTypeOK
  DEF Init, IInv, HoldsLock, TornIsFilled, CopyIsFile, EnqueueStage,
      EnqueuesApart, IdleIsAck, NoLostCommand, Idle, Inside

\* Every step of a thread keeps the invariant: the holder of the lock is alone
\* between its read and its write.
LEMMA NextIInv == OneWorker /\ IInv /\ [Next]_vars => IInv'
<1> SUFFICES ASSUME OneWorker, IInv, [Next]_vars
             PROVE  IInv'
  OBVIOUS
<1>0. TypeOK'
  BY NextTypeOK DEF IInv
<1> USE ThreadAssumption DEF IInv
<1>1. ASSUME NEW t \in Thread, Start(t)
      PROVE  IInv'
  <2>1. PICK op \in Op, c \in Cmd :
          /\ thread' = [thread EXCEPT ![t] =
                          [Idle EXCEPT !.pc = "lock", !.op = op, !.cmds = {c}]]
          /\ op = "enqueue" =>
               /\ file[c] = "absent"
               /\ \A u \in Thread : thread[u].pc # "idle"
                                      => c \notin thread[u].cmds
    BY <1>1 DEF Start, Op, TypeOK
  <2>2. /\ thread'[t].pc = "lock"
        /\ thread'[t].op = op
        /\ thread'[t].cmds = {c}
        /\ \A u \in Thread \ {t} : thread'[u] = thread[u]
        /\ UNCHANGED <<file, torn, lock, flock, created>>
    BY <1>1, <2>1 DEF Start, Idle, TypeOK
  <2>3. thread[t].pc = "idle"
    BY <1>1 DEF Start
  <2> QED
    BY <1>0, <2>1, <2>2, <2>3
    DEF HoldsLock, TornIsFilled, CopyIsFile, EnqueueStage, EnqueuesApart,
        IdleIsAck, NoLostCommand, Inside
<1>2. ASSUME NEW t \in Thread, AcquireLock(t)
      PROVE  IInv'
  <2>1. /\ thread[t].pc = "lock"
        /\ thread'[t].pc \in {"flock", "read"}
        /\ thread'[t].op = thread[t].op
        /\ thread'[t].cmds = thread[t].cmds
        /\ \A u \in Thread \ {t} : thread'[u] = thread[u]
        /\ UNCHANGED <<file, torn, created>>
    BY <1>2 DEF AcquireLock, TypeOK
  <2>2. HoldsLock'
    BY <1>2, <2>1 DEF AcquireLock, HoldsLock, Inside, TypeOK
  <2> QED
    BY <1>0, <2>1, <2>2
    DEF TornIsFilled, CopyIsFile, EnqueueStage, EnqueuesApart, IdleIsAck,
        NoLostCommand
<1>3. ASSUME NEW t \in Thread, AcquireFlock(t)
      PROVE  IInv'
  <2>1. /\ thread[t].pc = "flock"
        /\ thread'[t].pc = "read"
        /\ thread'[t].op = thread[t].op
        /\ thread'[t].cmds = thread[t].cmds
        /\ \A u \in Thread \ {t} : thread'[u] = thread[u]
        /\ UNCHANGED <<file, torn, lock, created>>
    BY <1>3 DEF AcquireFlock, TypeOK
  <2> QED
    BY <1>0, <2>1
    DEF HoldsLock, TornIsFilled, CopyIsFile, EnqueueStage, EnqueuesApart,
        IdleIsAck, NoLostCommand, Inside
<1>4. ASSUME NEW t \in Thread, Read(t)
      PROVE  IInv'
  <2>1. /\ thread[t].pc = "read"
        /\ thread'[t].pc = "truncate"
        /\ thread'[t].op = thread[t].op
        /\ thread'[t].cmds = thread[t].cmds
        /\ thread'[t].copy = IF torn THEN NoRow ELSE file
        /\ \A u \in Thread \ {t} : thread'[u] = thread[u]
        /\ UNCHANGED <<file, torn, lock, created>>
    BY <1>4 DEF Read, TypeOK
  <2>2. ~torn
    BY <2>1, OneInside DEF TornIsFilled, Inside
  <2> QED
    BY <1>0, <2>1, <2>2
    DEF HoldsLock, TornIsFilled, CopyIsFile, EnqueueStage, EnqueuesApart,
        IdleIsAck, NoLostCommand, Inside
<1>5. ASSUME NEW t \in Thread, Truncate(t)
      PROVE  IInv'
  <2>1. /\ thread[t].pc = "truncate"
        /\ thread'[t].pc = "fill"
        /\ thread'[t].op = thread[t].op
        /\ thread'[t].cmds = thread[t].cmds
        /\ thread'[t].copy = thread[t].copy
        /\ \A u \in Thread \ {t} : thread'[u] = thread[u]
        /\ UNCHANGED <<file, lock, created>>
    BY <1>5 DEF Truncate, TypeOK
  <2> QED
    BY <1>0, <2>1
    DEF HoldsLock, TornIsFilled, CopyIsFile, EnqueueStage, EnqueuesApart,
        IdleIsAck, NoLostCommand, Inside
<1>6. ASSUME NEW t \in Thread, Fill(t)
      PROVE  IInv'
  <2>1. /\ thread[t].pc = "fill"
        /\ thread'[t].pc = "unlock"
        /\ thread'[t].op = thread[t].op
        /\ thread'[t].cmds = thread[t].cmds
        /\ \A u \in Thread \ {t} : thread'[u] = thread[u]
        /\ UNCHANGED <<lock, created>>
        /\ torn' = FALSE
        /\ file' = Applied(thread[t].op, thread[t].cmds, file)
    BY <1>6 DEF Fill, TypeOK, CopyIsFile
  <2>2. \A u \in Thread \ {t} : thread[u].pc \notin Inside
    BY <2>1, OneInside DEF Inside
  <2>3. /\ thread[t].op \in Op
        /\ thread[t].cmds \in SUBSET Cmd
        /\ file \in Rows
        /\ Fresh(thread[t].op, thread[t].cmds, file)
    BY <2>1 DEF TypeOK, EnqueueStage, Fresh
  <2>4. /\ \A c \in Cmd : file[c] # "absent" => file'[c] # "absent"
        /\ \A c \in Cmd \ thread[t].cmds : file'[c] = file[c]
        /\ \A c \in Cmd : thread[t].op # "enqueue" /\ file[c] = "absent"
                            => file'[c] = "absent"
        /\ thread[t].op = "enqueue"
             => \A c \in thread[t].cmds : file'[c] # "absent"
    <3> DEFINE op == thread[t].op
               cmds == thread[t].cmds
    <3>1. /\ op \in Op /\ cmds \in SUBSET Cmd /\ file \in Rows
          /\ Fresh(op, cmds, file)
          /\ file' = Applied(op, cmds, file)
      BY <2>1, <2>3
    <3> HIDE DEF op, cmds
    <3>2. \A c \in Cmd :
            /\ file[c] # "absent" => file'[c] # "absent"
            /\ c \notin cmds => file'[c] = file[c]
            /\ op # "enqueue" /\ file[c] = "absent" => file'[c] = "absent"
            /\ op = "enqueue" /\ c \in cmds => file'[c] = "queued"
      BY <3>1, AppliedFacts
    <3> QED
      BY <3>1, <3>2 DEF op, cmds
  <2>5. HoldsLock' /\ TornIsFilled' /\ CopyIsFile' /\ IdleIsAck'
    BY <2>1, <2>2
    DEF HoldsLock, TornIsFilled, CopyIsFile, IdleIsAck, Inside
  <2>6. EnqueueStage'
    <3> SUFFICES ASSUME NEW u \in Thread, thread'[u].op = "enqueue",
                        NEW c \in thread'[u].cmds
                 PROVE  IF thread'[u].pc = "unlock" THEN file'[c] # "absent"
                                                    ELSE file'[c] = "absent"
      BY DEF EnqueueStage
    <3>1. CASE u = t
      BY <2>1, <2>4, <3>1
    <3>2. CASE u # t
      <4>1. /\ thread[u].op = "enqueue" /\ c \in thread[u].cmds
            /\ c \in Cmd /\ thread'[u].pc = thread[u].pc
            /\ thread[u].pc # "unlock" /\ file[c] = "absent"
        BY <2>1, <2>2, <3>2 DEF EnqueueStage, TypeOK, Inside
      <4>2. thread[t].op = "enqueue" => c \notin thread[t].cmds
        BY <3>2, <4>1 DEF EnqueuesApart
      <4> QED
        BY <2>4, <4>1, <4>2
    <3> QED
      BY <3>1, <3>2
  <2>7. EnqueuesApart'
    BY <2>1 DEF EnqueuesApart
  <2>8. NoLostCommand'
    BY <2>1, <2>4 DEF NoLostCommand, TypeOK
  <2> QED
    BY <1>0, <2>5, <2>6, <2>7, <2>8
<1>7. ASSUME NEW t \in Thread, Unlock(t)
      PROVE  IInv'
  <2>1. /\ thread[t].pc = "unlock"
        /\ thread'[t] = Idle
        /\ \A u \in Thread \ {t} : thread'[u] = thread[u]
        /\ UNCHANGED <<file, torn>>
        /\ created' = IF thread[t].op = "enqueue"
                        THEN created \cup thread[t].cmds ELSE created
    BY <1>7 DEF Unlock, TypeOK
  <2>2. \A u \in Thread \ {t} : thread[u].pc \notin Inside
    BY <2>1, OneInside DEF Inside
  <2>3. HoldsLock' /\ TornIsFilled' /\ CopyIsFile' /\ IdleIsAck'
    BY <2>1, <2>2
    DEF HoldsLock, TornIsFilled, CopyIsFile, IdleIsAck, Inside, Idle
  <2>4. EnqueueStage' /\ EnqueuesApart'
    BY <2>1 DEF EnqueueStage, EnqueuesApart, Idle
  <2>5. NoLostCommand'
    BY <2>1 DEF NoLostCommand, EnqueueStage
  <2> QED
    BY <1>0, <2>3, <2>4, <2>5
<1>8. CASE UNCHANGED vars
  BY <1>0, <1>8
  DEF vars, HoldsLock, TornIsFilled, CopyIsFile, EnqueueStage, EnqueuesApart,
      IdleIsAck, NoLostCommand
<1> QED
  BY <1>1, <1>2, <1>3, <1>4, <1>5, <1>6, <1>7, <1>8 DEF Next

\* With one worker the lock each thread holds from its read to its write is
\* the same one, so the copy it writes back is the file: IInv holds throughout.
THEOREM IInvCorrect == ASSUME OneWorker PROVE Spec => []IInv
<1>1. Init => IInv
  BY InitIInv
<1>2. IInv /\ [Next]_vars => IInv'
  BY OneWorker, NextIInv
<1> QED
  BY <1>1, <1>2, PTL DEF Spec

\* With one worker process a command whose enqueue_command has returned keeps
\* its row in the queue file, however the request threads interleave.
THEOREM NoLostCommandCorrect ==
  ASSUME OneWorker PROVE Spec => []NoLostCommand
<1>1. IInv => NoLostCommand
  BY DEF IInv
<1> QED
  BY OneWorker, <1>1, IInvCorrect, PTL

\* With one worker process no write takes a row back to an earlier status:
\* only a fill changes the file, and it writes what it computed from the file
\* as it is.
THEOREM NoLostStatusCorrect ==
  ASSUME OneWorker PROVE Spec => NoLostStatus
<1>1. IInv /\ [Next]_vars
        => [\A c \in Cmd : Rank[file'[c]] >= Rank[file[c]]]_vars
  <2> SUFFICES ASSUME IInv, Next
               PROVE  \A c \in Cmd : Rank[file'[c]] >= Rank[file[c]]
    OBVIOUS
  <2>1. \A c \in Cmd : Rank[file[c]] \in Nat
    BY RankFacts DEF IInv, TypeOK, Rows
  <2>2. PICK t \in Thread : Fill(t) \/ file' = file
    BY DEF Next, Start, AcquireLock, AcquireFlock, Read, Truncate, Unlock
  <2>3. CASE Fill(t)
    <3>1. /\ file' = Applied(thread[t].op, thread[t].cmds, file)
          /\ thread[t].op \in Op
          /\ thread[t].cmds \in SUBSET Cmd
          /\ file \in Rows
          /\ Fresh(thread[t].op, thread[t].cmds, file)
      BY <2>3 DEF Fill, IInv, CopyIsFile, EnqueueStage, TypeOK, Fresh
    <3> QED
      BY <3>1, AppliedFacts
  <2>4. CASE file' = file
    BY <2>1, <2>4
  <2> QED
    BY <2>2, <2>3, <2>4
<1> QED
  BY OneWorker, <1>1, IInvCorrect, PTL DEF Spec, NoLostStatus

-----------------------------------------------------------------------------
(* The file implements the abstract lifecycle.                             *)

\* A thread at work is about one command, which has been created unless the
\* thread creates it.
OneCommand ==
  \A t \in Thread : thread[t].pc # "idle" =>
    \E c \in Cmd : thread[t].cmds = {c} /\ (thread[t].op # "enqueue" => c \in created)

\* No step changes what a thread is about, or takes a command back.
LEMMA OneCommandCorrect == Spec => []OneCommand
<1>1. Init => OneCommand
  BY DEF Init, OneCommand, Idle
<1>2. TypeOK /\ OneCommand /\ [Next]_vars => OneCommand'
  <2> SUFFICES ASSUME TypeOK, OneCommand, [Next]_vars
               PROVE  OneCommand'
    OBVIOUS
  <2>1. ASSUME NEW t \in Thread, Start(t)
        PROVE  OneCommand'
    <3>1. PICK op \in Op, c \in Cmd :
            /\ thread' = [thread EXCEPT ![t] =
                            [Idle EXCEPT !.pc = "lock", !.op = op, !.cmds = {c}]]
            /\ op # "enqueue" => c \in created
      BY <2>1 DEF Start, Op, TypeOK
    <3>2. thread'[t].cmds = {c} /\ thread'[t].op = op
      BY <3>1 DEF Idle, TypeOK
    <3>3. created' = created /\ \A u \in Thread \ {t} : thread'[u] = thread[u]
      BY <2>1, <3>1 DEF Start, TypeOK
    <3> QED
      BY <3>1, <3>2, <3>3 DEF OneCommand
  <2>2. ASSUME NEW t \in Thread,
               AcquireLock(t) \/ AcquireFlock(t) \/ Read(t) \/ Truncate(t) \/ Fill(t)
        PROVE  OneCommand'
    <3>1. /\ thread[t].pc # "idle" /\ created' = created
          /\ \A u \in Thread : thread'[u].cmds = thread[u].cmds /\ thread'[u].op = thread[u].op
          /\ \A u \in Thread \ {t} : thread'[u] = thread[u]
      BY <2>2 DEF AcquireLock, AcquireFlock, Read, Truncate, Fill, TypeOK
    <3> QED
      BY <3>1 DEF OneCommand
  <2>3. ASSUME NEW t \in Thread, Unlock(t)
        PROVE  OneCommand'
    <3>1. /\ thread'[t].pc = "idle" /\ created \subseteq created'
          /\ \A u \in Thread \ {t} : thread'[u] = thread[u]
      BY <2>3 DEF Unlock, Idle, TypeOK
    <3> QED
      BY <3>1 DEF OneCommand
  <2>4. CASE UNCHANGED vars
    BY <2>4 DEF vars, OneCommand
  <2> QED
    BY <2>1, <2>2, <2>3, <2>4 DEF Next
<1> QED
  BY <1>1, <1>2, TypeCorrect, PTL DEF Spec

\* With one worker every step of a thread is a step of CommandLifecycle, or
\* leaves its variables alone.
LEMMA FileLifecycleStep ==
  ASSUME IInv, OneCommand, [Next]_vars
  PROVE  [FileLifecycle!Next]_(FileLifecycle!vars)
<1> USE DEF FileLifecycle!vars
<1>a. file \in Rows /\ created \subseteq Cmd
  BY DEF IInv, TypeOK
<1>b. \A c \in Cmd : file[c] \in {"absent", "queued", "delivered", "executed"}
  BY <1>a, RankFacts DEF Rows
<1>c. \A c \in Cmd : Stages[c] = IF file[c] = "absent" THEN "new" ELSE file[c]
  BY DEF Stages
<1>1. ASSUME NEW t \in Thread, Fill(t)
      PROVE  FileLifecycle!Next \/ UNCHANGED <<Stages, created>>
  <2>1. PICK c \in Cmd : thread[t].cmds = {c} /\ (thread[t].op # "enqueue" => c \in created)
    BY <1>1 DEF Fill, OneCommand
  <2>2. /\ file' = Applied(thread[t].op, {c}, file)
        /\ thread[t].op \in Op /\ created' = created
    BY <1>1, <2>1 DEF Fill, IInv, CopyIsFile, TypeOK
  <2>3. CASE thread[t].op = "enqueue"
    <3>1. file[c] = "absent"
      BY <1>1, <2>1, <2>3 DEF Fill, IInv, EnqueueStage
    <3>2. \A d \in Cmd : file'[d] = IF d = c THEN "queued" ELSE file[d]
      BY <2>2, <2>3 DEF Applied
    <3>3. Stages' = [FileLifecycle!Rewrite({}, {}) EXCEPT ![c] = "queued"]
      BY <3>2 DEF Stages, FileLifecycle!Rewrite
    <3>4. FileLifecycle!Create(c)
      BY <1>c, <2>2, <3>1, <3>3 DEF FileLifecycle!Create
    <3> QED
      BY <3>4 DEF FileLifecycle!Next
  <2>4. CASE thread[t].op = "deliver"
    <3> DEFINE given == {d \in {c} : file[d] = "queued"}
    <3>1. \A d \in Cmd : file'[d] = IF d \in given THEN "delivered" ELSE file[d]
      BY <2>2, <2>4 DEF Applied
    <3>2. given \in SUBSET {d \in Cmd : Stages[d] = "queued"}
      BY <1>c
    <3>3. Stages' = FileLifecycle!Rewrite(given, {})
      BY <3>1 DEF Stages, FileLifecycle!Rewrite
    <3> HIDE DEF given
    <3>4. FileLifecycle!Settle
      BY <2>2, <3>2, <3>3 DEF FileLifecycle!Settle
    <3> QED
      BY <3>4 DEF FileLifecycle!Next
  <2>5. CASE thread[t].op = "ack"
    <3>1. c \in created /\ file[c] # "absent"
      BY <2>1, <2>5 DEF IInv, NoLostCommand
    <3>2. \A d \in Cmd : file'[d] = IF d = c THEN "executed" ELSE file[d]
      BY <2>2, <2>5, <3>1 DEF Applied
    <3>3. Stages' = [Stages EXCEPT ![c] = "executed"]
      BY <3>2 DEF Stages
    <3>4. Stages[c] \in FileLifecycle!InFile
      BY <1>b, <1>c, <3>1 DEF FileLifecycle!InFile
    <3>5. FileLifecycle!Execute(c)
      BY <2>2, <3>1, <3>3, <3>4 DEF FileLifecycle!Execute
    <3> QED
      BY <3>5 DEF FileLifecycle!Next
  <2> QED
    BY <2>2, <2>3, <2>4, <2>5 DEF Op
<1>2. ASSUME NEW t \in Thread, Unlock(t)
      PROVE  FileLifecycle!Next \/ UNCHANGED <<Stages, created>>
  <2>1. file' = file /\ Stages' = Stages
    BY <1>2 DEF Unlock, Stages
  <2>2. CASE thread[t].op = "enqueue"
    <3>1. created' = created \cup thread[t].cmds
      BY <1>2, <2>2 DEF Unlock
    <3>2. thread[t].cmds \subseteq {c \in Cmd : Stages[c] # "new"}
      <4> SUFFICES ASSUME NEW c \in thread[t].cmds
                   PROVE  c \in Cmd /\ Stages[c] # "new"
        OBVIOUS
      <4>1. c \in Cmd /\ file[c] # "absent"
        BY <1>2, <2>2 DEF Unlock, IInv, TypeOK, EnqueueStage
      <4> QED
        BY <1>b, <1>c, <4>1
    <3>3. FileLifecycle!Receive
      BY <2>1, <3>1, <3>2 DEF FileLifecycle!Receive
    <3> QED
      BY <3>3 DEF FileLifecycle!Next
  <2>3. CASE thread[t].op # "enqueue"
    BY <1>2, <2>1, <2>3 DEF Unlock
  <2> QED
    BY <2>2, <2>3
<1>3. ASSUME UNCHANGED <<file, created>>
      PROVE  UNCHANGED <<Stages, created>>
  BY <1>3 DEF Stages
<1>4. \/ UNCHANGED <<file, created>>
      \/ \E t \in Thread : Fill(t) \/ Unlock(t)
  BY DEF Next, vars, Start, AcquireLock, AcquireFlock, Read, Truncate
<1> QED
  BY <1>1, <1>2, <1>3, <1>4

\* With one worker process the queue file, rewritten by request threads step
\* by step, implements the lifecycle that CommandQueue implements with one
\* step for each operation (_read_json, _write_json, the RLock of store.py).
THEOREM FileKeepsLifecycleCorrect ==
  ASSUME OneWorker PROVE Spec => FileKeepsLifecycle
<1>1. Init => FileLifecycle!Init
  BY DEF Init, FileLifecycle!Init, Stages, NoRow
<1>2. IInv /\ OneCommand /\ [Next]_vars => [FileLifecycle!Next]_(FileLifecycle!vars)
  BY FileLifecycleStep
<1> QED
  BY OneWorker, <1>1, <1>2, IInvCorrect, OneCommandCorrect, PTL
  DEF Spec, FileKeepsLifecycle, FileLifecycle!Spec

=============================================================================
