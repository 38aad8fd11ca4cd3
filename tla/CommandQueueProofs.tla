------------------------- MODULE CommandQueueProofs -------------------------
(***************************************************************************)
(* Theorems about CommandQueue, for every number of commands, connections  *)
(* and push coroutines.                                                    *)
(***************************************************************************)
EXTENDS CommandQueue, TLAPS

USE DEF Cmd, Conn, Http, Offline, InFile, Status

-----------------------------------------------------------------------------
(* What the rewrites of the queue file return.                             *)

\* Filtering the expired rows yields a file, keeps unexpired rows and never
\* brings a row in.
LEMMA ActiveFacts ==
  ASSUME NEW s \in [Cmd -> Status]
  PROVE  /\ Active(s) \in [Cmd -> Status]
         /\ \A c \in Cmd : \/ Active(s)[c] = s[c]
                           \/ /\ s[c] \in InFile
                              /\ Active(s)[c] = "gone"
  BY DEF Active

\* Marking moves queued rows of the batch to delivered and nothing else.
LEMMA MarkFacts ==
  ASSUME NEW s \in [Cmd -> Status], NEW cmds \in SUBSET Cmd
  PROVE  /\ MarkDelivered(s, cmds) \in [Cmd -> Status]
         /\ \A c \in Cmd :
              \/ MarkDelivered(s, cmds)[c] = s[c]
              \/ /\ c \in cmds
                 /\ s[c] = "queued"
                 /\ MarkDelivered(s, cmds)[c] = "delivered"
  BY DEF MarkDelivered

\* An acknowledgement touches one row, and only one that is in the file.
LEMMA AckFacts ==
  ASSUME NEW s \in [Cmd -> Status], NEW a \in Cmd
  PROVE  /\ Acked(s, a) \in [Cmd -> Status]
         /\ \A c \in Cmd : \/ Acked(s, a)[c] = s[c]
                           \/ /\ c = a
                              /\ s[c] \in InFile
                              /\ Acked(s, a)[c] = "executed"
  BY DEF Acked

\* Clearing the file makes every row gone and leaves the others alone.
LEMMA NoRowsFacts ==
  ASSUME NEW s \in [Cmd -> Status]
  PROVE  /\ NoRows(s) \in [Cmd -> Status]
         /\ \A c \in Cmd : \/ NoRows(s)[c] = s[c]
                           \/ /\ s[c] \in InFile
                              /\ NoRows(s)[c] = "gone"
  BY DEF NoRows

\* The queued rows are commands whose status says so.
LEMMA QueuedFacts ==
  ASSUME NEW s \in [Cmd -> Status]
  PROVE  /\ Queued(s) \in SUBSET Cmd
         /\ \A c \in Cmd : c \in Queued(s) <=> s[c] = "queued"
  BY DEF Queued

-----------------------------------------------------------------------------
(* Type correctness.                                                       *)

\* The hub starts with an empty queue file and no connection.
LEMMA InitTypeOK == Init => TypeOK
  BY BoundsAssumption
  DEF Init, TypeOK, SocketState, PushState, Message, Idle

\* No handler writes a status, a batch or a connection of another type.
LEMMA NextTypeOK == TypeOK /\ [Next]_vars => TypeOK'
<1> SUFFICES ASSUME TypeOK, [Next]_vars
             PROVE  TypeOK'
  OBVIOUS
<1> USE BoundsAssumption
    DEF TypeOK, SocketState, PushState, Message, Idle, file, links
<1> DEFINE A == Active(status)
<1>a. A \in [Cmd -> Status]
  BY ActiveFacts
<1>1. CASE EnqueueCommand
  BY <1>1, <1>a DEF EnqueueCommand
<1>2. ASSUME NEW c \in Cmd, Expire(c)
      PROVE  TypeOK'
  BY <1>2 DEF Expire
<1>3. ASSUME NEW c \in Cmd, AckCommand(c)
      PROVE  TypeOK'
  BY <1>3, AckFacts DEF AckCommand
<1>4. CASE PurgeExpiredCommands
  BY <1>4, <1>a DEF PurgeExpiredCommands
<1>5. CASE ClearCommandQueue
  BY <1>5, NoRowsFacts DEF ClearCommandQueue
<1>6. CASE RegisterSpoke
  BY <1>6 DEF RegisterSpoke
<1>7. ASSUME NEW w \in Conn, SocketDrops(w) \/ UnregisterSpoke(w)
      PROVE  TypeOK'
  BY <1>7 DEF SocketDrops, UnregisterSpoke, Unregister
<1>8. ASSUME NEW p \in Push, PushPeek(p)
      PROVE  TypeOK'
  <2>1. Queued(A) \in SUBSET Cmd
    BY <1>a, QueuedFacts
  <2> QED
    BY <1>8, <1>a, <2>1 DEF PushPeek
<1>9. ASSUME NEW p \in Push, PushSend(p)
      PROVE  TypeOK'
  <2>1. push[p] \in PushState
    OBVIOUS
  <2>2. push[p].via \in Conn \cup {Http} /\ push[p].batch \in SUBSET Cmd
    BY <2>1
  <2>3. push' \in [Push -> PushState]
    BY <1>9, <2>1 DEF PushSend
  <2>4. [via |-> push[p].via, cmds |-> push[p].batch] \in Message
    BY <2>2
  <2>5. wire' \subseteq Message /\ sent' \subseteq Cmd
    BY <1>9, <2>2, <2>4 DEF PushSend
  <2> QED
    BY <1>9, <2>3, <2>5 DEF PushSend
<1>10. ASSUME NEW p \in Push, PushFails(p)
       PROVE  TypeOK'
  BY <1>10 DEF PushFails, Unregister
<1>11. ASSUME NEW p \in Push, PushMark(p)
       PROVE  TypeOK'
  <2>1. push[p].batch \in SUBSET Cmd
    OBVIOUS
  <2> QED
    BY <1>11, <1>a, <2>1, MarkFacts DEF PushMark
<1>12. CASE GetInbox
  <2>1. Queued(A) \in SUBSET Cmd
    BY <1>a, QueuedFacts
  <2>2. status' \in [Cmd -> Status]
    BY <1>12, <1>a, <2>1, MarkFacts DEF GetInbox
  <2>3. [via |-> Http, cmds |-> Queued(A)] \in Message
    BY <2>1
  <2>4. wire' \subseteq Message /\ sent' \subseteq Cmd
    BY <1>12, <2>1, <2>3 DEF GetInbox
  <2> QED
    BY <1>12, <2>2, <2>4 DEF GetInbox
<1>13. ASSUME NEW m \in wire, LoseResponse(m) \/ SpokeReceives(m)
       PROVE  TypeOK'
  BY <1>13 DEF LoseResponse, SpokeReceives
<1>14. CASE Crash
  BY <1>14 DEF Crash, Restart
<1>15. CASE CrashInWrite
  BY <1>15, NoRowsFacts DEF CrashInWrite, Restart
<1>16. ASSUME NEW p \in Push, StoreFails(p)
       PROVE  TypeOK'
  <2>1. status' \in [Cmd -> Status]
    BY <1>16, NoRowsFacts DEF StoreFails
  <2>2. failures' \in 0 .. MaxFail
    BY <1>16 DEF StoreFails
  <2>3. /\ push' \in [Push -> PushState]
        /\ socket' \in [Conn -> SocketState]
        /\ opening' \in {Offline, lastConn'}
    BY <1>16 DEF StoreFails
  <2> QED
    BY <1>16, <2>1, <2>2, <2>3 DEF StoreFails
<1>17. CASE HandlerServes
  BY <1>17 DEF HandlerServes
<1>18. CASE UNCHANGED vars
  BY <1>18 DEF vars
<1> QED
  BY <1>1, <1>2, <1>3, <1>4, <1>5, <1>6, <1>7, <1>8, <1>9, <1>10, <1>11,
     <1>12, <1>13, <1>14, <1>15, <1>16, <1>17, <1>18 DEF Next

\* Every reachable state has the types the model declares.
THEOREM TypeCorrect == Spec => []TypeOK
  BY InitTypeOK, NextTypeOK, PTL DEF Spec

-----------------------------------------------------------------------------
(* The status of a row.                                                    *)

\* The five ways a step can treat the row of a command.
RowKept(c) == status'[c] = status[c]
RowDropped(c) == status[c] \in InFile /\ status'[c] = "gone"
RowMarked(c) ==
  /\ status[c] = "queued"
  /\ status'[c] = "delivered"
  /\ c \in sent'
  /\ last' = last
RowAcked(c) ==
  /\ status[c] \in InFile
  /\ status'[c] = "executed"
  /\ status' = [status EXCEPT ![c] = "executed"]
  /\ c \in received
  /\ received' = received
RowCreated(c) ==
  /\ status[c] = "new"
  /\ c = last + 1
  /\ last' = last + 1
  /\ status'[c] = "queued"

RowStep(c) ==
  RowKept(c) \/ RowDropped(c) \/ RowMarked(c) \/ RowAcked(c) \/ RowCreated(c)

\* No step treats a row in any other way.
LEMMA RowSteps ==
  ASSUME IInv, [Next]_vars
  PROVE  \A c \in Cmd : RowStep(c)
<1> USE DEF RowStep, RowKept, RowDropped, RowMarked, RowAcked, RowCreated
<1> DEFINE A == Active(status)
<1>a. /\ status \in [Cmd -> Status]
      /\ last \in 0 .. MaxCmd
      /\ push \in [Push -> PushState]
      /\ sent \subseteq Cmd
  BY DEF IInv, TypeOK
<1>b. /\ A \in [Cmd -> Status]
      /\ \A c \in Cmd : A[c] = status[c] \/ (status[c] \in InFile /\ A[c] = "gone")
  BY <1>a, ActiveFacts
<1>1. CASE EnqueueCommand
  <2>1. last + 1 \in Cmd /\ status[last + 1] = "new"
    BY <1>1, <1>a, BoundsAssumption DEF EnqueueCommand, IInv, NewIsUnnumbered
  <2>2. status' = [A EXCEPT ![last + 1] = "queued"]
    BY <1>1 DEF EnqueueCommand
  <2>3. last' = last + 1
    BY <1>1 DEF EnqueueCommand
  <2> QED
    BY <1>a, <1>b, <2>1, <2>2, <2>3
<1>2. ASSUME NEW a \in Cmd, AckCommand(a)
      PROVE  \A c \in Cmd : RowStep(c)
  <2>1. /\ status' = [status EXCEPT ![a] = IF @ \in InFile THEN "executed" ELSE @]
        /\ a \in received
        /\ received' = received
    BY <1>2 DEF AckCommand, Acked
  <2>2. CASE status[a] \in InFile
    BY <1>a, <2>1, <2>2
  <2>3. CASE status[a] \notin InFile
    BY <1>a, <2>1, <2>3
  <2> QED
    BY <2>2, <2>3
<1>3. CASE PurgeExpiredCommands
  <2>1. status' = A
    BY <1>3 DEF PurgeExpiredCommands
  <2> QED
    BY <1>b, <2>1
<1>4. CASE ClearCommandQueue \/ CrashInWrite
  <2>1. status' = NoRows(status)
    BY <1>4 DEF ClearCommandQueue, CrashInWrite
  <2> QED
    BY <1>a, <2>1, NoRowsFacts
<1>5. ASSUME NEW p \in Push, PushPeek(p)
      PROVE  \A c \in Cmd : RowStep(c)
  <2>1. status' = A
    BY <1>5 DEF PushPeek
  <2> QED
    BY <1>b, <2>1
<1>6. ASSUME NEW p \in Push, PushMark(p)
      PROVE  \A c \in Cmd : RowStep(c)
  <2>1. push[p].batch \in SUBSET Cmd
    BY <1>a DEF PushState
  <2>2. push[p].batch \subseteq sent'
    BY <1>6 DEF PushMark, IInv, BatchesInOrder
  <2>3. status' = MarkDelivered(A, push[p].batch) /\ last' = last
    BY <1>6 DEF PushMark
  <2>4. \A c \in Cmd : \/ status'[c] = A[c]
                      \/ /\ c \in push[p].batch
                         /\ A[c] = "queued"
                         /\ status'[c] = "delivered"
    BY <2>3 DEF MarkDelivered
  <2> QED
    BY <1>b, <2>2, <2>3, <2>4
<1>7. CASE GetInbox
  <2>1. Queued(A) \in SUBSET Cmd
    BY <1>b, QueuedFacts
  <2>2. /\ status' = MarkDelivered(A, Queued(A))
        /\ Queued(A) \subseteq sent'
        /\ last' = last
    BY <1>7 DEF GetInbox
  <2>3. \A c \in Cmd : \/ status'[c] = A[c]
                      \/ /\ c \in Queued(A)
                         /\ A[c] = "queued"
                         /\ status'[c] = "delivered"
    BY <2>2 DEF MarkDelivered
  <2> QED
    BY <1>b, <2>2, <2>3
<1>8. CASE UNCHANGED status
  BY <1>8
<1>9. ASSUME NEW p \in Push, StoreFails(p)
      PROVE  \A c \in Cmd : RowStep(c)
  <2>1. status' = status \/ status' = NoRows(status)
    BY <1>9 DEF StoreFails
  <2>2. CASE status' = status
    BY <2>2
  <2>3. CASE status' = NoRows(status)
    BY <1>a, <2>3, NoRowsFacts
  <2> QED
    BY <2>1, <2>2, <2>3
<1> QED
  BY <1>1, <1>2, <1>3, <1>4, <1>5, <1>6, <1>7, <1>8, <1>9
  DEF Next, vars, file, Expire, RegisterSpoke, HandlerServes, SocketDrops,
      UnregisterSpoke, PushSend, PushFails, LoseResponse, SpokeReceives, Crash

\* Commands are numbered one after the other, and what was transmitted or
\* received stays so.
LEMMA HistorySteps ==
  ASSUME IInv, [Next]_vars
  PROVE  /\ \/ last' = last
            \/ /\ last' = last + 1
               /\ last + 1 \in Cmd
               /\ status'[last + 1] = "queued"
         /\ sent \subseteq sent'
         /\ received \subseteq received'
<1>a. last \in 0 .. MaxCmd /\ Active(status) \in [Cmd -> Status]
  BY ActiveFacts DEF IInv, TypeOK
<1>1. CASE EnqueueCommand
  <2>1. last + 1 \in Cmd
    BY <1>1, <1>a, BoundsAssumption DEF EnqueueCommand
  <2> QED
    BY <1>1, <1>a, <2>1 DEF EnqueueCommand
<1>2. CASE ~ EnqueueCommand
  BY <1>2
  DEF Next, vars, file, links, Expire, AckCommand, PurgeExpiredCommands,
      ClearCommandQueue, RegisterSpoke, HandlerServes, SocketDrops,
      UnregisterSpoke, PushPeek, PushSend, PushFails, PushMark, StoreFails,
      GetInbox, LoseResponse, SpokeReceives, Crash, CrashInWrite
<1> QED
  BY <1>1, <1>2

-----------------------------------------------------------------------------
(* The inductive invariant.                                                *)

\* The inductive invariant holds of an empty queue.
LEMMA InitIInv == Init => IInv
<1> SUFFICES ASSUME Init
             PROVE  IInv
  OBVIOUS
<1>1. TypeOK
  BY InitTypeOK
<1>2. NewIsUnnumbered
  BY BoundsAssumption DEF Init, NewIsUnnumbered
<1>3. OnlyCreatedMove /\ BatchesInOrder
  BY DEF Init, OnlyCreatedMove, BatchesInOrder, Idle
<1>4. SettledWasSent /\ ExecutedWasReceived /\ SentInOrder /\ InboxTakesOnce
  BY DEF Init, SettledWasSent, ExecutedWasReceived, SentInOrder, InboxTakesOnce
<1> QED
  BY <1>1, <1>2, <1>3, <1>4 DEF IInv

\* The part of the invariant that speaks of pushes, frames and what was sent.
Transport == OnlyCreatedMove /\ BatchesInOrder /\ SentInOrder /\ InboxTakesOnce

\* Every step keeps the part that speaks of pushes, frames and what was sent:
\* a batch is read from the rows and what left it behind is sent or gone.
LEMMA TransportSteps ==
  ASSUME IInv, [Next]_vars
  PROVE  Transport'
<1> USE DEF Transport
<1> DEFINE A == Active(status)
           Left(d) == d \in sent \/ status[d] = "gone"
<1>a. /\ status \in [Cmd -> Status]
      /\ last \in 0 .. MaxCmd
      /\ push \in [Push -> PushState]
      /\ wire \subseteq Message
      /\ sent \subseteq 1 .. last
      /\ 1 .. last \subseteq Cmd
      /\ received \subseteq sent
  BY BoundsAssumption DEF IInv, TypeOK, OnlyCreatedMove
\* What the rewrites do to rows, in the form the conjuncts need.
<1>b. /\ last \in Nat /\ last' \in Nat /\ last <= last'
      /\ sent \subseteq sent'
  BY <1>a, HistorySteps
<1>c. \A c \in Cmd : status[c] = "gone" => status'[c] = "gone"
  BY RowSteps DEF RowStep, RowKept, RowDropped, RowMarked, RowAcked, RowCreated
<1>d. \A c \in 1 .. last : status'[c] = "queued" => status[c] = "queued"
  BY <1>a, RowSteps
  DEF RowStep, RowKept, RowDropped, RowMarked, RowAcked, RowCreated
<1>1. CASE UNCHANGED <<push, wire, sent, received>>
  <2>1. OnlyCreatedMove'
    BY <1>1, <1>b DEF IInv, OnlyCreatedMove
  <2>2. BatchesInOrder'
    BY <1>1, <1>a, <1>c DEF IInv, BatchesInOrder, OnlyCreatedMove
  <2>3. SentInOrder'
    BY <1>1, <1>a, <1>c DEF IInv, SentInOrder
  <2>4. InboxTakesOnce'
    BY <1>1, <1>a, <1>d DEF IInv, InboxTakesOnce, OnlyCreatedMove
  <2> QED
    BY <2>1, <2>2, <2>3, <2>4
<1>2. ASSUME NEW p \in Push, PushPeek(p)
      PROVE  Transport'
  <2> DEFINE Q == Queued(A)
  <2>1. /\ status' = A
        /\ UNCHANGED <<last, wire, sent, received>>
        /\ push' = [push EXCEPT ![p] =
             IF Q = {} THEN Idle
             ELSE [pc |-> "sending", batch |-> Q, via |-> registered]]
    BY <1>2 DEF PushPeek, links
  <2>2. A \in [Cmd -> Status]
    BY <1>a, ActiveFacts
  <2>3. \A c \in Cmd : c \in Q <=> A[c] = "queued"
    BY <2>2, QueuedFacts
  <2>4. \A c \in Cmd : A[c] = "queued" => status[c] = "queued"
    BY DEF Active
  <2>5. Q \subseteq 1 .. last
    BY <1>a, <2>2, <2>3, <2>4, QueuedFacts DEF IInv, NewIsUnnumbered
  <2>6. \A c \in Q : \A d \in 1 .. c - 1 :
          d \in Q \/ d \in sent' \/ status'[d] = "gone"
    <3> SUFFICES ASSUME NEW c \in Q, NEW d \in 1 .. c - 1
                 PROVE  d \in Q \/ d \in sent' \/ status'[d] = "gone"
      OBVIOUS
    <3>1. d \in Cmd /\ d <= last /\ status[d] # "new"
      BY <1>a, <2>5 DEF IInv, NewIsUnnumbered
    <3>2. status[d] \in {"delivered", "executed"} => d \in sent
      BY <3>1 DEF IInv, SettledWasSent
    <3>3. A[d] = status[d] \/ A[d] = "gone"
      BY <3>1 DEF Active
    <3> QED
      BY <1>a, <2>1, <2>3, <3>1, <3>2, <3>3
  <2>7. OnlyCreatedMove'
    <3>1. registered \in Conn
      BY <1>2 DEF PushPeek, IInv, TypeOK
    <3> QED
      BY <1>a, <2>1, <2>5, <3>1 DEF IInv, OnlyCreatedMove, Idle
  <2>8. BatchesInOrder'
    <3> SUFFICES ASSUME NEW r \in Push
                 PROVE  BatchesInOrder!(r)'
      BY DEF BatchesInOrder
    <3>1. CASE r = p
      BY <1>a, <2>1, <2>6, <3>1 DEF Idle
    <3>2. CASE r # p
      <4>1. push'[r] = push[r]
        BY <1>a, <2>1, <3>2
      <4> QED
        BY <1>a, <1>c, <2>1, <4>1 DEF IInv, BatchesInOrder, OnlyCreatedMove
    <3> QED
      BY <3>1, <3>2
  <2>9. SentInOrder'
    BY <1>a, <1>c, <2>1 DEF IInv, SentInOrder
  <2>10. InboxTakesOnce'
    BY <1>a, <1>d, <2>1 DEF IInv, InboxTakesOnce, OnlyCreatedMove
  <2> QED
    BY <2>7, <2>8, <2>9, <2>10
<1>3. ASSUME NEW p \in Push, PushSend(p)
      PROVE  Transport'
  <2> DEFINE B == push[p].batch
  <2>1. /\ UNCHANGED <<status, last, received>>
        /\ push[p].pc = "sending"
        /\ push' = [push EXCEPT ![p].pc = "sent"]
        /\ sent' = sent \cup B
    BY <1>3 DEF PushSend, file
  <2>2. \A m \in wire' :
          \/ m \in wire
          \/ m = [via |-> push[p].via, cmds |-> B] /\ push[p].via # Http
    <3>1. push[p].via \in Conn /\ push[p].via # Http
      BY <1>3 DEF PushSend, IInv, OnlyCreatedMove
    <3> QED
      BY <1>3, <3>1 DEF PushSend
  <2>3. /\ B \subseteq 1 .. last
        /\ \A c \in B : \A d \in 1 .. c - 1 :
             d \in B \/ d \in sent \/ status[d] = "gone"
    BY <2>1 DEF IInv, OnlyCreatedMove, BatchesInOrder
  <2>4. \A r \in Push : /\ push'[r].batch = push[r].batch
                        /\ r # p => push'[r].pc = push[r].pc
                        /\ r = p => push'[r].pc = "sent"
    BY <1>a, <2>1 DEF PushState
  <2>5. OnlyCreatedMove'
    BY <2>1, <2>2, <2>3, <2>4 DEF IInv, OnlyCreatedMove
  <2>6. BatchesInOrder'
    BY <2>1, <2>4 DEF IInv, BatchesInOrder
  <2>7. SentInOrder'
    BY <2>1, <2>3 DEF IInv, SentInOrder
  <2>8. InboxTakesOnce'
    BY <2>1, <2>2 DEF IInv, InboxTakesOnce
  <2> QED
    BY <2>5, <2>6, <2>7, <2>8
<1>4. ASSUME NEW p \in Push, PushFails(p) \/ PushMark(p) \/ StoreFails(p)
      PROVE  Transport'
  <2>1. /\ UNCHANGED <<last, wire, sent, received>>
        /\ push' = [push EXCEPT ![p] = Idle]
    BY <1>4 DEF PushFails, PushMark, StoreFails, file, links
  <2>2. OnlyCreatedMove'
    BY <2>1 DEF IInv, OnlyCreatedMove, Idle
  <2>3. BatchesInOrder'
    BY <1>a, <1>c, <2>1 DEF IInv, BatchesInOrder, OnlyCreatedMove, Idle
  <2>4. SentInOrder'
    BY <1>a, <1>c, <2>1 DEF IInv, SentInOrder
  <2>5. InboxTakesOnce'
    BY <1>a, <1>d, <2>1 DEF IInv, InboxTakesOnce, OnlyCreatedMove
  <2> QED
    BY <2>2, <2>3, <2>4, <2>5
<1>5. CASE GetInbox
  <2> DEFINE Q == Queued(A)
  <2>1. /\ status' = MarkDelivered(A, Q)
        /\ UNCHANGED <<last, push, received>>
        /\ sent' = sent \cup Q
        /\ \A m \in wire' : m \in wire \/ m = [via |-> Http, cmds |-> Q]
    BY <1>5 DEF GetInbox, links
  <2>2. /\ Q \subseteq Cmd
        /\ \A c \in Cmd : c \in Q <=> A[c] = "queued"
    BY <1>a, ActiveFacts, QueuedFacts
  <2>3. \A c \in Cmd : /\ A[c] = status[c] \/ A[c] = "gone"
                       /\ status'[c] # "queued"
                       /\ status'[c] = A[c] \/ status'[c] = "delivered"
    BY <2>1, <2>2 DEF Active, MarkDelivered
  <2>4. Q \subseteq 1 .. last
    BY <1>a, <2>2, <2>3 DEF IInv, NewIsUnnumbered
  <2>5. \A c \in Q : \A d \in 1 .. c - 1 : d \in sent' \/ status'[d] = "gone"
    <3> SUFFICES ASSUME NEW c \in Q, NEW d \in 1 .. c - 1
                 PROVE  d \in sent' \/ status'[d] = "gone"
      OBVIOUS
    <3>1. d \in Cmd /\ d <= last /\ status[d] # "new"
      BY <1>a, <2>4 DEF IInv, NewIsUnnumbered
    <3>2. status[d] \in {"delivered", "executed"} => d \in sent
      BY <3>1 DEF IInv, SettledWasSent
    <3>3. A[d] = "gone" => status'[d] = "gone"
      BY <2>1, <3>1 DEF MarkDelivered
    <3> QED
      BY <1>a, <2>1, <2>2, <2>3, <3>1, <3>2, <3>3
  <2>a. \A m \in wire' : m \in wire \/ (m.via = Http /\ m.cmds = Q)
    BY <2>1
  <2>6. OnlyCreatedMove'
    <3>1. sent' \subseteq 1 .. last /\ received \subseteq sent'
      BY <1>a, <2>1, <2>4
    <3>2. \A m \in wire' : m.cmds \subseteq sent'
      BY <2>1, <2>a DEF IInv, OnlyCreatedMove
    <3> QED
      BY <2>1, <3>1, <3>2 DEF IInv, OnlyCreatedMove
  <2>7. BatchesInOrder'
    BY <1>a, <1>c, <2>1 DEF IInv, BatchesInOrder, OnlyCreatedMove
  <2>8. SentInOrder'
    BY <1>a, <1>c, <2>1, <2>5 DEF IInv, SentInOrder
  <2>9. InboxTakesOnce'
    BY <1>a, <2>2, <2>3, <2>a, <1>d DEF IInv, InboxTakesOnce, OnlyCreatedMove
  <2> QED
    BY <2>6, <2>7, <2>8, <2>9
\* Steps that take frames off the wire, or lose them with the processes.
<1>6. ASSUME /\ UNCHANGED <<last, sent>>
             /\ wire' \subseteq wire
             /\ received' \subseteq sent
             /\ push' = push \/ push' = [r \in Push |-> Idle]
      PROVE  Transport'
  <2>1. OnlyCreatedMove'
    BY <1>6 DEF IInv, OnlyCreatedMove, Idle
  <2>2. BatchesInOrder'
    BY <1>6, <1>a, <1>c DEF IInv, BatchesInOrder, OnlyCreatedMove, Idle
  <2>3. SentInOrder'
    BY <1>6, <1>a, <1>c DEF IInv, SentInOrder
  <2>4. InboxTakesOnce'
    BY <1>6, <1>a, <1>d DEF IInv, InboxTakesOnce, OnlyCreatedMove
  <2> QED
    BY <2>1, <2>2, <2>3, <2>4
<1>7. ASSUME NEW m \in wire, LoseResponse(m) \/ SpokeReceives(m)
      PROVE  Transport'
  <2>1. m.cmds \subseteq sent
    BY DEF IInv, OnlyCreatedMove
  <2> QED
    BY <1>6, <1>7, <1>a, <2>1 DEF LoseResponse, SpokeReceives, file
<1>8. ASSUME \/ \E w \in Conn : SocketDrops(w)
             \/ Crash
             \/ CrashInWrite
      PROVE  Transport'
  BY <1>6, <1>8, <1>a DEF SocketDrops, Crash, CrashInWrite, Restart, file
<1> QED
  BY <1>1, <1>2, <1>3, <1>4, <1>5, <1>7, <1>8
  DEF Next, vars, EnqueueCommand, Expire, AckCommand, PurgeExpiredCommands,
      ClearCommandQueue, RegisterSpoke, HandlerServes, UnregisterSpoke

\* Every step of a handler, of the spoke or of the network keeps the inductive
\* invariant.
LEMMA NextIInv == IInv /\ [Next]_vars => IInv'
<1> SUFFICES ASSUME IInv, [Next]_vars
             PROVE  IInv'
  OBVIOUS
<1> USE DEF RowStep, RowKept, RowDropped, RowMarked, RowAcked, RowCreated
<1>a. /\ status \in [Cmd -> Status]
      /\ last \in 0 .. MaxCmd
      /\ received \subseteq sent
  BY DEF IInv, TypeOK, OnlyCreatedMove
<1>1. TypeOK'
  BY NextTypeOK DEF IInv
<1>2. NewIsUnnumbered'
  BY <1>a, RowSteps, HistorySteps DEF IInv, NewIsUnnumbered
<1>3. Transport'
  BY TransportSteps
<1>4. SettledWasSent'
  BY <1>a, RowSteps, HistorySteps DEF IInv, SettledWasSent
<1>5. ExecutedWasReceived'
  BY RowSteps, HistorySteps DEF IInv, ExecutedWasReceived
<1> QED
  BY <1>1, <1>2, <1>3, <1>4, <1>5 DEF IInv, Transport

\* The inductive invariant holds in every state the hub reaches.
LEMMA Invariance == Spec => []IInv
  BY InitIInv, NextIInv, PTL DEF Spec

-----------------------------------------------------------------------------
(* The properties.                                                         *)

\* A row the hub calls delivered or executed belongs to a command it
\* transmitted, through crashes, failing sends and clears.
THEOREM MarkingFollowsSending == Spec => []SettledWasSent
<1>1. IInv => SettledWasSent
  BY DEF IInv
<1> QED
  BY <1>1, Invariance, PTL

\* A row the hub calls executed belongs to a command the spoke received.
THEOREM ExecutionFollowsReceipt == Spec => []ExecutedWasReceived
<1>1. IInv => ExecutedWasReceived
  BY DEF IInv
<1> QED
  BY <1>1, Invariance, PTL

\* Commands are first transmitted in the order of their creation, however
\* pushes and inbox polls overlap.
THEOREM FirstSendsInOrder == Spec => []SentInOrder
<1>1. IInv => SentInOrder
  BY DEF IInv
<1> QED
  BY <1>1, Invariance, PTL

\* No two inbox responses carry the same command.
THEOREM InboxAtMostOnce == Spec => []InboxTakesOnce
<1>1. IInv => InboxTakesOnce
  BY DEF IInv
<1> QED
  BY <1>1, Invariance, PTL

\* The status of a row never moves back and a row that left the file stays out.
THEOREM StatusOnlyForward == Spec => StatusForward
<1>1. IInv /\ [Next]_vars => [\A c \in Cmd : Order[status'[c]] >= Order[status[c]]]_vars
  <2> SUFFICES ASSUME IInv, [Next]_vars, NEW c \in Cmd
               PROVE  Order[status'[c]] >= Order[status[c]]
    OBVIOUS
  <2>1. status[c] \in Status
    BY DEF IInv, TypeOK
  <2> QED
    BY <2>1, RowSteps
    DEF RowStep, RowKept, RowDropped, RowMarked, RowAcked, RowCreated, Order
<1> QED
  BY <1>1, Invariance, PTL DEF Spec, StatusForward

\* The entry in spoke_connections is the newest connection and was not
\* unregistered, however the ends of several connections overlap.
THEOREM RegistryIsCurrent == Spec => []RegisteredIsNewest
<1>1. Init => RegisteredIsNewest
  BY DEF Init, RegisteredIsNewest
<1>2. TypeOK /\ RegisteredIsNewest /\ [Next]_vars => RegisteredIsNewest'
  <2> SUFFICES ASSUME TypeOK, RegisteredIsNewest, [Next]_vars
               PROVE  RegisteredIsNewest'
    OBVIOUS
  <2> USE DEF TypeOK, RegisteredIsNewest, SocketState
  <2>1. CASE UNCHANGED links
    BY <2>1 DEF links
  <2>2. CASE RegisterSpoke
    BY <2>2, BoundsAssumption DEF RegisterSpoke
  <2>3. ASSUME NEW w \in Conn, SocketDrops(w)
        PROVE  RegisteredIsNewest'
    BY <2>3 DEF SocketDrops
  <2>4. ASSUME NEW w \in Conn, UnregisterSpoke(w)
        PROVE  RegisteredIsNewest'
    BY <2>4 DEF UnregisterSpoke, Unregister
  <2>5. ASSUME NEW p \in Push, PushFails(p)
        PROVE  RegisteredIsNewest'
    BY <2>5 DEF PushFails, Unregister
  <2>6. CASE Crash \/ CrashInWrite
    BY <2>6 DEF Crash, CrashInWrite, Restart
  <2>7. CASE HandlerServes
    BY <2>7 DEF HandlerServes
  <2>8. ASSUME NEW p \in Push, StoreFails(p)
        PROVE  RegisteredIsNewest'
    BY <2>8 DEF StoreFails
  <2> QED
    BY <2>1, <2>2, <2>3, <2>4, <2>5, <2>6, <2>7, <2>8
    DEF Next, vars, file, links, EnqueueCommand, Expire, AckCommand,
        PurgeExpiredCommands, ClearCommandQueue, PushPeek, PushSend, PushMark,
        GetInbox, LoseResponse, SpokeReceives
<1> QED
  BY <1>1, <1>2, TypeCorrect, PTL DEF Spec

-----------------------------------------------------------------------------
(* The queue implements the abstract lifecycle.                            *)

\* Every step of the queue is a step of CommandLifecycle or leaves its
\* variables alone.
LEMMA LifecycleStep ==
  ASSUME IInv, [Next]_vars
  PROVE  [Lifecycle!Next]_(Lifecycle!vars)
<1> USE DEF Lifecycle!vars, Lifecycle!InFile, Lifecycle!Held, Lifecycle!Rewrite
<1> DEFINE dropped == {c \in Cmd : status[c] \in InFile /\ status'[c] = "gone"}
           delivered == {c \in Cmd : status[c] = "queued" /\ status'[c] = "delivered"}
<1>a. /\ status \in [Cmd -> Status]
      /\ status' \in [Cmd -> Status]
  BY NextTypeOK DEF IInv, TypeOK
<1>b. /\ dropped \in SUBSET Lifecycle!Held
      /\ delivered \in SUBSET {c \in Cmd : status[c] = "queued"}
  OBVIOUS
<1>c. \A c \in Cmd : RowStep(c)
  BY RowSteps
<1>1. CASE received' # received
  <2>1. PICK m \in wire : SpokeReceives(m)
    BY <1>1
    DEF Next, vars, file, links, EnqueueCommand, Expire, AckCommand,
        PurgeExpiredCommands, ClearCommandQueue, RegisterSpoke, HandlerServes,
        SocketDrops, UnregisterSpoke, PushPeek, PushSend, PushFails, PushMark,
        StoreFails, GetInbox, LoseResponse, Crash, CrashInWrite
  <2>2. /\ status' = status
        /\ received' = received \cup m.cmds
    BY <2>1 DEF SpokeReceives, file
  <2>3. m.cmds \subseteq {c \in Cmd : status[c] # "new"}
    <3> SUFFICES ASSUME NEW c \in m.cmds
                 PROVE  c \in Cmd /\ status[c] # "new"
      OBVIOUS
    <3>a. /\ sent \subseteq Cmd
          /\ sent \subseteq 1 .. last
          /\ last \in Nat
          /\ m.cmds \subseteq sent
      BY BoundsAssumption DEF IInv, TypeOK, OnlyCreatedMove
    <3>1. c \in Cmd /\ c \in 1 .. last /\ last \in Nat
      BY <3>a
    <3> QED
      BY <3>1 DEF IInv, NewIsUnnumbered
  <2>4. Lifecycle!Receive
    BY <2>2, <2>3 DEF Lifecycle!Receive
  <2> QED
    BY <2>4 DEF Lifecycle!Next
<1>2. CASE received' = received /\ \E c \in Cmd : RowAcked(c)
  <2>1. PICK c \in Cmd : RowAcked(c)
    BY <1>2
  <2>2. Lifecycle!Execute(c)
    BY <2>1 DEF RowAcked, Lifecycle!Execute
  <2> QED
    BY <2>2 DEF Lifecycle!Next
<1>3. CASE /\ received' = received
           /\ ~ \E c \in Cmd : RowAcked(c)
           /\ \E c \in Cmd : RowCreated(c)
  <2>1. PICK c \in Cmd : RowCreated(c)
    BY <1>3
  <2>2. \A d \in Cmd : d # c => RowKept(d) \/ RowDropped(d)
    BY <1>3, <1>c, <2>1 DEF RowStep, RowCreated, RowMarked, IInv, TypeOK
  <2>3. status' = [Lifecycle!Rewrite({}, dropped) EXCEPT ![c] = "queued"]
    BY <1>a, <2>1, <2>2 DEF RowKept, RowDropped, RowCreated
  <2>4. Lifecycle!Create(c)
    BY <1>3, <1>b, <2>1, <2>3 DEF Lifecycle!Create, RowCreated
  <2> QED
    BY <2>4 DEF Lifecycle!Next
<1>4. CASE /\ received' = received
           /\ ~ \E c \in Cmd : RowAcked(c)
           /\ ~ \E c \in Cmd : RowCreated(c)
  <2>1. \A d \in Cmd : RowKept(d) \/ RowDropped(d) \/ RowMarked(d)
    BY <1>4, <1>c DEF RowStep
  <2>2. status' = Lifecycle!Rewrite(delivered, dropped)
    BY <1>a, <2>1 DEF RowKept, RowDropped, RowMarked
  <2>3. Lifecycle!Settle
    BY <1>4, <1>b, <2>2 DEF Lifecycle!Settle
  <2> QED
    BY <2>3 DEF Lifecycle!Next
<1> QED
  BY <1>1, <1>2, <1>3, <1>4

\* The detailed queue is an implementation of the abstract promise.
THEOREM QueueImplementsLifecycle == Spec => ImplementsLifecycle
<1>1. Init => Lifecycle!Init
  BY DEF Init, Lifecycle!Init
<1>2. IInv /\ [Next]_vars => [Lifecycle!Next]_(Lifecycle!vars)
  BY LifecycleStep
<1> QED
  BY <1>1, <1>2, Invariance, PTL
  DEF Spec, ImplementsLifecycle, Lifecycle!Spec

=============================================================================
