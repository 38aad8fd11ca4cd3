---------------------------- MODULE SocketProofs ----------------------------
(***************************************************************************)
(* Theorems about the sockets of one spoke (SpokeLink), for every number   *)
(* of connections, requests and locks, and about the conversations relayed *)
(* over them (RelaySessions), for every number of sessions and of losses   *)
(* of the connection.                                                      *)
(***************************************************************************)
EXTENDS SpokeLink, RelaySessions, SequenceTheorems, TLAPS

-----------------------------------------------------------------------------
(* SpokeLink: types.                                                       *)

\* The state of the send of one request or handler.
SendRec == [at : {"idle", "waits", "sends"},
            socket : Socket \cup {NoSocket}, lock : Lock \cup {NoLock}]

\* A send that has begun is for a socket and under a lock; one that is past
\* the lock holds it.
SendsHold ==
  \A s \in Sender :
    /\ send[s].at # "idle" => send[s].socket \in Socket /\ send[s].lock \in Lock
    /\ send[s].at = "idle" => send[s] = NoSend
    /\ send[s].at = "sends" => holder[send[s].lock] = s

\* Nobody is registered, sent to or called the newest before it was accepted.
Accepted ==
  /\ newest # NoSocket => handler[newest] # "none"
  /\ spokeSocket # NoSocket => handler[spokeSocket] # "none"
  /\ \A s \in Sender : send[s].at # "idle" => handler[send[s].socket] # "none"

\* A registered socket has a lock, and every send on that socket is under it:
\* unregister_spoke drops the lock only together with the socket, which is
\* never registered again.
RegisteredLock ==
  spokeSocket # NoSocket =>
    /\ lockOf # NoLock
    /\ \A s \in Sender : send[s].at # "idle" /\ send[s].socket = spokeSocket
                           => send[s].lock = lockOf

\* All sends on one socket are under one lock, whatever became of it since.
OneLockPerSocket ==
  \A s, t \in Sender :
    send[s].at # "idle" /\ send[t].at # "idle" /\ send[s].socket = send[t].socket
      => send[s].lock = send[t].lock

LinkInv ==
  /\ LinkTypeOK
  /\ SendsHold
  /\ Accepted
  /\ RegisteredLock
  /\ OneLockPerSocket
  /\ NewestRegistered

\* The record of a send that has not begun is well typed.
LEMMA NoSendType == NoSend \in SendRec
  BY DEF NoSend, SendRec

\* The invariant holds at the start.
LEMMA InitLinkInv == LinkInit => LinkInv
  BY LinkAssumption, NoSendType
  DEF LinkInit, LinkInv, LinkTypeOK, SendsHold, Accepted, RegisteredLock,
      OneLockPerSocket, NewestRegistered, NoSend, SendRec

\* Every step of a handler or a sender keeps it.
LEMMA NextLinkInv == LinkInv /\ [LinkNext]_linkVars => LinkInv'
<1> SUFFICES ASSUME LinkInv, [LinkNext]_linkVars
             PROVE  LinkInv'
  OBVIOUS
<1> USE LinkAssumption DEF LinkInv
<1>1. ASSUME NEW w \in Socket, NEW l \in Lock, Accept(w, l)
      PROVE  LinkInv'
  <2>1. LinkTypeOK'
    BY <1>1 DEF Accept, SetDefault, LinkTypeOK
  <2>2. \A s \in Sender : send[s].at # "idle" => send[s].socket # w
    BY <1>1 DEF Accept, Accepted
  <2>3. SendsHold' /\ OneLockPerSocket'
    BY <1>1 DEF Accept, SendsHold, OneLockPerSocket
  <2>4. Accepted'
    BY <1>1 DEF Accept, Accepted, LinkTypeOK, SendsHold
  <2>5. RegisteredLock' /\ NewestRegistered'
    BY <1>1, <2>2 DEF Accept, SetDefault, RegisteredLock, NewestRegistered
  <2> QED
    BY <2>1, <2>3, <2>4, <2>5
<1>2. ASSUME NEW w \in Socket, FailAccepted(w)
      PROVE  LinkInv'
  BY <1>2
  DEF FailAccepted, LinkTypeOK, SendsHold, Accepted, RegisteredLock,
      OneLockPerSocket, NewestRegistered
<1>3. ASSUME NEW w \in Socket, Stick(w) \/ Break(w)
      PROVE  LinkInv'
  BY <1>3
  DEF Stick, Break, LinkTypeOK, SendsHold, Accepted, RegisteredLock,
      OneLockPerSocket, NewestRegistered
<1>4. ASSUME NEW w \in Socket, EndHandler(w)
      PROVE  LinkInv'
  BY <1>4
  DEF EndHandler, UnregisterSocket, LinkTypeOK, SendsHold, Accepted,
      RegisteredLock, OneLockPerSocket, NewestRegistered
<1>5. ASSUME NEW s \in Sender, NEW l \in Lock, BeginSend(s, l)
      PROVE  LinkInv'
  <2>1. /\ spokeSocket \in Socket
        /\ l = lockOf /\ lockOf' = lockOf
        /\ send[s].at = "idle"
        /\ send'[s].at = "waits"
        /\ send'[s].socket = spokeSocket
        /\ send'[s].lock = lockOf
        /\ \A t \in Sender \ {s} : send'[t] = send[t]
        /\ UNCHANGED <<handler, alive, stuck, newest, spokeSocket, holder>>
    BY <1>5
    DEF BeginSend, SetDefault, RegisteredLock, LinkTypeOK, NoSend, socketVars
  <2>2. LinkTypeOK'
    <3>1. [at |-> "waits", socket |-> spokeSocket, lock |-> l] \in SendRec
      BY <2>1 DEF SendRec
    <3>2. send' \in [Sender -> SendRec]
      BY <1>5, <3>1 DEF BeginSend, LinkTypeOK, SendRec
    <3> QED
      BY <2>1, <3>2 DEF LinkTypeOK, SendRec
  <2>3. SendsHold' /\ Accepted'
    BY <2>1 DEF SendsHold, Accepted
  <2>4. RegisteredLock' /\ OneLockPerSocket'
    BY <2>1 DEF RegisteredLock, OneLockPerSocket
  <2>5. NewestRegistered'
    BY <2>1 DEF NewestRegistered
  <2> QED
    BY <2>2, <2>3, <2>4, <2>5
<1>6. ASSUME NEW s \in Sender, TakeLock(s)
      PROVE  LinkInv'
  <2>1. /\ send[s].at = "waits"
        /\ send'[s].at = "sends"
        /\ send'[s].socket = send[s].socket
        /\ send'[s].lock = send[s].lock
        /\ \A t \in Sender \ {s} : send'[t] = send[t]
        /\ UNCHANGED <<handler, alive, stuck, newest, spokeSocket, lockOf>>
    BY <1>6 DEF TakeLock, socketVars, LinkTypeOK
  <2>2. LinkTypeOK'
    <3>1. send \in [Sender -> SendRec]
      BY DEF LinkTypeOK, SendRec
    <3>2. send' \in [Sender -> SendRec]
      BY <1>6, <3>1 DEF TakeLock, SendRec
    <3>3. holder' \in [Lock -> Sender \cup {Unheld}]
      BY <1>6 DEF TakeLock, LinkTypeOK
    <3> QED
      BY <2>1, <3>2, <3>3 DEF LinkTypeOK, SendRec
  <2>3. SendsHold'
    <3>1. send[s].lock \in Lock /\ send[s].socket \in Socket
      BY <2>1 DEF SendsHold
    <3>2. /\ holder[send[s].lock] = Unheld
          /\ holder' = [holder EXCEPT ![send[s].lock] = s]
      BY <1>6 DEF TakeLock
    <3>3. \A t \in Sender : t # Unheld
      BY DEF Sender
    <3>4. /\ holder'[send[s].lock] = s
          /\ \A k \in Lock : k # send[s].lock => holder'[k] = holder[k]
      BY <3>1, <3>2 DEF LinkTypeOK
    <3>5. ASSUME NEW t \in Sender \ {s}, send[t].at = "sends"
          PROVE  holder'[send[t].lock] = t
      <4>1. send[t].lock \in Lock /\ holder[send[t].lock] = t
        BY <3>5 DEF SendsHold
      <4> QED
        BY <3>2, <3>3, <3>4, <4>1
    <3> SUFFICES ASSUME NEW t \in Sender
                 PROVE  /\ send'[t].at # "idle"
                             => send'[t].socket \in Socket /\ send'[t].lock \in Lock
                        /\ send'[t].at = "idle" => send'[t] = NoSend
                        /\ send'[t].at = "sends" => holder'[send'[t].lock] = t
      BY DEF SendsHold
    <3>6. CASE t = s
      BY <2>1, <3>1, <3>4, <3>6
    <3>7. CASE t # s
      BY <2>1, <3>5, <3>7 DEF SendsHold
    <3> QED
      BY <3>6, <3>7
  <2>4. Accepted' /\ RegisteredLock' /\ OneLockPerSocket'
    BY <2>1 DEF Accepted, RegisteredLock, OneLockPerSocket
  <2> QED
    BY <2>1, <2>2, <2>3, <2>4 DEF NewestRegistered
<1>7. ASSUME NEW s \in Sender, Sent(s) \/ NotSent(s)
      PROVE  LinkInv'
  <2>1. /\ send[s].at = "sends"
        /\ send'[s] = NoSend
        /\ \A t \in Sender \ {s} : send'[t] = send[t]
        /\ holder' = [holder EXCEPT ![send[s].lock] = Unheld]
        /\ UNCHANGED socketVars
    BY <1>7 DEF Sent, NotSent, EndSend, LinkTypeOK
  <2>2. \/ UNCHANGED <<spokeSocket, lockOf>>
        \/ /\ send[s].socket \notin alive
           /\ spokeSocket = send[s].socket
           /\ spokeSocket' = NoSocket /\ lockOf' = NoLock
    BY <1>7 DEF Sent, NotSent, UnregisterSocket
  <2>3. LinkTypeOK'
    <3>1. send' \in [Sender -> SendRec]
      BY <1>7, NoSendType
      DEF Sent, NotSent, EndSend, LinkTypeOK, SendRec
    <3> QED
      BY <2>1, <2>2, <3>1 DEF LinkTypeOK, SendRec, socketVars
  <2>4. SendsHold'
    BY <2>1 DEF SendsHold, NoSend, LinkTypeOK
  <2>5. Accepted' /\ RegisteredLock' /\ OneLockPerSocket'
    BY <2>1, <2>2
    DEF Accepted, RegisteredLock, OneLockPerSocket, NoSend, socketVars
  <2>6. NewestRegistered'
    BY <2>1, <2>2 DEF NewestRegistered, socketVars
  <2> QED
    BY <2>3, <2>4, <2>5, <2>6
<1>8. CASE UNCHANGED linkVars
  BY <1>8
  DEF linkVars, LinkTypeOK, SendsHold, Accepted, RegisteredLock,
      OneLockPerSocket, NewestRegistered
<1> QED
  BY <1>1, <1>2, <1>3, <1>4, <1>5, <1>6, <1>7, <1>8 DEF LinkNext

\* Sends, registration and the locks keep to their types and to each other,
\* however sockets are replaced, stick and break.
THEOREM LinkInvCorrect == LinkSpec => []LinkInv
<1>1. LinkInit => LinkInv
  BY InitLinkInv
<1>2. LinkInv /\ [LinkNext]_linkVars => LinkInv'
  BY NextLinkInv
<1> QED
  BY <1>1, <1>2, PTL DEF LinkSpec

\* Two sends never write to one socket at a time, and the spoke's newest
\* socket stays registered while it is open and served: for any number of
\* connections, requests and locks.
THEOREM LinkSoundCorrect == LinkSpec => []LinkSound
<1>1. LinkInv => LinkSound
  BY DEF LinkInv, LinkSound, OneAtATime, SendsHold, OneLockPerSocket
<1> QED
  BY <1>1, LinkInvCorrect, PTL

-----------------------------------------------------------------------------
(* RelaySessions: messages in order.                                       *)

\* r is q with a message appended, of s and saying w.
Appended(q, r, s, w) ==
  /\ Len(r) = Len(q) + 1
  /\ \A i \in 1 .. Len(q) : r[i] = q[i]
  /\ r[Len(r)].of = s /\ r[Len(r)].what = w

\* r is q without its first message.
Shifted(q, r) ==
  /\ Len(q) = Len(r) + 1
  /\ \A i \in 1 .. Len(r) : r[i] = q[i + 1]

\* Appending a message.
LEMMA AppendFacts ==
  ASSUME NEW q \in Seq(Mail), NEW s \in Session,
         NEW w \in {"start", "end", "started", "failed", "ended"}
  PROVE  /\ Msg(s, w) \in Mail
         /\ Append(q, Msg(s, w)) \in Seq(Mail)
         /\ Appended(q, Append(q, Msg(s, w)), s, w)
<1>1. Msg(s, w) \in Mail /\ Msg(s, w).of = s /\ Msg(s, w).what = w
  BY DEF Msg, Mail
<1> QED
  BY <1>1, AppendProperties DEF Appended

\* Taking the first message.
LEMMA TailFacts ==
  ASSUME NEW q \in Seq(Mail), q # <<>>
  PROVE  /\ Head(q) \in Mail /\ Head(q) = q[1]
         /\ Tail(q) \in Seq(Mail)
         /\ Shifted(q, Tail(q))
  BY HeadTailProperties, EmptySeq DEF Shifted

\* A sequence of messages has a length, and messages in it.
LEMMA MailSeq ==
  ASSUME NEW q \in Seq(Mail)
  PROVE  /\ Len(q) \in Nat
         /\ q # <<>> <=> Len(q) > 0
         /\ \A i \in 1 .. Len(q) :
              /\ q[i] \in Mail /\ q[i].of \in Session
              /\ q[i].what \in {"start", "end", "started", "failed", "ended"}
<1>1. Len(q) \in Nat
  BY LenProperties
<1>2. q # <<>> <=> Len(q) > 0
  BY <1>1, EmptySeq
<1>3. \A i \in 1 .. Len(q) : q[i] \in Mail
  BY ElementOfSeq
<1> QED
  BY <1>1, <1>2, <1>3 DEF Mail

-----------------------------------------------------------------------------
(* RelaySessions: the invariant of a session the connection was not lost   *)
(* in.                                                                     *)

IsMsg(m, s, w) == m.of = s /\ m.what = w

\* Of a session that has not begun there is nothing anywhere.
Quiet(s) ==
  side[s] = "none" =>
    /\ remote[s] = "none" /\ queue[s] = <<>>
    /\ \A i \in 1 .. Len(toSpoke) : toSpoke[i].of # s
    /\ \A i \in 1 .. Len(toHub) : toHub[i].of # s

\* While the hub asks or relays the spoke is connected; it relays only what
\* the spoke has started.
Underway(s) ==
  /\ side[s] \in {"asks", "ready", "relays"} => linked
  /\ side[s] \in {"ready", "relays"} => remote[s] # "none"
  /\ side[s] = "ready" => kind[s] = "console"
  /\ s \in attached => kind[s] = "console" /\ side[s] \in {"relays", "over"}

\* The spoke writes of a session it was asked for; anything but "started"
\* says that nothing is open there any more.
MailOf(s) ==
  /\ \A i \in 1 .. Len(toHub) : toHub[i].of = s =>
       /\ remote[s] # "none"
       /\ toHub[i].what # "started" => remote[s] = "closed"
  /\ \A i \in 1 .. Len(queue[s]) :
       /\ remote[s] # "none"
       /\ queue[s][i].what # "started" => remote[s] = "closed"

\* "started" is the first message of a session, and is read once.
StartedOnce(s) ==
  /\ \A i \in 1 .. Len(queue[s]) :
       queue[s][i].what = "started" => i = 1 /\ side[s] = "asks"
  /\ \A i \in 1 .. Len(toHub) :
       /\ IsMsg(toHub[i], s, "started")
       /\ side[s] \in {"asks", "ready", "relays"}
       => /\ side[s] = "asks" /\ queue[s] = <<>>
          /\ \A j \in 1 .. (i - 1) : toHub[j].of # s

\* The spoke is asked to start once, and told to end after that.
Ordered(s) ==
  \A i \in 1 .. Len(toSpoke) :
    /\ IsMsg(toSpoke[i], s, "start") =>
         /\ remote[s] = "none"
         /\ \A j \in 1 .. Len(toSpoke) : IsMsg(toSpoke[j], s, "start") => i = j
    /\ IsMsg(toSpoke[i], s, "end") =>
         /\ side[s] = "over"
         /\ \A j \in 1 .. Len(toSpoke) : IsMsg(toSpoke[j], s, "start") => j < i

\* Whatever is open at the spoke, or will be, when the hub is done with an
\* attached console is told to end.
Opens(s) == remote[s] = "open"
            \/ \E i \in 1 .. Len(toSpoke) : IsMsg(toSpoke[i], s, "start")
CalledOff(s) ==
  side[s] = "over" /\ s \in attached /\ Opens(s) =>
    \E i \in 1 .. Len(toSpoke) : IsMsg(toSpoke[i], s, "end")

\* What the spoke wrote of the end of a shell that the hub has not given up is
\* on its way, or has come.
Heard(s) ==
  kind[s] = "shell" /\ side[s] \in {"asks", "relays"} /\ remote[s] = "closed" =>
    \/ \E i \in 1 .. Len(toHub) : toHub[i].of = s /\ toHub[i].what # "started"
    \/ \E i \in 1 .. Len(queue[s]) : queue[s][i].what # "started"

Unbroken(s) ==
  /\ Quiet(s)
  /\ Underway(s)
  /\ MailOf(s)
  /\ StartedOnce(s)
  /\ Ordered(s)
  /\ CalledOff(s)
  /\ Heard(s)

SessionInv == SessionTypeOK /\ \A s \in Session \ broken : Unbroken(s)

\* The messages of s in r are those in q, in order: those in q moved up by d.
SameBut(q, r, s) ==
  \E d \in {0, 1} :
    /\ \A i \in 1 .. Len(r) :
         r[i].of = s => (i + d) \in 1 .. Len(q) /\ r[i] = q[i + d]
    /\ \A i \in 1 .. Len(q) :
         q[i].of = s => (i - d) \in 1 .. Len(r) /\ r[i - d] = q[i]

\* Nothing of the session's own changes.
Untouched(s) ==
  /\ side'[s] = side[s] /\ queue'[s] = queue[s] /\ remote'[s] = remote[s]
  /\ s \in attached' <=> s \in attached
  /\ linked' = linked

\* So it is when nothing is sent, when another session's message is sent, and
\* when another session's message is read.
LEMMA SameButFacts ==
  ASSUME NEW q \in Seq(Mail), NEW s \in Session, NEW r \in Seq(Mail),
         \/ r = q
         \/ \E u \in Session \ {s}, w \in {"start", "end", "started", "failed", "ended"} :
              Appended(q, r, u, w)
         \/ q # <<>> /\ Shifted(q, r) /\ q[1].of # s
  PROVE  SameBut(q, r, s)
<1>1. Len(q) \in Nat /\ Len(r) \in Nat /\ (q # <<>> => Len(q) > 0)
  BY MailSeq
<1>2. CASE r = q
  BY <1>1, <1>2 DEF SameBut
<1>3. CASE \E u \in Session \ {s}, w \in {"start", "end", "started", "failed", "ended"} :
             Appended(q, r, u, w)
  <2>1. /\ \A i \in 1 .. Len(r) :
             r[i].of = s => (i + 0) \in 1 .. Len(q) /\ r[i] = q[i + 0]
        /\ \A i \in 1 .. Len(q) :
             q[i].of = s => (i - 0) \in 1 .. Len(r) /\ r[i - 0] = q[i]
    BY <1>1, <1>3 DEF Appended
  <2> QED
    BY <2>1 DEF SameBut
<1>4. CASE q # <<>> /\ Shifted(q, r) /\ q[1].of # s
  <2>1. /\ \A i \in 1 .. Len(r) :
             r[i].of = s => (i + 1) \in 1 .. Len(q) /\ r[i] = q[i + 1]
        /\ \A i \in 1 .. Len(q) :
             q[i].of = s => (i - 1) \in 1 .. Len(r) /\ r[i - 1] = q[i]
    BY <1>1, <1>4 DEF Shifted
  <2> QED
    BY <2>1 DEF SameBut
<1> QED
  BY <1>2, <1>3, <1>4

\* Messages of other sessions come and go without disturbing a session.
LEMMA Frame ==
  ASSUME SessionTypeOK, SessionTypeOK', NEW s \in Session,
         Unbroken(s), Untouched(s),
         SameBut(toSpoke, toSpoke', s), SameBut(toHub, toHub', s)
  PROVE  Unbroken(s)'
<1> USE DEF Untouched, Unbroken
<1>1. /\ Len(toSpoke) \in Nat /\ Len(toSpoke') \in Nat
      /\ Len(toHub) \in Nat /\ Len(toHub') \in Nat
      /\ Len(queue[s]) \in Nat
  BY MailSeq DEF SessionTypeOK
<1>2. PICK d \in {0, 1} :
        /\ \A i \in 1 .. Len(toSpoke') :
             toSpoke'[i].of = s =>
               (i + d) \in 1 .. Len(toSpoke) /\ toSpoke'[i] = toSpoke[i + d]
        /\ \A i \in 1 .. Len(toSpoke) :
             toSpoke[i].of = s =>
               (i - d) \in 1 .. Len(toSpoke') /\ toSpoke'[i - d] = toSpoke[i]
  BY DEF SameBut
<1>3. PICK e \in {0, 1} :
        /\ \A i \in 1 .. Len(toHub') :
             toHub'[i].of = s =>
               (i + e) \in 1 .. Len(toHub) /\ toHub'[i] = toHub[i + e]
        /\ \A i \in 1 .. Len(toHub) :
             toHub[i].of = s =>
               (i - e) \in 1 .. Len(toHub') /\ toHub'[i - e] = toHub[i]
  BY DEF SameBut
<1>4. Quiet(s)'
  <2> SUFFICES ASSUME side[s] = "none"
               PROVE  /\ remote[s] = "none" /\ queue[s] = <<>>
                      /\ \A i \in 1 .. Len(toSpoke') : toSpoke'[i].of # s
                      /\ \A i \in 1 .. Len(toHub') : toHub'[i].of # s
    BY DEF Quiet
  <2>1. \A i \in 1 .. Len(toSpoke) : toSpoke[i].of # s
    BY DEF Quiet
  <2>2. \A i \in 1 .. Len(toHub) : toHub[i].of # s
    BY DEF Quiet
  <2>3. \A i \in 1 .. Len(toSpoke') : toSpoke'[i].of # s
    BY <1>2, <2>1
  <2>4. \A i \in 1 .. Len(toHub') : toHub'[i].of # s
    BY <1>3, <2>2
  <2> QED
    BY <2>3, <2>4 DEF Quiet
<1>5. Underway(s)'
  BY DEF Underway
<1>6. MailOf(s)'
  BY <1>1, <1>3 DEF MailOf
<1>7. StartedOnce(s)'
  <2>1. ASSUME NEW i \in 1 .. Len(toHub'),
               IsMsg(toHub'[i], s, "started"),
               side[s] \in {"asks", "ready", "relays"}
        PROVE  /\ side[s] = "asks" /\ queue[s] = <<>>
               /\ \A j \in 1 .. (i - 1) : toHub'[j].of # s
    <3>1. /\ (i + e) \in 1 .. Len(toHub)
          /\ IsMsg(toHub[i + e], s, "started")
      BY <1>3, <2>1 DEF IsMsg
    <3>2. /\ side[s] = "asks" /\ queue[s] = <<>>
          /\ \A j \in 1 .. (i + e - 1) : toHub[j].of # s
      BY <2>1, <3>1 DEF StartedOnce
    <3>3. ASSUME NEW j \in 1 .. (i - 1), toHub'[j].of = s
          PROVE  FALSE
      <4>1. j \in 1 .. Len(toHub')
        BY <1>1
      <4>2. toHub[j + e].of = s /\ (j + e) \in 1 .. (i + e - 1)
        BY <1>1, <1>3, <3>3, <4>1
      <4> QED
        BY <3>2, <4>2
    <3> QED
      BY <3>2, <3>3
  <2> QED
    BY <2>1 DEF StartedOnce
<1>8. Ordered(s)'
  <2> SUFFICES ASSUME NEW i \in 1 .. Len(toSpoke')
               PROVE  /\ IsMsg(toSpoke'[i], s, "start") =>
                           /\ remote[s] = "none"
                           /\ \A j \in 1 .. Len(toSpoke') :
                                IsMsg(toSpoke'[j], s, "start") => i = j
                      /\ IsMsg(toSpoke'[i], s, "end") =>
                           /\ side[s] = "over"
                           /\ \A j \in 1 .. Len(toSpoke') :
                                IsMsg(toSpoke'[j], s, "start") => j < i
    BY DEF Ordered
  <2>1. \A j \in 1 .. Len(toSpoke'), w \in {"start", "end"} :
          IsMsg(toSpoke'[j], s, w) =>
            (j + d) \in 1 .. Len(toSpoke) /\ IsMsg(toSpoke[j + d], s, w)
    BY <1>2 DEF IsMsg
  <2>2. CASE IsMsg(toSpoke'[i], s, "start")
    <3>1. remote[s] = "none"
      BY <2>1, <2>2 DEF Ordered
    <3>2. ASSUME NEW j \in 1 .. Len(toSpoke'), IsMsg(toSpoke'[j], s, "start")
          PROVE  i = j
      <4>1. i + d = j + d
        BY <2>1, <2>2, <3>2 DEF Ordered
      <4> QED
        BY <4>1, <1>1
    <3> QED
      BY <2>2, <3>1, <3>2 DEF IsMsg
  <2>3. CASE IsMsg(toSpoke'[i], s, "end")
    <3>1. side[s] = "over"
      BY <2>1, <2>3 DEF Ordered
    <3>2. ASSUME NEW j \in 1 .. Len(toSpoke'), IsMsg(toSpoke'[j], s, "start")
          PROVE  j < i
      <4>1. j + d < i + d
        BY <2>1, <2>3, <3>2 DEF Ordered
      <4> QED
        BY <4>1, <1>1
    <3> QED
      BY <2>3, <3>1, <3>2 DEF IsMsg
  <2> QED
    BY <2>2, <2>3
<1>9. CalledOff(s)'
  BY <1>1, <1>2 DEF CalledOff, Opens, IsMsg
<1>10. Heard(s)'
  <2>1. CASE \E i \in 1 .. Len(toHub) : toHub[i].of = s /\ toHub[i].what # "started"
    BY <1>3, <2>1 DEF Heard
  <2>2. CASE ~\E i \in 1 .. Len(toHub) : toHub[i].of = s /\ toHub[i].what # "started"
    BY <2>2 DEF Heard
  <2> QED
    BY <2>1, <2>2
<1> QED
  BY <1>4, <1>5, <1>6, <1>7, <1>8, <1>9, <1>10

-----------------------------------------------------------------------------
(* RelaySessions: types.                                                   *)

\* At the start no conversation has begun.
LEMMA InitSessionInv == SessionInit => SessionInv
<1> SUFFICES ASSUME SessionInit
             PROVE  SessionInv
  OBVIOUS
<1>1. SessionTypeOK
  BY SessionAssumption, EmptySeq DEF SessionInit, SessionTypeOK, Side
<1>2. ASSUME NEW s \in Session
      PROVE  Unbroken(s)
  BY EmptySeq
  DEF SessionInit, Unbroken, Quiet, Underway, MailOf, StartedOnce, Ordered,
      CalledOff, Opens, Heard
<1> QED
  BY <1>1, <1>2 DEF SessionInv

\* What is sent to the spoke goes to the end of the line, if it is connected.
LEMMA SendType ==
  ASSUME SessionTypeOK, NEW s \in Session, NEW w \in {"start", "end"},
         Send(s, w)
  PROVE  /\ toSpoke' \in Seq(Mail)
         /\ linked => Appended(toSpoke, toSpoke', s, w)
         /\ ~linked => toSpoke' = toSpoke
  BY AppendFacts DEF Send, SessionTypeOK

\* A session's turn keeps the types.
LEMMA TurnsType ==
  ASSUME SessionTypeOK, NEW s \in Session, NEW to \in Side, Turns(s, to)
  PROVE  /\ side' \in [Session -> Side] /\ queue' \in [Session -> Seq(Mail)]
         /\ side'[s] = to /\ queue'[s] = <<>>
         /\ \A u \in Session \ {s} : side'[u] = side[u] /\ queue'[u] = queue[u]
  BY EmptySeq DEF Turns, SessionTypeOK

\* No step of the hub or the spoke leaves the types.
LEMMA NextSessionTypeOK ==
  SessionTypeOK /\ [SessionNext]_sessionVars => SessionTypeOK'
<1> SUFFICES ASSUME SessionTypeOK, [SessionNext]_sessionVars
             PROVE  SessionTypeOK'
  OBVIOUS
<1> USE SessionAssumption
<1>1. ASSUME NEW s \in Session, Ask(s)
      PROVE  SessionTypeOK'
  BY <1>1, SendType, TurnsType
  DEF Ask, SessionTypeOK, Side, historyOfSessions
<1>2. ASSUME NEW s \in Session, Answered(s)
      PROVE  SessionTypeOK'
  <2>1. CASE Turns(s, "ready") \/ Turns(s, "over")
    BY <1>2, <2>1, TurnsType
    DEF Answered, SessionTypeOK, Side, historyOfSessions
  <2>2. CASE /\ side' = [side EXCEPT ![s] = "relays"]
             /\ queue' = [queue EXCEPT ![s] = Tail(@)]
    BY <1>2, <2>2, TailFacts
    DEF Answered, SessionTypeOK, Side, historyOfSessions
  <2> QED
    BY <1>2, <2>1, <2>2 DEF Answered
<1>3. ASSUME NEW s \in Session, GiveUpWaiting(s)
      PROVE  SessionTypeOK'
  BY <1>3, TurnsType
  DEF GiveUpWaiting, SessionTypeOK, Side, historyOfSessions
<1>4. ASSUME NEW s \in Session, Attach(s)
      PROVE  SessionTypeOK'
  BY <1>4, TurnsType DEF Attach, SessionTypeOK, Side
<1>5. ASSUME NEW s \in Session, ExpireConsole(s)
      PROVE  SessionTypeOK'
  BY <1>5, TurnsType DEF ExpireConsole, SessionTypeOK, Side, historyOfSessions
<1>6. ASSUME NEW s \in Session, BrowserLeaves(s)
      PROVE  SessionTypeOK'
  BY <1>6, SendType, TurnsType
  DEF BrowserLeaves, SessionTypeOK, Side, historyOfSessions
<1>7. ASSUME NEW s \in Session, SpokeEnded(s)
      PROVE  SessionTypeOK'
  BY <1>7, SendType, TurnsType
  DEF SpokeEnded, SessionTypeOK, Side, historyOfSessions
<1>8. ASSUME NEW s \in Session, NEW ok \in BOOLEAN, SpokeStarts(s, ok)
      PROVE  SessionTypeOK'
  BY <1>8, TailFacts, AppendFacts
  DEF SpokeStarts, SessionTypeOK, historyOfSessions
<1>9. ASSUME NEW s \in Session, SpokeIsTold(s)
       PROVE  SessionTypeOK'
  BY <1>9, TailFacts DEF SpokeIsTold, SessionTypeOK, historyOfSessions
<1>10. ASSUME NEW s \in Session, SpokeEnds(s)
       PROVE  SessionTypeOK'
  BY <1>10, AppendFacts DEF SpokeEnds, SessionTypeOK, historyOfSessions
<1>11. CASE Route
  <2>1. /\ Head(toHub) \in Mail /\ Tail(toHub) \in Seq(Mail)
        /\ Head(toHub).of \in Session
    BY <1>11, TailFacts DEF Route, SessionTypeOK, Mail
  <2>2. queue' \in [Session -> Seq(Mail)]
    BY <1>11, <2>1, AppendProperties DEF Route, SessionTypeOK
  <2> QED
    BY <1>11, <2>1, <2>2 DEF Route, SessionTypeOK, historyOfSessions
<1>12. CASE LoseLink
  <2>1. <<>> \in Seq(Mail)
    BY EmptySeq
  <2>2. drops' \in 0 .. MaxDrop
    BY <1>12 DEF LoseLink, SessionTypeOK
  <2>3. broken' \subseteq Session
    BY <1>12 DEF LoseLink, SessionTypeOK
  <2> QED
    BY <1>12, <2>1, <2>2, <2>3 DEF LoseLink, SessionTypeOK
<1>13. CASE RestoreLink
  BY <1>13 DEF RestoreLink, SessionTypeOK, historyOfSessions
<1>14. CASE UNCHANGED sessionVars
  BY <1>14 DEF sessionVars, SessionTypeOK
<1> QED
  BY <1>1, <1>2, <1>3, <1>4, <1>5, <1>6, <1>7, <1>8, <1>9, <1>10, <1>11,
     <1>12, <1>13, <1>14
  DEF SessionNext

-----------------------------------------------------------------------------
(* RelaySessions: every step keeps the invariant.                          *)

\* At most a message of s came or went.
OnlyOf(q, r, s) ==
  \/ r = q
  \/ \E w \in {"start", "end", "started", "failed", "ended"} : Appended(q, r, s, w)
  \/ q # <<>> /\ Shifted(q, r) /\ q[1].of = s

\* At most session s was touched.
OnlySession(s) ==
  /\ broken' = broken /\ linked' = linked
  /\ \A u \in Session \ {s} :
       /\ side'[u] = side[u] /\ queue'[u] = queue[u] /\ remote'[u] = remote[u]
       /\ u \in attached' <=> u \in attached
  /\ OnlyOf(toSpoke, toSpoke', s)
  /\ OnlyOf(toHub, toHub', s)

\* Then the other sessions are as they should be, and only s is left to see to.
LEMMA OneSession ==
  ASSUME SessionInv, SessionTypeOK', NEW s \in Session, OnlySession(s),
         s \notin broken => Unbroken(s)'
  PROVE  SessionInv'
<1>1. ASSUME NEW u \in Session \ {s}, u \notin broken
      PROVE  Unbroken(u)'
  <2>1. SameBut(toSpoke, toSpoke', u)
    BY SameButFacts DEF OnlySession, OnlyOf, SessionInv, SessionTypeOK
  <2>2. SameBut(toHub, toHub', u)
    BY SameButFacts DEF OnlySession, OnlyOf, SessionInv, SessionTypeOK
  <2>3. Untouched(u) /\ Unbroken(u)
    BY <1>1 DEF OnlySession, Untouched, SessionInv
  <2> QED
    BY <1>1, <2>1, <2>2, <2>3, Frame DEF SessionInv
<1> QED
  BY <1>1 DEF SessionInv, OnlySession

\* A session that is over when nothing of it is open, or is about to open, at
\* the spoke, or when its end has been sent.
LEMMA TurnsOver ==
  ASSUME SessionTypeOK, SessionTypeOK', NEW s \in Session, Unbroken(s),
         side'[s] = "over", queue'[s] = <<>>, linked,
         remote' = remote, toHub' = toHub, attached' = attached,
         Appended(toSpoke, toSpoke', s, "end")
           \/ (toSpoke' = toSpoke /\ (~Opens(s) \/ s \notin attached))
  PROVE  Unbroken(s)'
<1>1. /\ Len(toSpoke) \in Nat /\ Len(toSpoke') \in Nat
      /\ Len(toHub) \in Nat /\ Len(queue'[s]) = 0
  BY MailSeq, EmptySeq DEF SessionTypeOK
<1>2. Quiet(s)' /\ Underway(s)' /\ StartedOnce(s)' /\ Heard(s)'
  BY <1>1 DEF Unbroken, Quiet, Underway, StartedOnce, Heard
<1>3. MailOf(s)'
  BY <1>1 DEF Unbroken, MailOf
<1>4. CASE Appended(toSpoke, toSpoke', s, "end")
  <2>1. Ordered(s)'
    BY <1>1, <1>4 DEF Unbroken, Ordered, Appended, IsMsg
  <2>2. Len(toSpoke') \in 1 .. Len(toSpoke')
    BY <1>1, <1>4 DEF Appended
  <2>3. CalledOff(s)'
    BY <1>4, <2>2 DEF CalledOff, Appended, IsMsg
  <2> QED
    BY <1>2, <1>3, <2>1, <2>3 DEF Unbroken
<1>5. CASE toSpoke' = toSpoke /\ (~Opens(s) \/ s \notin attached)
  <2>1. Ordered(s)'
    BY <1>1, <1>5 DEF Unbroken, Ordered, IsMsg
  <2>2. CalledOff(s)'
    BY <1>5 DEF CalledOff, Opens, IsMsg
  <2> QED
    BY <1>2, <1>3, <2>1, <2>2 DEF Unbroken
<1> QED
  BY <1>4, <1>5

\* Once something came for a session, nothing of it is left to start.
LEMMA StartedNotPending ==
  ASSUME SessionTypeOK, NEW s \in Session, Unbroken(s), remote[s] # "none"
  PROVE  \A i \in 1 .. Len(toSpoke) : ~IsMsg(toSpoke[i], s, "start")
  BY DEF Unbroken, Ordered

\* Every step keeps SessionInv.
LEMMA NextSessionInv ==
  SessionInv /\ [SessionNext]_sessionVars => SessionInv'
<1> SUFFICES ASSUME SessionInv, [SessionNext]_sessionVars
             PROVE  SessionInv'
  OBVIOUS
<1>a. SessionTypeOK /\ SessionTypeOK'
  BY NextSessionTypeOK DEF SessionInv
<1>b. /\ Len(toSpoke) \in Nat /\ Len(toSpoke') \in Nat
      /\ Len(toHub) \in Nat /\ Len(toHub') \in Nat
      /\ toSpoke \in Seq(Mail) /\ toHub \in Seq(Mail)
  BY <1>a, MailSeq DEF SessionTypeOK
<1>c. ASSUME NEW s \in Session, s \notin broken
      PROVE  Unbroken(s)
  BY <1>c DEF SessionInv
<1>1. ASSUME NEW s \in Session, Ask(s)
      PROVE  SessionInv'
  <2>1. /\ side[s] = "none"
        /\ IF linked THEN Turns(s, "asks") /\ Send(s, "start")
                     ELSE Turns(s, "over") /\ UNCHANGED toSpoke
        /\ UNCHANGED <<remote, toHub, linked, broken, attached>>
    BY <1>1 DEF Ask, historyOfSessions
  <2>2. /\ side'[s] = IF linked THEN "asks" ELSE "over"
        /\ queue'[s] = <<>> /\ Len(queue'[s]) = 0
        /\ \A u \in Session \ {s} : side'[u] = side[u] /\ queue'[u] = queue[u]
    BY <1>a, <2>1, TurnsType, EmptySeq DEF Side
  <2>3. /\ linked => Appended(toSpoke, toSpoke', s, "start")
        /\ ~linked => toSpoke' = toSpoke
    BY <1>a, <2>1, SendType
  <2>4. OnlySession(s)
    BY <2>1, <2>2, <2>3 DEF OnlySession, OnlyOf
  <2>5. ASSUME s \notin broken
        PROVE  Unbroken(s)'
    <3>1. /\ remote[s] = "none" /\ s \notin attached
          /\ \A i \in 1 .. Len(toSpoke) : toSpoke[i].of # s
          /\ \A i \in 1 .. Len(toHub) : toHub[i].of # s
      BY <1>c, <2>1, <2>5 DEF Unbroken, Quiet, Underway
    <3>2. Quiet(s)' /\ Underway(s)' /\ MailOf(s)' /\ StartedOnce(s)'
      BY <2>1, <2>2, <3>1 DEF Quiet, Underway, MailOf, StartedOnce, IsMsg
    <3>3. Ordered(s)'
      BY <1>b, <2>1, <2>3, <3>1 DEF Ordered, Appended, IsMsg
    <3>4. CalledOff(s)' /\ Heard(s)'
      BY <2>1, <2>2, <2>3, <3>1 DEF CalledOff, Opens, IsMsg, Heard
    <3> QED
      BY <3>2, <3>3, <3>4 DEF Unbroken
  <2> QED
    BY <1>a, <2>4, <2>5, OneSession
<1>2. ASSUME NEW s \in Session, Answered(s)
      PROVE  SessionInv'
  <2>1. /\ side[s] = "asks" /\ queue[s] # <<>>
        /\ UNCHANGED <<remote, toSpoke, toHub, linked, broken, attached>>
    BY <1>2 DEF Answered, historyOfSessions
  <2>2. /\ Len(queue[s]) \in Nat \ {0} /\ Head(queue[s]) = queue[s][1]
        /\ queue[s][1].what \in {"start", "end", "started", "failed", "ended"}
    BY <1>a, <2>1, TailFacts, MailSeq DEF SessionTypeOK
  <2>3. CASE Turns(s, "over")
    <3>1. /\ side'[s] = "over" /\ queue'[s] = <<>>
          /\ \A u \in Session \ {s} : side'[u] = side[u] /\ queue'[u] = queue[u]
      BY <1>a, <2>3, TurnsType DEF Side
    <3>2. OnlySession(s)
      BY <2>1, <3>1 DEF OnlySession, OnlyOf
    <3>3. ASSUME s \notin broken
          PROVE  Unbroken(s)'
      <4>1. linked /\ s \notin attached
        BY <1>c, <2>1, <3>3 DEF Unbroken, Underway
      <4> QED
        BY <1>a, <1>c, <2>1, <3>1, <3>3, <4>1, TurnsOver
    <3> QED
      BY <1>a, <3>2, <3>3, OneSession
  <2>4. CASE Turns(s, "ready") /\ kind[s] = "console"
    <3>1. /\ side'[s] = "ready" /\ queue'[s] = <<>> /\ Len(queue'[s]) = 0
          /\ \A u \in Session \ {s} : side'[u] = side[u] /\ queue'[u] = queue[u]
      BY <1>a, <2>4, TurnsType, EmptySeq DEF Side
    <3>2. OnlySession(s)
      BY <2>1, <3>1 DEF OnlySession, OnlyOf
    <3>3. ASSUME s \notin broken
          PROVE  Unbroken(s)'
      <4>1. linked /\ s \notin attached /\ remote[s] # "none"
        BY <1>c, <2>1, <2>2, <3>3 DEF Unbroken, Underway, MailOf
      <4>2. Quiet(s)' /\ Underway(s)' /\ CalledOff(s)' /\ Heard(s)'
        BY <2>1, <2>4, <3>1, <4>1 DEF Quiet, Underway, CalledOff, Heard
      <4>3. MailOf(s)' /\ StartedOnce(s)' /\ Ordered(s)'
        BY <1>c, <2>1, <3>1, <3>3
        DEF Unbroken, MailOf, StartedOnce, Ordered, IsMsg
      <4> QED
        BY <4>2, <4>3 DEF Unbroken
    <3> QED
      BY <1>a, <3>2, <3>3, OneSession
  <2>5. CASE /\ side' = [side EXCEPT ![s] = "relays"]
             /\ queue' = [queue EXCEPT ![s] = Tail(@)]
    <3>1. /\ side'[s] = "relays" /\ queue'[s] = Tail(queue[s])
          /\ \A u \in Session \ {s} : side'[u] = side[u] /\ queue'[u] = queue[u]
      BY <1>a, <2>5 DEF SessionTypeOK
    <3>2. Shifted(queue[s], queue'[s]) /\ Len(queue'[s]) \in Nat
      BY <1>a, <2>1, <3>1, TailFacts, MailSeq DEF SessionTypeOK
    <3>3. OnlySession(s)
      BY <2>1, <3>1 DEF OnlySession, OnlyOf
    <3>4. ASSUME s \notin broken
          PROVE  Unbroken(s)'
      <4>1. linked /\ remote[s] # "none" /\ s \notin attached
        BY <1>c, <2>1, <2>2, <3>4 DEF Unbroken, Underway, MailOf
      <4>2. Quiet(s)' /\ CalledOff(s)'
        BY <3>1 DEF Quiet, CalledOff
      <4>a. Underway(s)'
        BY <2>1, <3>1, <4>1 DEF Underway
      <4>3. MailOf(s)'
        <5>1. MailOf(s)
          BY <1>c, <3>4 DEF Unbroken
        <5>2. ASSUME NEW i \in 1 .. Len(queue'[s])
              PROVE  /\ remote[s] # "none"
                     /\ queue'[s][i].what # "started" => remote[s] = "closed"
          <6>1. (i + 1) \in 1 .. Len(queue[s]) /\ queue'[s][i] = queue[s][i + 1]
            BY <2>2, <3>2 DEF Shifted
          <6> QED
            BY <5>1, <6>1 DEF MailOf
        <5> QED
          BY <2>1, <5>1, <5>2 DEF MailOf
      <4>4. StartedOnce(s)'
        <5>1. \A i \in 1 .. Len(queue'[s]) : queue'[s][i].what # "started"
          <6>1. \A i \in 1 .. Len(queue[s]) :
                  queue[s][i].what = "started" => i = 1
            BY <1>c, <3>4 DEF Unbroken, StartedOnce
          <6>2. ASSUME NEW i \in 1 .. Len(queue'[s])
                PROVE  /\ (i + 1) \in 1 .. Len(queue[s]) /\ i + 1 # 1
                       /\ queue'[s][i] = queue[s][i + 1]
            BY <2>2, <3>2 DEF Shifted
          <6> QED
            BY <6>1, <6>2
        <5>2. \A i \in 1 .. Len(toHub) : ~IsMsg(toHub[i], s, "started")
          BY <1>b, <1>c, <2>1, <3>4 DEF Unbroken, StartedOnce
        <5> QED
          BY <2>1, <5>1, <5>2 DEF StartedOnce
      <4>5. Ordered(s)'
        BY <1>c, <2>1, <3>4 , <4>1 DEF Unbroken, Ordered, IsMsg
      <4>6. Heard(s)'
        <5>1. queue[s][1].what = "started"
          BY <1>2, <2>2, <1>a, <3>1 DEF Answered, Turns, SessionTypeOK
        <5>2. ASSUME NEW i \in 1 .. Len(queue[s]), queue[s][i].what # "started"
              PROVE  \E k \in 1 .. Len(queue'[s]) : queue'[s][k].what # "started"
          <6>1. i # 1
            BY <5>1, <5>2
          <6>2. (i - 1) \in 1 .. Len(queue'[s]) /\ queue'[s][i - 1] = queue[s][i]
            BY <2>2, <3>2, <6>1 DEF Shifted
          <6> QED
            BY <5>2, <6>2
        <5> QED
          BY <1>c, <2>1, <3>4, <5>2 DEF Unbroken, Heard
      <4> QED
        BY <4>2, <4>a, <4>3, <4>4, <4>5, <4>6 DEF Unbroken
    <3> QED
      BY <1>a, <3>3, <3>4, OneSession
  <2> QED
    BY <1>2, <2>3, <2>4, <2>5, SessionAssumption DEF Answered
<1>3. ASSUME NEW s \in Session, GiveUpWaiting(s)
      PROVE  SessionInv'
  <2>1. /\ side[s] = "asks" /\ Turns(s, "over")
        /\ UNCHANGED <<remote, toSpoke, toHub, linked, broken, attached>>
    BY <1>3 DEF GiveUpWaiting, historyOfSessions
  <2>2. /\ side'[s] = "over" /\ queue'[s] = <<>>
        /\ \A u \in Session \ {s} : side'[u] = side[u] /\ queue'[u] = queue[u]
    BY <1>a, <2>1, TurnsType DEF Side
  <2>3. OnlySession(s)
    BY <2>1, <2>2 DEF OnlySession, OnlyOf
  <2>4. ASSUME s \notin broken
        PROVE  Unbroken(s)'
    <3>1. linked /\ s \notin attached
      BY <1>c, <2>1, <2>4 DEF Unbroken, Underway
    <3> QED
      BY <1>a, <1>c, <2>1, <2>2, <2>4, <3>1, TurnsOver
  <2> QED
    BY <1>a, <2>3, <2>4, OneSession
<1>4. ASSUME NEW s \in Session, Attach(s)
      PROVE  SessionInv'
  <2>1. /\ side[s] = "ready" /\ Turns(s, "relays")
        /\ attached' = attached \cup {s}
        /\ UNCHANGED <<remote, toSpoke, toHub, linked, broken>>
    BY <1>4 DEF Attach
  <2>2. /\ side'[s] = "relays" /\ queue'[s] = <<>> /\ Len(queue'[s]) = 0
        /\ \A u \in Session \ {s} : side'[u] = side[u] /\ queue'[u] = queue[u]
    BY <1>a, <2>1, TurnsType, EmptySeq DEF Side
  <2>3. OnlySession(s)
    BY <2>1, <2>2 DEF OnlySession, OnlyOf
  <2>4. ASSUME s \notin broken
        PROVE  Unbroken(s)'
    <3>1. Quiet(s)' /\ Underway(s)' /\ CalledOff(s)' /\ Heard(s)'
      BY <1>c, <2>1, <2>2, <2>4
      DEF Unbroken, Quiet, Underway, CalledOff, Heard
    <3>2. MailOf(s)' /\ StartedOnce(s)' /\ Ordered(s)'
      BY <1>c, <2>1, <2>2, <2>4
      DEF Unbroken, MailOf, StartedOnce, Ordered, IsMsg
    <3> QED
      BY <3>1, <3>2 DEF Unbroken
  <2> QED
    BY <1>a, <2>3, <2>4, OneSession
<1>5. ASSUME NEW s \in Session, ExpireConsole(s)
      PROVE  SessionInv'
  <2>1. /\ side[s] = "ready" /\ Turns(s, "over")
        /\ UNCHANGED <<remote, toSpoke, toHub, linked, broken, attached>>
    BY <1>5 DEF ExpireConsole, historyOfSessions
  <2>2. /\ side'[s] = "over" /\ queue'[s] = <<>>
        /\ \A u \in Session \ {s} : side'[u] = side[u] /\ queue'[u] = queue[u]
    BY <1>a, <2>1, TurnsType DEF Side
  <2>3. OnlySession(s)
    BY <2>1, <2>2 DEF OnlySession, OnlyOf
  <2>4. ASSUME s \notin broken
        PROVE  Unbroken(s)'
    <3>1. linked /\ s \notin attached
      BY <1>c, <2>1, <2>4 DEF Unbroken, Underway
    <3> QED
      BY <1>a, <1>c, <2>1, <2>2, <2>4, <3>1, TurnsOver
  <2> QED
    BY <1>a, <2>3, <2>4, OneSession
<1>6. ASSUME NEW s \in Session, BrowserLeaves(s)
      PROVE  SessionInv'
  <2>1. /\ side[s] = "relays" /\ Turns(s, "over")
        /\ IF kind[s] = "console" THEN Send(s, "end") ELSE UNCHANGED toSpoke
        /\ UNCHANGED <<remote, toHub, linked, broken, attached>>
    BY <1>6 DEF BrowserLeaves, historyOfSessions
  <2>2. /\ side'[s] = "over" /\ queue'[s] = <<>>
        /\ \A u \in Session \ {s} : side'[u] = side[u] /\ queue'[u] = queue[u]
    BY <1>a, <2>1, TurnsType DEF Side
  <2>3. /\ kind[s] = "console" /\ linked => Appended(toSpoke, toSpoke', s, "end")
        /\ kind[s] # "console" \/ ~linked => toSpoke' = toSpoke
    BY <1>a, <2>1, SendType
  <2>4. OnlySession(s)
    BY <2>1, <2>2, <2>3 DEF OnlySession, OnlyOf
  <2>5. ASSUME s \notin broken
        PROVE  Unbroken(s)'
    <3>1. linked
      BY <1>c, <2>1, <2>5 DEF Unbroken, Underway
    <3>2. s \in attached => kind[s] = "console"
      BY <1>c, <2>1, <2>5 DEF Unbroken, Underway
    <3> QED
      BY <1>a, <1>c, <2>1, <2>2, <2>3, <2>5, <3>1, <3>2, TurnsOver
  <2> QED
    BY <1>a, <2>4, <2>5, OneSession
<1>7. ASSUME NEW s \in Session, SpokeEnded(s)
      PROVE  SessionInv'
  <2>1. /\ side[s] = "relays" /\ queue[s] # <<>> /\ Turns(s, "over")
        /\ IF kind[s] = "console" THEN Send(s, "end") ELSE UNCHANGED toSpoke
        /\ UNCHANGED <<remote, toHub, linked, broken, attached>>
    BY <1>7 DEF SpokeEnded, historyOfSessions
  <2>2. /\ side'[s] = "over" /\ queue'[s] = <<>>
        /\ \A u \in Session \ {s} : side'[u] = side[u] /\ queue'[u] = queue[u]
    BY <1>a, <2>1, TurnsType DEF Side
  <2>3. /\ kind[s] = "console" /\ linked => Appended(toSpoke, toSpoke', s, "end")
        /\ kind[s] # "console" \/ ~linked => toSpoke' = toSpoke
    BY <1>a, <2>1, SendType
  <2>4. OnlySession(s)
    BY <2>1, <2>2, <2>3 DEF OnlySession, OnlyOf
  <2>5. ASSUME s \notin broken
        PROVE  Unbroken(s)'
    <3>1. linked
      BY <1>c, <2>1, <2>5 DEF Unbroken, Underway
    <3>2. Len(queue[s]) \in Nat \ {0}
      BY <1>a, <2>1, MailSeq DEF SessionTypeOK
    <3>3. queue[s][1].what # "started"
      BY <1>c, <2>1, <2>5, <3>2 DEF Unbroken, StartedOnce
    <3>4. remote[s] = "closed"
      BY <1>c, <2>5, <3>2, <3>3 DEF Unbroken, MailOf
    <3>5. ~Opens(s)
      BY <1>a, <1>c, <2>5, <3>4, StartedNotPending DEF Opens
    <3> QED
      BY <1>a, <1>c, <2>1, <2>2, <2>3, <2>5, <3>1, <3>5, TurnsOver
  <2> QED
    BY <1>a, <2>4, <2>5, OneSession
<1>8. ASSUME NEW s \in Session, NEW ok \in BOOLEAN, SpokeStarts(s, ok)
      PROVE  SessionInv'
  <2>1. PICK w \in {"started", "failed"} :
          /\ toSpoke # <<>> /\ toSpoke[1].of = s /\ toSpoke[1].what = "start"
          /\ Len(toSpoke) > 0 /\ Shifted(toSpoke, toSpoke')
          /\ remote' = [remote EXCEPT ![s] = IF ok THEN "open" ELSE "closed"]
          /\ w = IF ok THEN "started" ELSE "failed"
          /\ Appended(toHub, toHub', s, w)
          /\ UNCHANGED <<side, queue, linked, broken, attached>>
    <3>1. /\ toSpoke # <<>> /\ Head(toSpoke) = Msg(s, "start")
          /\ toSpoke' = Tail(toSpoke)
          /\ toHub' = Append(toHub, Msg(s, IF ok THEN "started" ELSE "failed"))
      BY <1>8 DEF SpokeStarts
    <3>2. /\ toSpoke[1] = Msg(s, "start") /\ Shifted(toSpoke, toSpoke')
          /\ Len(toSpoke) > 0
      BY <1>b, <3>1, TailFacts, MailSeq
    <3>3. Appended(toHub, toHub', s, IF ok THEN "started" ELSE "failed")
      BY <1>b, <3>1, AppendFacts
    <3> QED
      BY <1>8, <3>1, <3>2, <3>3 DEF SpokeStarts, Msg, historyOfSessions
  <2>2. /\ remote'[s] = IF ok THEN "open" ELSE "closed"
        /\ \A u \in Session \ {s} : remote'[u] = remote[u]
    BY <1>a, <2>1 DEF SessionTypeOK
  <2>3. OnlySession(s)
    BY <2>1, <2>2 DEF OnlySession, OnlyOf
  <2>4. ASSUME s \notin broken
        PROVE  Unbroken(s)'
    <3>1. 1 \in 1 .. Len(toSpoke) /\ IsMsg(toSpoke[1], s, "start")
      BY <1>b, <2>1 DEF IsMsg
    <3>2. /\ remote[s] = "none" /\ side[s] # "none"
          /\ \A j \in 1 .. Len(toSpoke) : IsMsg(toSpoke[j], s, "start") => j = 1
      BY <1>c, <2>1, <2>4, <3>1 DEF Unbroken, Ordered, Quiet
    <3>3. /\ \A i \in 1 .. Len(toHub) : toHub[i].of # s
          /\ \A i \in 1 .. Len(queue[s]) : FALSE
          /\ queue[s] = <<>>
      <4>1. /\ \A i \in 1 .. Len(toHub) : toHub[i].of # s
            /\ \A i \in 1 .. Len(queue[s]) : FALSE
        BY <1>c, <2>4, <3>2 DEF Unbroken, MailOf
      <4>2. Len(queue[s]) \in Nat /\ (queue[s] # <<>> => Len(queue[s]) > 0)
        BY <1>a, MailSeq DEF SessionTypeOK
      <4> QED
        BY <4>1, <4>2
    <3>4. ASSUME NEW i \in 1 .. Len(toSpoke')
          PROVE  ~IsMsg(toSpoke'[i], s, "start")
      <4>1. /\ (i + 1) \in 1 .. Len(toSpoke) /\ i + 1 # 1
            /\ toSpoke'[i] = toSpoke[i + 1]
        BY <1>b, <2>1 DEF Shifted
      <4> QED
        BY <3>2, <4>1
    <3>5. Quiet(s)' /\ Underway(s)'
      BY <1>c, <2>1, <2>2, <2>4, <3>2 DEF Unbroken, Quiet, Underway
    <3>6. MailOf(s)'
      BY <1>b, <2>1, <2>2, <3>3 DEF MailOf, Appended
    <3>7. StartedOnce(s)'
      <4>1. side[s] \in {"ready", "relays"} => FALSE
        BY <1>c, <2>4, <3>2 DEF Unbroken, Underway
      <4> QED
        BY <1>b, <2>1, <3>3, <4>1 DEF StartedOnce, Appended, IsMsg
    <3>8. ASSUME NEW i \in 1 .. Len(toSpoke'), IsMsg(toSpoke'[i], s, "end")
          PROVE  side[s] = "over"
      <4>1. (i + 1) \in 1 .. Len(toSpoke) /\ IsMsg(toSpoke[i + 1], s, "end")
        BY <1>b, <2>1, <3>8 DEF Shifted
      <4> QED
        BY <1>c, <2>4, <4>1 DEF Unbroken, Ordered
    <3>9. Ordered(s)'
      BY <2>1, <3>4, <3>8 DEF Ordered
    <3>10. CalledOff(s)'
      <4> SUFFICES ASSUME side[s] = "over", s \in attached
                   PROVE  \E i \in 1 .. Len(toSpoke') : IsMsg(toSpoke'[i], s, "end")
        BY <2>1 DEF CalledOff
      <4>1. Opens(s)
        BY <3>1 DEF Opens
      <4>2. PICK i \in 1 .. Len(toSpoke) : IsMsg(toSpoke[i], s, "end")
        BY <1>c, <2>4, <4>1 DEF Unbroken, CalledOff
      <4>3. i # 1
        BY <3>1, <4>2 DEF IsMsg
      <4>4. (i - 1) \in 1 .. Len(toSpoke') /\ toSpoke'[i - 1] = toSpoke[i]
        BY <1>b, <2>1, <4>3 DEF Shifted
      <4> QED
        BY <4>2, <4>4
    <3>11. Heard(s)'
      <4> SUFFICES ASSUME remote'[s] = "closed"
                   PROVE  \E i \in 1 .. Len(toHub') :
                            toHub'[i].of = s /\ toHub'[i].what # "started"
        BY DEF Heard
      <4>1. Len(toHub') \in 1 .. Len(toHub')
        BY <1>b, <2>1 DEF Appended
      <4> QED
        BY <2>1, <2>2, <4>1 DEF Appended
    <3> QED
      BY <3>5, <3>6, <3>7, <3>9, <3>10, <3>11 DEF Unbroken
  <2> QED
    BY <1>a, <2>3, <2>4, OneSession
<1>9. ASSUME NEW s \in Session, SpokeIsTold(s)
       PROVE  SessionInv'
  <2>1. /\ toSpoke # <<>> /\ toSpoke[1].of = s /\ toSpoke[1].what = "end"
        /\ Len(toSpoke) > 0 /\ Shifted(toSpoke, toSpoke')
        /\ remote' = [remote EXCEPT ![s] = "closed"]
        /\ UNCHANGED <<side, queue, toHub, linked, broken, attached>>
    <3>1. /\ toSpoke # <<>> /\ Head(toSpoke) = Msg(s, "end")
          /\ toSpoke' = Tail(toSpoke)
      BY <1>9 DEF SpokeIsTold
    <3>2. /\ toSpoke[1] = Msg(s, "end") /\ Shifted(toSpoke, toSpoke')
          /\ Len(toSpoke) > 0
      BY <1>b, <3>1, TailFacts, MailSeq
    <3> QED
      BY <1>9, <3>1, <3>2 DEF SpokeIsTold, Msg, historyOfSessions
  <2>2. /\ remote'[s] = "closed"
        /\ \A u \in Session \ {s} : remote'[u] = remote[u]
    BY <1>a, <2>1 DEF SessionTypeOK
  <2>3. OnlySession(s)
    BY <2>1, <2>2 DEF OnlySession, OnlyOf
  <2>4. ASSUME s \notin broken
        PROVE  Unbroken(s)'
    <3>1. 1 \in 1 .. Len(toSpoke) /\ IsMsg(toSpoke[1], s, "end")
      BY <1>b, <2>1 DEF IsMsg
    <3>2. /\ side[s] = "over"
          /\ \A j \in 1 .. Len(toSpoke) : ~IsMsg(toSpoke[j], s, "start")
      BY <1>b, <1>c, <2>4, <3>1 DEF Unbroken, Ordered
    <3>3. \A i \in 1 .. Len(toSpoke') : ~IsMsg(toSpoke'[i], s, "start")
      BY <1>b, <2>1, <3>2 DEF Shifted
    <3>4. Quiet(s)' /\ Underway(s)' /\ StartedOnce(s)'
      BY <1>c, <2>1, <2>2, <2>4, <3>2 DEF Unbroken, Quiet, Underway, StartedOnce
    <3>5. MailOf(s)'
      BY <2>1, <2>2 DEF MailOf
    <3>6. Ordered(s)'
      BY <2>1, <3>2, <3>3 DEF Ordered
    <3>7. CalledOff(s)' /\ Heard(s)'
      BY <2>1, <2>2, <3>2, <3>3 DEF CalledOff, Opens, Heard
    <3> QED
      BY <3>4, <3>5, <3>6, <3>7 DEF Unbroken
  <2> QED
    BY <1>a, <2>3, <2>4, OneSession
<1>10. ASSUME NEW s \in Session, SpokeEnds(s)
       PROVE  SessionInv'
  <2>1. /\ remote[s] = "open"
        /\ remote' = [remote EXCEPT ![s] = "closed"]
        /\ Appended(toHub, toHub', s, "ended")
        /\ UNCHANGED <<side, queue, toSpoke, linked, broken, attached>>
    BY <1>b, <1>10, AppendFacts DEF SpokeEnds, historyOfSessions
  <2>2. /\ remote'[s] = "closed"
        /\ \A u \in Session \ {s} : remote'[u] = remote[u]
    BY <1>a, <2>1 DEF SessionTypeOK
  <2>3. OnlySession(s)
    BY <2>1, <2>2 DEF OnlySession, OnlyOf
  <2>4. ASSUME s \notin broken
        PROVE  Unbroken(s)'
    <3>1. \A i \in 1 .. Len(toSpoke) : ~IsMsg(toSpoke[i], s, "start")
      BY <1>a, <1>c, <2>1, <2>4, StartedNotPending
    <3>2. Quiet(s)' /\ Underway(s)'
      BY <1>c, <2>1, <2>2, <2>4 DEF Unbroken, Quiet, Underway
    <3>3. MailOf(s)'
      BY <2>1, <2>2 DEF MailOf
    <3>4. StartedOnce(s)'
      <4>1. \A i \in 1 .. Len(toHub') :
              IsMsg(toHub'[i], s, "started")
                => i \in 1 .. Len(toHub) /\ IsMsg(toHub[i], s, "started")
        BY <1>b, <2>1 DEF Appended, IsMsg
      <4>2. \A i \in 1 .. Len(toHub) : toHub'[i] = toHub[i]
        BY <2>1 DEF Appended
      <4>3. ASSUME NEW i \in 1 .. Len(toHub'),
                   IsMsg(toHub'[i], s, "started"),
                   side[s] \in {"asks", "ready", "relays"}
            PROVE  /\ side[s] = "asks" /\ queue[s] = <<>>
                   /\ \A j \in 1 .. (i - 1) : toHub'[j].of # s
        <5>1. /\ side[s] = "asks" /\ queue[s] = <<>>
              /\ \A j \in 1 .. (i - 1) : toHub[j].of # s
          BY <1>c, <2>4, <4>1, <4>3 DEF Unbroken, StartedOnce
        <5>2. i \in 1 .. Len(toHub)
          BY <4>1, <4>3
        <5> QED
          BY <1>b, <4>2, <5>1, <5>2
      <4> QED
        BY <1>c, <2>1, <2>4, <4>3 DEF Unbroken, StartedOnce
    <3>5. Ordered(s)'
      BY <1>c, <2>1, <2>4, <3>1 DEF Unbroken, Ordered
    <3>6. CalledOff(s)'
      BY <2>1, <2>2, <3>1 DEF CalledOff, Opens
    <3>7. Heard(s)'
      <4>1. Len(toHub') \in 1 .. Len(toHub')
        BY <1>b, <2>1 DEF Appended
      <4> QED
        BY <2>1, <4>1 DEF Heard, Appended
    <3> QED
      BY <3>2, <3>3, <3>4, <3>5, <3>6, <3>7 DEF Unbroken
  <2> QED
    BY <1>a, <2>3, <2>4, OneSession
<1>11. CASE Route
  <2>1. /\ toHub # <<>> /\ toHub' = Tail(toHub)
        /\ UNCHANGED <<side, remote, toSpoke, linked, broken, attached>>
    BY <1>11 DEF Route, historyOfSessions
  <2>2. PICK m \in Mail, s \in Session :
          /\ m = Head(toHub) /\ s = m.of
          /\ m = toHub[1] /\ Len(toHub) > 0
          /\ Shifted(toHub, toHub')
    BY <1>b, <2>1, TailFacts, MailSeq DEF Mail
  <2>3. /\ \A u \in Session \ {s} : queue'[u] = queue[u]
        /\ queue[s] \in Seq(Mail)
        /\ queue'[s] = IF Registered(s) THEN Append(queue[s], m) ELSE queue[s]
    BY <1>a, <1>11, <2>2 DEF Route, SessionTypeOK
  <2>4. OnlySession(s)
    BY <2>1, <2>2, <2>3 DEF OnlySession, OnlyOf
  <2>5. ASSUME s \notin broken
        PROVE  Unbroken(s)'
    <3> DEFINE q == queue[s]
               r == queue'[s]
    <3>1. /\ Len(q) \in Nat /\ (q # <<>> => Len(q) > 0)
          /\ 1 \in 1 .. Len(toHub) /\ toHub[1].of = s
      BY <1>b, <2>2, <2>3, MailSeq
    <3>2. \/ r = q
          \/ /\ side[s] \in {"asks", "relays"} /\ Len(r) = Len(q) + 1
             /\ r[Len(r)] = m
             /\ \A i \in 1 .. Len(q) : r[i] = q[i]
      BY <2>2, <2>3, AppendProperties DEF Registered
    <3>3. /\ side[s] # "none" /\ remote[s] # "none"
          /\ m.what # "started" => remote[s] = "closed"
      BY <1>c, <2>2, <2>5, <3>1 DEF Unbroken, Quiet, MailOf
    <3>4. m.what = "started" /\ side[s] \in {"asks", "relays"}
            => side[s] = "asks" /\ q = <<>> /\ Len(q) = 0
      BY <1>c, <2>2, <2>5, <3>1, EmptySeq DEF Unbroken, StartedOnce, IsMsg
    <3>5. Quiet(s)' /\ Underway(s)'
      BY <1>c, <2>1, <2>5, <3>3 DEF Unbroken, Quiet, Underway
    <3>6. MailOf(s)'
      <4>1. ASSUME NEW i \in 1 .. Len(toHub'), toHub'[i].of = s
            PROVE  /\ remote[s] # "none"
                   /\ toHub'[i].what # "started" => remote[s] = "closed"
        <5>1. (i + 1) \in 1 .. Len(toHub) /\ toHub'[i] = toHub[i + 1]
          BY <1>b, <2>2 DEF Shifted
        <5> QED
          BY <1>c, <2>5, <4>1, <5>1 DEF Unbroken, MailOf
      <4>2. ASSUME NEW i \in 1 .. Len(r)
            PROVE  /\ remote[s] # "none"
                   /\ r[i].what # "started" => remote[s] = "closed"
        <5>1. CASE i \in 1 .. Len(q) /\ r[i] = q[i]
          BY <1>c, <2>5, <5>1 DEF Unbroken, MailOf
        <5>2. CASE r[i] = m
          BY <3>3, <5>2
        <5> QED
          BY <3>1, <3>2, <5>1, <5>2
      <4> QED
        BY <2>1, <4>1, <4>2 DEF MailOf
    <3>7. StartedOnce(s)'
      <4>1. ASSUME NEW i \in 1 .. Len(r), r[i].what = "started"
            PROVE  i = 1 /\ side[s] = "asks"
        <5>1. CASE i \in 1 .. Len(q) /\ r[i] = q[i]
          <6>1. \A k \in 1 .. Len(q) :
                  q[k].what = "started" => k = 1 /\ side[s] = "asks"
            BY <1>c, <2>5 DEF Unbroken, StartedOnce
          <6> QED
            BY <4>1, <5>1, <6>1
        <5>2. CASE r # q /\ r[i] = m /\ i = Len(r)
          <6>1. m.what = "started"
            BY <4>1, <5>2
          <6>2. side[s] \in {"asks", "relays"} /\ Len(r) = Len(q) + 1
            BY <3>2, <5>2
          <6>3. side[s] = "asks" /\ Len(q) = 0
            BY <3>4, <6>1, <6>2
          <6> QED
            BY <5>2, <6>2, <6>3
        <5> QED
          BY <3>1, <3>2, <5>1, <5>2
      <4>2. ASSUME NEW i \in 1 .. Len(toHub'),
                   IsMsg(toHub'[i], s, "started"),
                   side[s] \in {"asks", "ready", "relays"}
            PROVE  FALSE
        <5>1. /\ (i + 1) \in 1 .. Len(toHub) /\ 1 \in 1 .. (i + 1 - 1)
              /\ IsMsg(toHub[i + 1], s, "started")
          BY <1>b, <2>2, <4>2 DEF Shifted, IsMsg
        <5>2. \A j \in 1 .. (i + 1 - 1) : toHub[j].of # s
          BY <1>c, <2>5, <4>2, <5>1 DEF Unbroken, StartedOnce
        <5> QED
          BY <3>1, <5>1, <5>2
      <4> QED
        BY <2>1, <4>1, <4>2 DEF StartedOnce
    <3>8. Ordered(s)' /\ CalledOff(s)'
      BY <1>c, <2>1, <2>5 DEF Unbroken, Ordered, CalledOff, Opens
    <3>9. Heard(s)'
      <4> SUFFICES ASSUME kind[s] = "shell", side[s] \in {"asks", "relays"},
                          remote[s] = "closed"
                   PROVE  \/ \E i \in 1 .. Len(toHub') :
                               toHub'[i].of = s /\ toHub'[i].what # "started"
                          \/ \E i \in 1 .. Len(r) : r[i].what # "started"
        BY <2>1 DEF Heard
      <4>1. /\ Len(r) = Len(q) + 1 /\ r[Len(r)] = m
            /\ \A i \in 1 .. Len(q) : r[i] = q[i]
        BY <2>3, <2>2, <1>a, AppendProperties DEF Registered
      <4>2. CASE \E i \in 1 .. Len(q) : q[i].what # "started"
        BY <3>1, <4>1, <4>2
      <4>3. ASSUME NEW i \in 1 .. Len(toHub), toHub[i].of = s, toHub[i].what # "started"
            PROVE  \/ \E k \in 1 .. Len(toHub') :
                        toHub'[k].of = s /\ toHub'[k].what # "started"
                   \/ \E k \in 1 .. Len(r) : r[k].what # "started"
        <5>1. CASE i = 1
          <6>1. Len(r) \in 1 .. Len(r) /\ r[Len(r)].what # "started"
            BY <2>2, <3>1, <4>1, <4>3, <5>1
          <6> QED
            BY <6>1
        <5>2. CASE i # 1
          <6>1. (i - 1) \in 1 .. Len(toHub') /\ toHub'[i - 1] = toHub[i]
            BY <1>b, <2>2, <5>2 DEF Shifted
          <6> QED
            BY <4>3, <6>1
        <5> QED
          BY <5>1, <5>2
      <4>4. \/ \E i \in 1 .. Len(toHub) : toHub[i].of = s /\ toHub[i].what # "started"
            \/ \E i \in 1 .. Len(q) : q[i].what # "started"
        BY <1>c, <2>5 DEF Unbroken, Heard
      <4> QED
        BY <4>2, <4>3, <4>4
    <3> QED
      BY <3>5, <3>6, <3>7, <3>8, <3>9 DEF Unbroken
  <2> QED
    BY <1>a, <2>2, <2>4, <2>5, OneSession
<1>12. CASE LoseLink
  <2>1. /\ toSpoke' = <<>> /\ toHub' = <<>>
        /\ broken' = broken \cup {s \in Session : side[s] # "none"}
        /\ UNCHANGED <<side, queue, remote, attached>>
    BY <1>12 DEF LoseLink
  <2>2. Len(toSpoke') = 0 /\ Len(toHub') = 0
    BY <2>1, EmptySeq
  <2>3. ASSUME NEW s \in Session, s \notin broken'
        PROVE  Unbroken(s)'
    <3>1. side[s] = "none" /\ s \notin broken
      BY <2>1, <2>3
    <3>2. remote[s] = "none" /\ queue[s] = <<>> /\ Len(queue[s]) = 0
      BY <1>c, <3>1, EmptySeq DEF Unbroken, Quiet
    <3>3. Underway(s)'
      BY <1>c, <2>1, <3>1 DEF Unbroken, Underway
    <3>4. /\ Quiet(s)' /\ MailOf(s)' /\ StartedOnce(s)' /\ Ordered(s)' /\ CalledOff(s)'
          /\ Heard(s)'
      BY <2>1, <2>2, <3>1, <3>2 DEF Quiet, MailOf, StartedOnce, Ordered, CalledOff, Heard
    <3> QED
      BY <3>3, <3>4 DEF Unbroken
  <2> QED
    BY <1>a, <2>3 DEF SessionInv
<1>13. CASE RestoreLink
  <2>1. linked' /\ UNCHANGED <<side, queue, remote, toSpoke, toHub, broken, attached>>
    BY <1>13 DEF RestoreLink, historyOfSessions
  <2>2. ASSUME NEW s \in Session, s \notin broken'
        PROVE  Unbroken(s)'
    BY <1>c, <2>1, <2>2
    DEF Unbroken, Quiet, Underway, MailOf, StartedOnce, Ordered, CalledOff, Opens, Heard
  <2> QED
    BY <1>a, <2>2 DEF SessionInv
<1>14. CASE UNCHANGED sessionVars
  <2>1. UNCHANGED <<side, queue, remote, toSpoke, toHub, linked, broken, attached>>
    BY <1>14 DEF sessionVars
  <2>2. ASSUME NEW s \in Session, s \notin broken'
        PROVE  Unbroken(s)'
    BY <1>c, <2>1, <2>2
    DEF Unbroken, Quiet, Underway, MailOf, StartedOnce, Ordered, CalledOff, Opens, Heard
  <2> QED
    BY <1>a, <2>2 DEF SessionInv
<1> QED
  BY <1>1, <1>2, <1>3, <1>4, <1>5, <1>6, <1>7, <1>8, <1>9, <1>10, <1>11,
     <1>12, <1>13, <1>14
  DEF SessionNext

\* In every reachable state the messages of a session, what the hub does for it
\* and what is open at the spoke agree, unless the connection was lost in it.
THEOREM SessionInvCorrect == SessionSpec => []SessionInv
<1>1. SessionInit => SessionInv
  BY InitSessionInv
<1>2. SessionInv /\ [SessionNext]_sessionVars => SessionInv'
  BY NextSessionInv
<1> QED
  BY <1>1, <1>2, PTL DEF SessionSpec

\* No console that a browser was attached to stays open at the spoke once the
\* hub is done with it and the spoke has read what was sent, for any number of
\* sessions and of losses of the connection.
THEOREM NoOrphanCorrect == SessionSpec => []NoOrphan
<1>1. SessionInv => NoOrphan
  <2> SUFFICES ASSUME SessionInv, NEW s \in attached \ broken,
                      side[s] = "over", ~Pending(s), remote[s] = "open"
               PROVE  FALSE
    BY DEF NoOrphan
  <2>1. s \in Session
    BY DEF SessionInv, SessionTypeOK
  <2>2. CalledOff(s)
    BY <2>1 DEF SessionInv, Unbroken
  <2>3. PICK i \in 1 .. Len(toSpoke) : toSpoke[i].of = s
    BY <2>2 DEF CalledOff, Opens, IsMsg
  <2>4. toSpoke[i] \in ToSet(toSpoke)
    BY <2>3, LenProperties DEF ToSet, SessionInv, SessionTypeOK
  <2> QED
    BY <2>3, <2>4 DEF Pending
<1> QED
  BY <1>1, SessionInvCorrect, PTL

\* No browser is left with a shell that has ended at the spoke without a word of
\* it on its way, for any number of sessions and of losses of the connection.
THEOREM EndIsHeardCorrect == SessionSpec => []EndIsHeard
<1>1. SessionInv => EndIsHeard
  <2> SUFFICES ASSUME SessionInv, NEW s \in Session \ broken,
                      kind[s] = "shell", side[s] = "relays", remote[s] # "open"
               PROVE  \/ \E m \in ToSet(toHub) : m.of = s /\ m.what # "started"
                      \/ \E m \in ToSet(queue[s]) : m.what # "started"
    BY DEF EndIsHeard
  <2>1. Underway(s) /\ Heard(s) /\ SessionTypeOK
    BY DEF SessionInv, Unbroken
  <2>2. remote[s] = "closed"
    BY <2>1 DEF Underway, SessionTypeOK
  <2>3. CASE \E i \in 1 .. Len(toHub) : toHub[i].of = s /\ toHub[i].what # "started"
    <3>1. PICK i \in 1 .. Len(toHub) : toHub[i].of = s /\ toHub[i].what # "started"
      BY <2>3
    <3>2. toHub[i] \in ToSet(toHub)
      BY <2>1, LenProperties DEF ToSet, SessionTypeOK
    <3> QED
      BY <3>1, <3>2
  <2>4. CASE \E i \in 1 .. Len(queue[s]) : queue[s][i].what # "started"
    <3>1. PICK i \in 1 .. Len(queue[s]) : queue[s][i].what # "started"
      BY <2>4
    <3>2. queue[s] \in Seq(Mail)
      BY <2>1 DEF SessionTypeOK
    <3>3. queue[s][i] \in ToSet(queue[s])
      BY <3>2, LenProperties DEF ToSet
    <3> QED
      BY <3>1, <3>3
  <2> QED
    BY <2>1, <2>2, <2>3, <2>4 DEF Heard
<1> QED
  BY <1>1, SessionInvCorrect, PTL

=============================================================================
