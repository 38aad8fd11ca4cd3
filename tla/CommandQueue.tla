---------------------------- MODULE CommandQueue ----------------------------
(***************************************************************************)
(* The command queue of one spoke (store.py) and its two ways out: the     *)
(* relay WebSocket (ws.py, push_spoke_commands) and the HTTP inbox         *)
(* (routers/spokes.py, get_inbox).  One gunicorn worker, as start.sh runs  *)
(* it: every store call is atomic under the process lock, and the push     *)
(* coroutines, the inbox polls, the acks, the administrator and the        *)
(* maintenance loop interleave between store calls.                        *)
(*                                                                         *)
(* A command is the number of its creation: the file only ever appends and *)
(* filters, so its rows are in the order of these numbers.  Expiry is a    *)
(* choice: rows carry TTLs of one hour or of a day, so any row may be the  *)
(* next to run out.  The spoke is external: it receives what the wire      *)
(* carries and acknowledges what it received, as often as it likes.        *)
(***************************************************************************)
EXTENDS Naturals

CONSTANTS MaxCmd,   \* bound: commands created for the spoke
          MaxConn,  \* bound: WebSocket connections the spoke opens
          MaxFail,  \* bound: errors of the store in a push
          Push      \* bound: push_spoke_commands coroutines alive at once

ASSUME BoundsAssumption == MaxCmd \in Nat /\ MaxConn \in Nat /\ MaxFail \in Nat

Cmd == 1 .. MaxCmd
Conn == 1 .. MaxConn
Http == 0           \* the inbox response as a channel; 0 is no connection
Offline == 0        \* no entry for the spoke in spoke_connections

VARIABLES
  status,       \* the queue file: the status of each command's row
  last,         \* number of commands created so far
  expired,      \* rows whose expires_at has passed
  socket,       \* the life of each WebSocket as the network sees it
  lastConn,     \* number of connections opened so far
  registered,   \* spoke_connections[(tenant, spoke)]
  opening,      \* the newest connection, while its handler is in its first push
  failures,     \* errors of the store in a push so far
  push,         \* the push_spoke_commands coroutines
  wire,         \* frames and responses on their way to the spoke
  sent,         \* commands transmitted at least once
  received      \* commands the spoke has received

file == <<status, last, expired>>
links == <<socket, lastConn, registered, opening, failures>>
vars == <<status, last, expired, socket, lastConn, registered, opening, failures,
          push, wire, sent, received>>

InFile == {"queued", "delivered", "executed"}
Status == {"new", "gone"} \cup InFile

\* closed: its handler unregistered it.  failed: its handler ended without.
SocketState == {"unused", "up", "down", "closed", "failed"}

Idle == [pc |-> "idle", batch |-> {}, via |-> Offline]

PushState == [pc : {"idle", "sending", "sent"}, batch : SUBSET Cmd,
              via : Conn \cup {Offline}]

Message == [via : Conn \cup {Http}, cmds : SUBSET Cmd]

TypeOK ==
  /\ status \in [Cmd -> Status]
  /\ last \in 0 .. MaxCmd
  /\ expired \subseteq Cmd
  /\ socket \in [Conn -> SocketState]
  /\ lastConn \in 0 .. MaxConn
  /\ registered \in Conn \cup {Offline}
  /\ opening \in {Offline, lastConn}
  /\ failures \in 0 .. MaxFail
  /\ push \in [Push -> PushState]
  /\ wire \subseteq Message
  /\ sent \subseteq Cmd
  /\ received \subseteq Cmd

Init ==
  /\ status = [c \in Cmd |-> "new"]
  /\ last = 0
  /\ expired = {}
  /\ socket = [w \in Conn |-> "unused"]
  /\ lastConn = 0
  /\ registered = Offline
  /\ opening = Offline
  /\ failures = 0
  /\ push = [p \in Push |-> Idle]
  /\ wire = {}
  /\ sent = {}
  /\ received = {}

-----------------------------------------------------------------------------
(* The store's operations on the queue file.                               *)

\* [c for c in cmds if c.expires_at > now]: the filter each rewrite applies.
Active(s) == [c \in Cmd |-> IF c \in expired /\ s[c] \in InFile THEN "gone"
                            ELSE s[c]]

\* Variant: the newest queued row only, as list_commands would order them.
NewestQueued(s) ==
  {c \in Cmd : s[c] = "queued" /\ \A d \in Cmd : s[d] = "queued" => d <= c}

Queued(s) == {c \in Cmd : s[c] = "queued"}

\* Variant: without the look at the row's status.
MarkAnyDelivered(s, cmds) ==
  [c \in Cmd |-> IF c \in cmds /\ s[c] \in InFile THEN "delivered" ELSE s[c]]

\* Variant: a status no other code knows.
MarkSent(s, cmds) ==
  [c \in Cmd |-> IF c \in cmds /\ s[c] = "queued" THEN "sent" ELSE s[c]]

\* Rows of cmds that are still queued become delivered.
MarkDelivered(s, cmds) ==
  [c \in Cmd |-> IF c \in cmds /\ s[c] = "queued" THEN "delivered" ELSE s[c]]

\* Variant: without the comparison of the ids.
AckedAll(s, c) == [d \in Cmd |-> IF s[d] \in InFile THEN "executed" ELSE s[d]]

\* Variant: the row get_command returned earlier is written back.
AckedRowBack(s, c) == [s EXCEPT ![c] = "executed"]

Acked(s, c) == [s EXCEPT ![c] = IF @ \in InFile THEN "executed" ELSE @]

NoRows(s) == [c \in Cmd |-> IF s[c] \in InFile THEN "gone" ELSE s[c]]

EnqueueCommand ==
  /\ last < MaxCmd
  /\ last' = last + 1
  /\ status' = [Active(status) EXCEPT ![last + 1] = "queued"]
  /\ UNCHANGED <<expired, links, push, wire, sent, received>>

\* The clock passes a row's expires_at; the row stays until a rewrite.
Expire(c) ==
  /\ status[c] \in InFile
  /\ c \notin expired
  /\ expired' = expired \cup {c}
  /\ UNCHANGED <<status, last, links, push, wire, sent, received>>

PurgeExpiredCommands ==
  /\ status' = Active(status)
  /\ UNCHANGED <<last, expired, links, push, wire, sent, received>>

\* An administrator clears the queue, or deletes the spoke with its queue.
ClearCommandQueue ==
  /\ status' = NoRows(status)
  /\ UNCHANGED <<last, expired, links, push, wire, sent, received>>

-----------------------------------------------------------------------------
(* The relay WebSocket.                                                    *)

\* The handler registers the new socket in place of whatever is there, and
\* pushes the queue before it enters the try whose finally unregisters.
RegisterSpoke ==
  /\ lastConn < MaxConn
  /\ lastConn' = lastConn + 1
  /\ socket' = [socket EXCEPT ![lastConn + 1] = "up"]
  /\ registered' = lastConn + 1
  /\ opening' = lastConn + 1
  /\ UNCHANGED <<file, failures, push, wire, sent, received>>

\* The first push has returned, whether it could send or not.  (Of an older
\* connection it does not matter: its end no longer touches the map.)
HandlerServes ==
  /\ opening # Offline
  /\ opening' = Offline
  /\ UNCHANGED <<file, socket, lastConn, registered, failures, push, wire, sent,
                 received>>

\* The network drops a connection; frames under way are lost, and the hub
\* does not know yet.
SocketDrops(w) ==
  /\ socket[w] = "up"
  /\ socket' = [socket EXCEPT ![w] = "down"]
  /\ wire' = {m \in wire : m.via # w}
  /\ UNCHANGED <<file, lastConn, registered, opening, failures, push, sent,
                 received>>

\* Variant: without the test that the socket is the registered one.
UnregisterAny(w) == registered' = Offline

\* Variant: no cleanup.
UnregisterNone(w) == registered' = registered

Unregister(w) == registered' = IF registered = w THEN Offline ELSE registered

\* The receive loop of the handler ends and its finally clause runs.
UnregisterSpoke(w) ==
  /\ socket[w] = "down" /\ w # opening
  /\ socket' = [socket EXCEPT ![w] = "closed"]
  /\ Unregister(w)
  /\ UNCHANGED <<file, lastConn, opening, failures, push, wire, sent, received>>

\* Variant: the rows are marked when they are read, before they are sent.
PushPeekMarks(p) ==
  /\ push[p].pc = "idle"
  /\ registered # Offline
  /\ status' = MarkDelivered(Active(status), Queued(Active(status)))
  /\ push' = [push EXCEPT ![p] =
                [pc |-> "sending", batch |-> Queued(Active(status)),
                 via |-> registered]]
  /\ UNCHANGED <<last, expired, links, wire, sent, received>>

\* A push coroutine runs up to its first await.  It starts on an enqueue, on
\* connection and after each telemetry or sync frame, so at any time.
PushPeek(p) ==
  /\ push[p].pc = "idle"
  /\ registered # Offline
  /\ status' = Active(status)
  /\ push' = [push EXCEPT ![p] =
                IF Queued(Active(status)) = {} THEN Idle
                ELSE [pc |-> "sending", batch |-> Queued(Active(status)),
                      via |-> registered]]
  /\ UNCHANGED <<last, expired, links, wire, sent, received>>

\* websocket.send_json returns.  On a socket that has dropped unnoticed it
\* may return too: the frame sits in a buffer and never arrives.
PushSend(p) ==
  /\ push[p].pc = "sending"
  /\ socket[push[p].via] \in {"up", "down"}
  /\ push' = [push EXCEPT ![p].pc = "sent"]
  /\ sent' = sent \cup push[p].batch
  /\ wire' = IF socket[push[p].via] = "up"
             THEN wire \cup {[via |-> push[p].via, cmds |-> push[p].batch]}
             ELSE wire
  /\ UNCHANGED <<file, links, received>>

\* websocket.send_json raises: the socket is unregistered if it still is the
\* registered one, and nothing is marked.
PushFails(p) ==
  /\ push[p].pc = "sending"
  /\ socket[push[p].via] \in {"down", "closed", "failed"}
  /\ Unregister(push[p].via)
  /\ push' = [push EXCEPT ![p] = Idle]
  /\ UNCHANGED <<file, socket, lastConn, opening, failures, wire, sent, received>>

PushMark(p) ==
  /\ push[p].pc = "sent"
  /\ status' = MarkDelivered(Active(status), push[p].batch)
  /\ push' = [push EXCEPT ![p] = Idle]
  /\ UNCHANGED <<last, expired, links, wire, sent, received>>

\* The store raises while the push peeks or marks, perhaps after it truncated
\* the file.  Where the push is the first one of a handler, the handler ends
\* with it and its socket stays registered; elsewhere the error is caught.
StoreFails(p) ==
  LET w == IF push[p].pc = "idle" THEN registered ELSE push[p].via IN
  /\ failures < MaxFail
  /\ failures' = failures + 1
  /\ push[p].pc \in {"idle", "sent"} /\ w # Offline
  /\ status' \in {status, NoRows(status)}
  /\ push' = [push EXCEPT ![p] = Idle]
  /\ \/ UNCHANGED <<socket, opening>>
     \/ /\ w = opening
        /\ socket' = [socket EXCEPT ![w] = "failed"]
        /\ opening' = Offline
  /\ UNCHANGED <<last, expired, lastConn, registered, wire, sent, received>>

-----------------------------------------------------------------------------
(* The HTTP inbox, the acknowledgement, the spoke.                         *)

\* Variant: the inbox peeks and leaves the marking to the ack.
GetInboxPeeks ==
  LET queued == Queued(Active(status)) IN
  /\ status' = Active(status)
  /\ wire' = IF queued = {} THEN wire
             ELSE wire \cup {[via |-> Http, cmds |-> queued]}
  /\ sent' = sent \cup queued
  /\ UNCHANGED <<last, expired, links, push, received>>

\* The rows are marked before the response leaves the hub.
GetInbox ==
  LET queued == Queued(Active(status)) IN
  /\ status' = MarkDelivered(Active(status), queued)
  /\ wire' = IF queued = {} THEN wire
             ELSE wire \cup {[via |-> Http, cmds |-> queued]}
  /\ sent' = sent \cup queued
  /\ UNCHANGED <<last, expired, links, push, received>>

LoseResponse(m) ==
  /\ m.via = Http
  /\ wire' = wire \ {m}
  /\ UNCHANGED <<file, links, push, sent, received>>

SpokeReceives(m) ==
  /\ wire' = wire \ {m}
  /\ received' = received \cup m.cmds
  /\ UNCHANGED <<file, links, push, sent>>

\* The spoke acknowledges a command it received: over either transport, late
\* or again.  No expiry filter and no look at the status.
AckCommand(c) ==
  /\ c \in received
  /\ status' = Acked(status, c)
  /\ UNCHANGED <<last, expired, links, push, wire, sent, received>>

-----------------------------------------------------------------------------
(* The hub process stops and starts again: its memory is gone.             *)

Restart ==
  /\ socket' = [w \in Conn |-> IF socket[w] = "unused" THEN "unused"
                               ELSE "closed"]
  /\ registered' = Offline
  /\ opening' = Offline
  /\ push' = [p \in Push |-> Idle]
  /\ wire' = {}

Crash ==
  /\ Restart
  /\ UNCHANGED <<file, lastConn, failures, sent, received>>

\* The process dies inside _write_json, which truncates the file before it
\* writes: _read_json finds no JSON in it and the queue is read as empty.
CrashInWrite ==
  /\ Restart
  /\ status' = NoRows(status)
  /\ UNCHANGED <<last, expired, lastConn, failures, sent, received>>

Next ==
  \/ EnqueueCommand
  \/ \E c \in Cmd : Expire(c) \/ AckCommand(c)
  \/ PurgeExpiredCommands
  \/ ClearCommandQueue
  \/ RegisterSpoke
  \/ HandlerServes
  \/ \E w \in Conn : SocketDrops(w) \/ UnregisterSpoke(w)
  \/ \E p \in Push :
       PushPeek(p) \/ PushSend(p) \/ PushFails(p) \/ PushMark(p) \/ StoreFails(p)
  \/ GetInbox
  \/ \E m \in wire : LoseResponse(m) \/ SpokeReceives(m)
  \/ Crash
  \/ CrashInWrite

Spec == Init /\ [][Next]_vars

-----------------------------------------------------------------------------
(* Safety.                                                                 *)

\* A row says delivered or executed only if the hub transmitted the command:
\* push_spoke_commands marks after the send, and a send that raised, a crash
\* or a queue cleared meanwhile never leaves an unsent command marked.
SettledWasSent ==
  \A c \in Cmd : status[c] \in {"delivered", "executed"} => c \in sent

\* A row says executed only if the spoke received that command, though acks
\* may be late, repeated, or arrive while a push of the command is under way.
ExecutedWasReceived ==
  \A c \in Cmd : status[c] = "executed" => c \in received

\* A command is not transmitted for the first time before an older one that
\* could still be transmitted: whatever pushes and polls overlap, an older
\* command was transmitted as well or its row left the file unsent.
SentInOrder ==
  \A c \in sent : \A d \in 1 .. c - 1 : d \in sent \/ status[d] = "gone"

\* The inbox hands a command out at most once: while a response with it is
\* under way its row is no longer queued, so no other poll can take it.
InboxTakesOnce ==
  \A m \in wire : m.via = Http => \A c \in m.cmds : status[c] # "queued"

\* The registered socket is the newest one and was not given up: whatever order
\* the failing sends and the finally clauses of several connections come in,
\* none leaves or puts back in the map a socket that was unregistered.  (That
\* its handler still runs cannot be said: one that a store error ends in its
\* first push leaves its socket there, until a send on it fails or the spoke
\* connects again.)
RegisteredIsNewest ==
  registered # Offline =>
    /\ registered = lastConn
    /\ socket[registered] \in {"up", "down", "failed"}

\* Progress of a row: no handler ever moves it back, and a row that has left
\* the file (expired, cleared, lost in a crash) is not written back by a push
\* or an ack that looked at the queue before.
Order == [s \in Status |-> CASE s = "new" -> 0 [] s = "queued" -> 1
                             [] s = "delivered" -> 2 [] s = "executed" -> 3
                             [] s = "gone" -> 4]
StatusForward ==
  [][\A c \in Cmd : Order[status'[c]] >= Order[status[c]]]_vars

\* The queue implements the promise CommandLifecycle makes.
Lifecycle == INSTANCE CommandLifecycle WITH Commands <- Cmd, stage <- status
ImplementsLifecycle == Lifecycle!Spec

-----------------------------------------------------------------------------
(* The inductive strengthening of the safety invariants.                   *)

\* The rows written so far are those numbered up to last, and nothing but
\* them is ever carried by a push, the wire or the spoke.
NewIsUnnumbered == \A c \in Cmd : status[c] = "new" <=> c > last
OnlyCreatedMove ==
  /\ \A p \in Push : /\ push[p].batch \subseteq 1 .. last
                     /\ push[p].pc # "idle" => push[p].via \in Conn
  /\ sent \subseteq 1 .. last
  /\ received \subseteq sent
  /\ \A m \in wire : m.cmds \subseteq sent

\* A batch about to be sent leaves out no older command that could still be
\* sent for the first time; a batch that was sent is in sent.
BatchesInOrder ==
  \A p \in Push :
    /\ push[p].pc = "sending" =>
         \A c \in push[p].batch : \A d \in 1 .. c - 1 :
           d \in push[p].batch \/ d \in sent \/ status[d] = "gone"
    /\ push[p].pc = "sent" => push[p].batch \subseteq sent

IInv ==
  /\ TypeOK
  /\ NewIsUnnumbered
  /\ OnlyCreatedMove
  /\ BatchesInOrder
  /\ SettledWasSent
  /\ ExecutedWasReceived
  /\ SentInOrder
  /\ InboxTakesOnce

-----------------------------------------------------------------------------
(* Liveness.                                                               *)

\* The event loop runs every coroutine that can run; a connected spoke sends
\* a telemetry frame every interval and the handler pushes after each.  Nobody
\* promises that the spoke connects, polls or acknowledges, that a row expires
\* or that a socket or the store fails; the store fails at most MaxFail times.
Fairness ==
  /\ \A p \in Push : /\ WF_vars(PushPeek(p))
                     /\ WF_vars(PushSend(p) \/ PushFails(p))
                     /\ WF_vars(PushMark(p))

FairSpec == Spec /\ Fairness

\* If the spoke's newest connection stays up from some point on, no command
\* stays queued: pushes that fail on older sockets, and their late cleanup,
\* do not make the hub forget the connection it has.
NewestStaysUp == <>[](lastConn > 0 /\ socket[lastConn] = "up")
QueuedIsServed ==
  NewestStaysUp => \A c \in Cmd : (status[c] = "queued") ~> (status[c] # "queued")

=============================================================================
